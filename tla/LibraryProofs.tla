---------------------------- MODULE LibraryProofs ----------------------------
(***************************************************************************)
(* Proofs about the parts of the library that share no state: the          *)
(* transaction planner, the key ceremony and the build of the circuits.    *)
(* Each has its inductive invariant and its theorems.                      *)
(*                                                                         *)
(* The planner comes first.  Its selection is a chain of scans, and for    *)
(* each the lemmas say what it finds and what it cannot have missed (the   *)
(* two-note window, the depth-first search that may be cut off, the greedy *)
(* prefix).  Its session is compared with the closed form of the plan: the *)
(* n-th transaction merges the first n + 1 notes of the selection, and no  *)
(* other note of the wallet has the amount of a merged one.                *)
(***************************************************************************)
EXTENDS TxPlanner, Ceremony, CircuitBuild, Arithmetic, SequenceTheorems, TLAPS

-----------------------------------------------------------------------------
(* The wallet.                                                             *)

\* What Wallets says of values.
IsWallet ==
  /\ Len(values) \in 0..MaxNotes
  /\ values \in Seq(Nat)
  /\ \A i \in 1..Len(values) : values[i] > 0
  /\ \A i, j \in 1..Len(values) : i <= j => values[i] <= values[j]

\* The wallets of PlannerInit are of this kind.
LEMMA WalletsSorted == values \in Wallets => IsWallet
<1> SUFFICES ASSUME values \in Wallets PROVE IsWallet
  OBVIOUS
<1>1. PICK n \in 0..MaxNotes : /\ values \in [1..n -> 1..MaxValue]
                               /\ \A i, j \in 1..n : i <= j => values[i] <= values[j]
  BY DEF Wallets
<1>2. n \in Nat /\ MaxNotes \in Nat /\ MaxValue \in Nat
  BY BoundsAreNatural
<1>3. values \in Seq(Nat) /\ Len(values) = n
  BY <1>1, <1>2
<1> QED BY <1>1, <1>2, <1>3 DEF IsWallet

\* The notes of a wallet and their amounts.
LEMMA WalletFacts ==
  ASSUME IsWallet
  PROVE  /\ Len(values) \in Nat /\ DOMAIN values = 1..Len(values)
         /\ \A i \in 1..Len(values) : values[i] \in Nat /\ values[i] > 0
         /\ \A i, j \in 1..Len(values) : i <= j => values[i] <= values[j]
BY DEF IsWallet

\* The value of a set of notes is a sum.
LEMMA ValueIsSum == ASSUME NEW S PROVE ValueOf(S) = SumOver(values, S)
BY DEF ValueOf, SumFunctionOnSet, FoldFunctionOnSet, MapThenFoldSet, SumOver, Sums, Adds, Pick

\* A set of notes has a value, from which any of them can be taken away.
LEMMA ValueFacts ==
  ASSUME IsWallet, NEW S \in SUBSET (1..Len(values))
  PROVE  /\ IsFiniteSet(S) /\ ValueOf(S) \in Nat
         /\ \A x \in S : ValueOf(S) = values[x] + ValueOf(S \ {x})
         /\ ValueOf({}) = 0
<1>1. IsFiniteSet(S)
  <2>1. Len(values) \in Int /\ 1 \in Int
    BY WalletFacts
  <2>2. IsFiniteSet(1..Len(values))
    BY <2>1, FS_Interval
  <2> QED BY <2>2, FS_Subset
<1>2. (\A x \in S : values[x] \in Nat) /\ (\A x \in S : values[x] \in Int)
  BY WalletFacts
<1>3. ValueOf(S) \in Nat
  BY <1>1, <1>2, SumOverNat, ValueIsSum, Zenon
<1>4. \A x \in S : ValueOf(S) = values[x] + ValueOf(S \ {x})
  <2>1. \A x \in S : SumOver(values, S) = values[x] + SumOver(values, S \ {x})
    BY <1>1, <1>2, SumOverRemove, Zenon
  <2> QED BY <2>1, ValueIsSum, Zenon
<1>5. ValueOf({}) = 0
  BY <1>1, SumOverUnfold, ValueIsSum
<1> QED BY <1>1, <1>3, <1>4, <1>5

\* One more note.
LEMMA ValueAdd ==
  ASSUME IsWallet, NEW S \in SUBSET (1..Len(values)), NEW x \in (1..Len(values)) \ S
  PROVE  ValueOf(S \cup {x}) = ValueOf(S) + values[x]
<1>1. (S \cup {x}) \ {x} = S
  OBVIOUS
<1>2. S \cup {x} \in SUBSET (1..Len(values)) /\ x \in S \cup {x}
  OBVIOUS
<1>3. ValueOf(S \cup {x}) = values[x] + ValueOf((S \cup {x}) \ {x})
  BY <1>2, ValueFacts
<1>4. ValueOf(S) \in Nat
  BY ValueFacts
<1>5. values[x] \in Nat
  BY WalletFacts
<1>6. ValueOf(S \cup {x}) = values[x] + ValueOf(S)
  BY <1>1, <1>3
<1> QED BY <1>4, <1>5, <1>6

\* Two notes.
LEMMA PairValue ==
  ASSUME IsWallet, NEW i \in 1..Len(values), NEW j \in 1..Len(values), i # j
  PROVE  ValueOf({i, j}) = values[i] + values[j] /\ ValueOf({i}) = values[i]
<1>1. ValueOf({} \cup {i}) = ValueOf({}) + values[i]
  BY ValueAdd
<1>2. ValueOf({i} \cup {j}) = ValueOf({i}) + values[j]
  BY ValueAdd
<1>3. ValueOf({}) = 0 /\ values[i] \in Nat /\ values[j] \in Nat
  BY ValueFacts, WalletFacts
<1>4. {} \cup {i} = {i} /\ {i} \cup {j} = {i, j}
  OBVIOUS
<1>5. ValueOf({i}) = 0 + values[i] /\ ValueOf({i, j}) = ValueOf({i}) + values[j]
  BY <1>1, <1>2, <1>3, <1>4
<1> QED BY <1>3, <1>5

-----------------------------------------------------------------------------
(* Running sums.                                                           *)

\* A choice of notes by their positions; the notes differ; the first n of them.
IsPicks(p) == p \in Seq(1..Len(values))
Distinct(p) == \A i, j \in 1..Len(p) : p[i] = p[j] => i = j
FirstOf(p, n) == {p[j] : j \in 1..n}

\* The running sum adds one note at a time.
LEMMA RunningFacts ==
  ASSUME IsWallet, NEW p, IsPicks(p)
  PROVE  /\ RunningSum(p)[0] = 0
         /\ \A n \in 1..Len(p) : RunningSum(p)[n] = RunningSum(p)[n - 1] + values[p[n]]
         /\ \A n \in 0..Len(p) : RunningSum(p)[n] \in Nat
<1> DEFINE N == Len(p)
           F == [n \in 1..N |-> [x \in Nat |-> x + values[p[n]]]]
           Body(g) == [n \in 0..N |-> IF n = 0 THEN 0 ELSE g[n - 1] + values[p[n]]]
           f == CHOOSE g : g = Body(g)
<1>0. /\ N \in Nat /\ \A n \in 1..N : values[p[n]] \in Nat
  BY WalletFacts DEF IsPicks
<1>1. \A n \in 1..N, x \in Nat : F[n][x] = x + values[p[n]] /\ F[n][x] \in Nat
  BY <1>0
<1> HIDE DEF F, N
<1>2. PICK g \in [0..N -> Nat] : g[0] = 0 /\ \A n \in 1..N : g[n] = F[n][g[n - 1]]
  <2>1. N \in Nat /\ 0 \in Nat /\ StaysIn(Nat, N, F)
    BY <1>0, <1>1 DEF StaysIn
  <2>2. \E g : Iterates(Nat, N, F, 0, g)
    BY ONLY <2>1, RecursionExists
  <2> QED BY <2>2 DEF Iterates
<1>3. ASSUME NEW n \in 1..N PROVE n - 1 \in 0..N /\ g[n] = g[n - 1] + values[p[n]]
  <2>1. n - 1 \in 0..N
    BY <1>0
  <2>2. g[n - 1] \in Nat
    BY <1>2, <2>1
  <2> QED BY <1>1, <1>2, <2>1, <2>2
<1>4. g = Body(g)
  BY <1>0, <1>2, <1>3
<1>5. f = Body(f)
  BY <1>4
<1>6. RunningSum(p) = f
  BY DEF RunningSum, N
<1> HIDE DEF f
<1>7. f[0] = 0 /\ \A n \in 1..N : f[n] = f[n - 1] + values[p[n]]
  BY <1>0, <1>5
<1> DEFINE G == {n \in Nat : n <= N => f[n] \in Nat}
<1>8. 0 \in G
  BY <1>7
<1>9. ASSUME NEW n \in Nat, n \in G PROVE n + 1 \in G
  <2> SUFFICES ASSUME n + 1 <= N PROVE f[n + 1] \in Nat
    OBVIOUS
  <2>1. f[n] \in Nat /\ n + 1 \in 1..N /\ (n + 1) - 1 = n
    BY <1>0, <1>9
  <2>2. f[n + 1] = f[n] + values[p[n + 1]] /\ values[p[n + 1]] \in Nat
    BY <1>0, <1>7, <2>1
  <2> QED BY <2>1, <2>2
<1> HIDE DEF G
<1>10. \A n \in 0..N : f[n] \in Nat
  <2>1. Nat \subseteq G
    BY <1>8, <1>9, Induct
  <2> QED BY <1>0, <2>1 DEF G
<1> QED BY <1>6, <1>7, <1>10 DEF N

\* The running sum of different notes is their value.
LEMMA RunningIsValue ==
  ASSUME IsWallet, NEW p, IsPicks(p), Distinct(p)
  PROVE  \A n \in 0..Len(p) : RunningSum(p)[n] = ValueOf(FirstOf(p, n))
<1> DEFINE G == {n \in Nat : n <= Len(p) => RunningSum(p)[n] = ValueOf(FirstOf(p, n))}
<1>0. Len(p) \in Nat /\ \A n \in 1..Len(p) : p[n] \in 1..Len(values)
  BY DEF IsPicks
<1>1. 0 \in G
  <2>1. FirstOf(p, 0) = {}
    BY DEF FirstOf
  <2> QED BY <2>1, RunningFacts, ValueFacts
<1>2. ASSUME NEW n \in Nat, n \in G PROVE n + 1 \in G
  <2> SUFFICES ASSUME n + 1 <= Len(p) PROVE RunningSum(p)[n + 1] = ValueOf(FirstOf(p, n + 1))
    OBVIOUS
  <2>1. n + 1 \in 1..Len(p) /\ (n + 1) - 1 = n /\ RunningSum(p)[n] = ValueOf(FirstOf(p, n))
    BY <1>0, <1>2
  <2>2. FirstOf(p, n + 1) = FirstOf(p, n) \cup {p[n + 1]}
    BY <1>0, <2>1 DEF FirstOf
  <2>3. FirstOf(p, n) \in SUBSET (1..Len(values)) /\ p[n + 1] \in (1..Len(values)) \ FirstOf(p, n)
    BY <1>0, <2>1 DEF FirstOf, Distinct
  <2>4. RunningSum(p)[n + 1] = RunningSum(p)[n] + values[p[n + 1]]
    BY <2>1, RunningFacts
  <2> QED BY <2>1, <2>2, <2>3, <2>4, ValueAdd
<1> HIDE DEF G
<1>3. Nat \subseteq G
  BY <1>1, <1>2, Induct
<1> QED BY <1>0, <1>3 DEF G

-----------------------------------------------------------------------------
(* The largest notes.                                                      *)

\* What the n largest notes are worth.
Top(n) == RunningSum(Descending(Len(values)))[n]

\* The candidates of the search are all the notes, the largest first.
LEMMA DescendingFacts ==
  ASSUME IsWallet
  PROVE  /\ IsPicks(Descending(Len(values))) /\ Distinct(Descending(Len(values)))
         /\ Len(Descending(Len(values))) = Len(values)
         /\ \A j \in 1..Len(values) : Descending(Len(values))[j] = Len(values) + 1 - j
<1> DEFINE N == Len(values)
           d == Descending(Len(values))
<1>1. N \in Nat
  BY DEF IsWallet
<1>2. d = [j \in 1..N |-> N + 1 - j]
  BY DEF Descending
<1>3. \A j \in 1..N : N + 1 - j \in 1..N
  BY <1>1
<1> HIDE DEF N, d
<1>4. d \in Seq(1..N) /\ Len(d) = N /\ \A j \in 1..N : d[j] = N + 1 - j
  BY <1>1, <1>2, <1>3
<1>5. Distinct(d)
  BY <1>1, <1>4 DEF Distinct
<1> QED BY <1>4, <1>5 DEF N, d, IsPicks

\* The largest notes, one by one.
LEMMA TopFacts ==
  ASSUME IsWallet
  PROVE  /\ Top(0) = 0
         /\ \A n \in 1..Len(values) : Top(n) = Top(n - 1) + values[Len(values) + 1 - n]
         /\ \A n \in 0..Len(values) : Top(n) \in Nat
BY DescendingFacts, RunningFacts DEF Top

\* More of the largest notes are worth no less.
LEMMA TopGrows ==
  ASSUME IsWallet
  PROVE  \A n \in 0..Len(values), m \in 0..Len(values) : m <= n => Top(m) <= Top(n)
<1> DEFINE N == Len(values)
           G == {n \in Nat : n <= N => \A m \in 0..n : Top(m) <= Top(n)}
<1>0. N \in Nat /\ \A n \in 1..N : N + 1 - n \in 1..N /\ values[N + 1 - n] \in Nat
  BY DEF IsWallet
<1>1. 0 \in G
  BY TopFacts
<1>2. ASSUME NEW n \in Nat, n \in G PROVE n + 1 \in G
  <2> SUFFICES ASSUME n + 1 <= N, NEW m \in 0..(n + 1) PROVE Top(m) <= Top(n + 1)
    OBVIOUS
  <2>1. n + 1 \in 1..N /\ (n + 1) - 1 = n /\ n \in 0..N /\ m \in 0..N
    BY <1>0
  <2>2. Top(n + 1) = Top(n) + values[N + 1 - (n + 1)] /\ Top(n) \in Nat /\ Top(m) \in Nat
    BY <2>1, TopFacts
  <2>3. values[N + 1 - (n + 1)] \in Nat
    BY <1>0, <2>1
  <2>4. Top(n) <= Top(n + 1)
    BY <2>2, <2>3
  <2>5. CASE m = n + 1
    BY <2>2, <2>3, <2>5
  <2>6. CASE m # n + 1
    <3>1. m \in 0..n
      BY <2>6
    <3>2. Top(m) <= Top(n)
      BY <1>0, <1>2, <2>1, <3>1
    <3> QED BY <2>2, <2>3, <3>2
  <2> QED BY <2>5, <2>6
<1> HIDE DEF G, N
<1>3. Nat \subseteq G
  BY <1>1, <1>2, Induct
<1> QED BY <1>0, <1>3 DEF G, N

\* No notes are worth more than as many of the largest.
LEMMA TopIsMost ==
  ASSUME IsWallet, NEW S \in SUBSET (1..Len(values))
  PROVE  Cardinality(S) \in 0..Len(values) /\ ValueOf(S) <= Top(Cardinality(S))
<1> DEFINE N == Len(values)
           G == {n \in Nat : \A T \in SUBSET (1..N) :
                               Cardinality(T) = n => n <= N /\ ValueOf(T) <= Top(n)}
<1>0. N \in Nat /\ \A T \in SUBSET (1..N) : IsFiniteSet(T) /\ Cardinality(T) \in Nat /\ ValueOf(T) \in Nat
  BY FS_CardinalityType, ValueFacts DEF IsWallet
<1>1. 0 \in G
  <2>1. \A T \in SUBSET (1..N) : Cardinality(T) = 0 => T = {}
    BY <1>0, FS_EmptySet
  <2>2. ValueOf({}) = 0 /\ Top(0) = 0
    BY ValueFacts, TopFacts
  <2>3. \A T \in SUBSET (1..N) : Cardinality(T) = 0 => 0 <= N /\ ValueOf(T) <= Top(0)
    <3> SUFFICES ASSUME NEW T \in SUBSET (1..N), Cardinality(T) = 0
                 PROVE  0 <= N /\ ValueOf(T) <= Top(0)
      OBVIOUS
    <3>1. T = {}
      BY <2>1
    <3>2. ValueOf(T) = 0 /\ Top(0) = 0
      BY <2>2, <3>1
    <3> QED BY <1>0, <3>2
  <2> QED BY <2>3
<1>2. ASSUME NEW n \in Nat, n \in G PROVE n + 1 \in G
  <2> SUFFICES ASSUME NEW T \in SUBSET (1..N), Cardinality(T) = n + 1
               PROVE  n + 1 <= N /\ ValueOf(T) <= Top(n + 1)
    OBVIOUS
  <2>1. T # {} /\ T \subseteq Nat
    BY <1>0, FS_EmptySet
  <2>2. PICK e \in T : \A y \in T : e <= y
    BY <2>1, LeastNumber
  <2>3. T \subseteq e..N /\ e \in 1..N
    BY <1>0, <2>2
  <2>4. IsFiniteSet(e..N) /\ Cardinality(e..N) = N - e + 1
    BY <1>0, <2>3, FS_Interval
  <2>5. n + 1 <= N - e + 1
    BY <1>0, <2>3, <2>4, FS_Subset
  <2>6. n + 1 \in 1..N /\ N + 1 - (n + 1) \in 1..N /\ e <= N + 1 - (n + 1)
    BY <1>0, <2>3, <2>5
  <2>7. values[e] <= values[N + 1 - (n + 1)] /\ values[e] \in Nat /\ values[N + 1 - (n + 1)] \in Nat
    BY <2>3, <2>6 DEF IsWallet
  <2>8. Cardinality(T \ {e}) = n
    BY <1>0, <2>2, FS_RemoveElement
  <2>9. ValueOf(T \ {e}) <= Top(n) /\ ValueOf(T \ {e}) \in Nat
    BY <1>0, <1>2, <2>8
  <2>10. ValueOf(T) = values[e] + ValueOf(T \ {e})
    BY <2>2, ValueFacts
  <2>11. Top(n + 1) = Top(n) + values[N + 1 - (n + 1)] /\ Top(n) \in Nat
    BY <2>6, TopFacts
  <2> QED BY <2>6, <2>7, <2>9, <2>10, <2>11
<1> HIDE DEF G, N
<1>3. Nat \subseteq G
  BY <1>1, <1>2, Induct
<1> QED BY <1>0, <1>3 DEF G, N
-----------------------------------------------------------------------------
(* The two-pointer scan.                                                   *)

\* The values of a selection.
Selections == [picks : Seq(Nat), excess : Nat]

\* A choice that is a pair of notes, with its excess over the goal.
IsPair(goal, r) ==
  \E i, j \in 1..Len(values) :
    /\ i < j /\ r = [picks |-> <<i, j>>, excess |-> values[i] + values[j] - goal]
    /\ values[i] + values[j] >= goal

\* The pair i, j is short of the goal or no better than the choice r.
NoBetter(goal, r, i, j) ==
  \/ values[i] + values[j] < goal
  \/ r.picks # <<>> /\ r.excess <= values[i] + values[j] - goal

\* The states of the scan: the best choice is a pair, and no pair outside the
\* window between the pointers is better.
ScanStates(goal) ==
  {s \in [left : 1..Len(values), right : 1..Len(values), best : Selections] :
     /\ s.left <= s.right
     /\ s.best = Miss \/ IsPair(goal, s.best)
     /\ \A i, j \in 1..Len(values) :
          i < j /\ (i < s.left \/ j > s.right) => NoBetter(goal, s.best, i, j)}

\* The loop of the scan is over: the pointers have met or the match is exact.
ScanEnded(s) == s.left >= s.right \/ (s.best.picks # <<>> /\ s.best.excess = 0)

\* A pair is a choice that was found.
LEMMA PairFacts ==
  ASSUME IsWallet, NEW goal \in Nat, NEW r, IsPair(goal, r)
  PROVE  r \in Selections /\ r.picks # <<>> /\ r # Miss
<1>1. PICK i, j \in 1..Len(values) :
        /\ i < j /\ r = [picks |-> <<i, j>>, excess |-> values[i] + values[j] - goal]
        /\ values[i] + values[j] >= goal
  BY DEF IsPair
<1>2. i \in Nat /\ j \in Nat /\ values[i] \in Nat /\ values[j] \in Nat
  BY WalletFacts
<1>3. <<i, j>> \in Seq(Nat) /\ <<i, j>> # <<>>
  BY <1>2
<1>4. values[i] + values[j] - goal \in Nat
  BY <1>1, <1>2
<1> QED BY <1>1, <1>3, <1>4 DEF Selections, Miss

\* An iteration keeps to these states and, until the scan has ended, makes
\* the window smaller or ends it.
LEMMA ScanStep ==
  ASSUME IsWallet, NEW goal \in Nat, NEW s \in ScanStates(goal)
  PROVE  /\ TwoScanStep(goal, s) \in ScanStates(goal)
         /\ ScanEnded(s) => TwoScanStep(goal, s) = s
         /\ ~ScanEnded(s) => \/ ScanEnded(TwoScanStep(goal, s))
                             \/ TwoScanStep(goal, s).right - TwoScanStep(goal, s).left
                                   = s.right - s.left - 1
<1> DEFINE N == Len(values)
           l == s.left
           r == s.right
           sum == values[l] + values[r]
           z == TwoScanStep(goal, s)
<1>0. /\ N \in Nat
      /\ \A i \in 1..N : values[i] \in Nat /\ values[i] > 0
      /\ \A i, j \in 1..N : i <= j => values[i] <= values[j]
  BY WalletFacts
<1>1. /\ s \in [left : 1..N, right : 1..N, best : Selections]
      /\ l \in 1..N /\ r \in 1..N /\ l <= r /\ s.best \in Selections
      /\ s.best = Miss \/ IsPair(goal, s.best)
      /\ \A i, j \in 1..N : i < j /\ (i < l \/ j > r) => NoBetter(goal, s.best, i, j)
  BY DEF ScanStates
<1>2. CASE ScanEnded(s)
  BY <1>2 DEF ScanEnded, TwoScanStep, Found
<1>3. CASE ~ScanEnded(s) /\ sum < goal
  <2>1. z = [s EXCEPT !.left = l + 1] /\ l < r
    BY <1>1, <1>3 DEF ScanEnded, TwoScanStep, Found
  <2>2. /\ z \in [left : 1..N, right : 1..N, best : Selections]
        /\ z.left = l + 1 /\ z.right = r /\ z.best = s.best
    BY <1>0, <1>1, <2>1
  <2>3. ASSUME NEW i \in 1..N, NEW j \in 1..N, i < j, i < l + 1 \/ j > r
        PROVE  NoBetter(goal, s.best, i, j)
    <3>1. CASE i < l \/ j > r
      BY <1>1, <2>3, <3>1
    <3>2. CASE i = l /\ j <= r
      <4>1. values[j] <= values[r] /\ values[j] \in Nat /\ values[r] \in Nat /\ values[l] \in Nat
        BY <1>0, <1>1, <3>2
      <4>2. values[i] + values[j] < goal
        BY <1>3, <3>2, <4>1
      <4> QED BY <4>2 DEF NoBetter
    <3> QED BY <1>0, <1>1, <2>3, <3>1, <3>2
  <2>4. z \in ScanStates(goal)
    <3>1. l + 1 <= r /\ z.left <= z.right
      BY <1>1, <2>1, <2>2
    <3>2. \A i, j \in 1..N : i < j /\ (i < z.left \/ j > z.right) => NoBetter(goal, z.best, i, j)
      BY <2>2, <2>3, Zenon
    <3> HIDE DEF z
    <3> QED BY <1>1, <2>2, <3>1, <3>2 DEF ScanStates
  <2>5. z.right - z.left = r - l - 1
    BY <1>1, <2>2
  <2> QED BY <1>3, <2>4, <2>5
<1>4. CASE ~ScanEnded(s) /\ sum >= goal
  <2> DEFINE h == [picks |-> <<l, r>>, excess |-> sum - goal]
  <2>0. l < r
    BY <1>1, <1>4 DEF ScanEnded
  <2>1. values[l] \in Nat /\ values[r] \in Nat /\ sum \in Nat /\ sum - goal \in Nat
    BY <1>0, <1>1, <1>4
  <2>2. IsPair(goal, h)
    <3>1. l < r /\ h = [picks |-> <<l, r>>, excess |-> values[l] + values[r] - goal]
          /\ values[l] + values[r] >= goal
      BY <1>4, <2>0, <2>1
    <3> QED BY <1>1, <3>1 DEF IsPair
  <2>3. h \in Selections /\ h.picks # <<>> /\ h.excess = sum - goal
    BY <2>2, PairFacts
  <2>4. CASE sum = goal
    <3>1. z = [s EXCEPT !.best = h]
      <4>1. h = Hit(<<l, r>>, 0)
        BY <2>1, <2>4 DEF Hit
      <4>2. ~(l >= r \/ (Found(s.best) /\ s.best.excess = 0)) /\ ~(sum < goal)
        BY <1>4, <2>1, <2>4 DEF ScanEnded, Found
      <4>3. z = [s EXCEPT !.best = Hit(<<l, r>>, 0)]
        BY <2>4, <4>2 DEF TwoScanStep
      <4> QED BY <4>1, <4>3
    <3> HIDE DEF h, z
    <3>2. z \in [left : 1..N, right : 1..N, best : Selections] /\ z.left = l /\ z.right = r /\ z.best = h
      BY <1>0, <1>1, <2>3, <3>1
    <3>3. h.excess = 0
      BY <2>1, <2>3, <2>4
    <3>4. ASSUME NEW i \in 1..N, NEW j \in 1..N
          PROVE  NoBetter(goal, h, i, j)
      <4>1. values[i] \in Nat /\ values[j] \in Nat
        BY <1>0
      <4> QED BY <2>3, <3>3, <4>1 DEF NoBetter
    <3>5. z \in ScanStates(goal)
      BY <1>1, <2>2, <3>2, <3>4 DEF ScanStates
    <3>6. ScanEnded(z)
      BY <2>3, <3>2, <3>3 DEF ScanEnded
    <3> QED BY <1>4, <3>5, <3>6 DEF z
  <2>5. CASE sum # goal
    <3> DEFINE b == IF s.best.picks = <<>> \/ sum - goal < s.best.excess THEN h ELSE s.best
    <3>1. z = [s EXCEPT !.right = r - 1, !.best = b]
      BY <1>1, <1>4, <2>0, <2>1, <2>5 DEF ScanEnded, TwoScanStep, Found, Hit
    <3>2. b \in Selections /\ b.picks # <<>> /\ b.excess <= sum - goal
      BY <1>1, <2>1, <2>3 DEF Selections
    <3>3. b = Miss \/ IsPair(goal, b)
      BY <1>1, <2>2
    <3>4. s.best.picks # <<>> => b.excess <= s.best.excess
      BY <1>1, <2>1, <2>3 DEF Selections
    <3>5. b.excess \in Nat /\ s.best.excess \in Nat
      BY <1>1, <3>2 DEF Selections
    <3> HIDE DEF h, z, b
    <3>6. z \in [left : 1..N, right : 1..N, best : Selections] /\ z.left = l /\ z.right = r - 1 /\ z.best = b
      <4>1. r - 1 \in 1..N
        BY <1>0, <1>1, <2>0
      <4> QED BY <1>1, <3>1, <3>2, <4>1
    <3>7. ASSUME NEW i \in 1..N, NEW j \in 1..N, i < j, i < l \/ j > r - 1
          PROVE  NoBetter(goal, b, i, j)
      <4>0. values[i] \in Nat /\ values[j] \in Nat
        BY <1>0
      <4>1. CASE i < l \/ j > r
        <5>1. NoBetter(goal, s.best, i, j)
          BY <1>1, <3>7, <4>1
        <5> QED BY <3>2, <3>4, <3>5, <4>0, <5>1 DEF NoBetter
      <4>2. CASE j = r /\ i >= l
        <5>1. values[i] >= values[l]
          BY <1>0, <1>1, <4>2
        <5>2. b.excess <= values[i] + values[j] - goal
          <6>1. values[j] = values[r] /\ b.excess <= (values[l] + values[r]) - goal
            BY <3>2, <4>2
          <6>2. \A e, vi, vj, vl \in Nat :
                  e <= (vl + vj) - goal /\ vi >= vl => e <= vi + vj - goal
            OBVIOUS
          <6> QED BY <2>1, <3>5, <4>0, <5>1, <6>1, <6>2
        <5> QED BY <3>2, <5>2 DEF NoBetter
      <4> QED BY <1>0, <1>1, <3>7, <4>1, <4>2
    <3>8. z \in ScanStates(goal)
      BY <1>0, <1>1, <2>0, <3>3, <3>6, <3>7 DEF ScanStates
    <3>9. z.right - z.left = r - l - 1
      BY <1>1, <3>6
    <3> QED BY <1>4, <3>8, <3>9 DEF z
  <2> QED BY <2>4, <2>5
<1>5. sum \in Nat
  BY <1>0, <1>1
<1> QED BY <1>2, <1>3, <1>4, <1>5

\* The states of the scan, one after the other.
TwoScanRun(goal) ==
  CHOOSE g : g = [n \in 0..Len(values) |->
                    IF n = 0 THEN [left |-> 1, right |-> Len(values), best |-> Miss]
                    ELSE TwoScanStep(goal, g[n - 1])]

\* The first state of the scan.
LEMMA ScanStart ==
  ASSUME IsWallet, NEW goal \in Nat, Len(values) >= 2
  PROVE  [left |-> 1, right |-> Len(values), best |-> Miss] \in ScanStates(goal)
<1>1. Miss \in Selections
  BY DEF Miss, Selections
<1>2. Len(values) \in Nat
  BY WalletFacts
<1> QED BY <1>1, <1>2 DEF ScanStates

\* The states that the scan goes through.
LEMMA ScanRuns ==
  ASSUME IsWallet, NEW goal \in Nat, Len(values) >= 2
  PROVE  /\ TwoScanRun(goal) \in [0..Len(values) -> ScanStates(goal)]
         /\ TwoScanRun(goal)[0] = [left |-> 1, right |-> Len(values), best |-> Miss]
         /\ \A n \in 1..Len(values) :
              TwoScanRun(goal)[n] = TwoScanStep(goal, TwoScanRun(goal)[n - 1])
<1> DEFINE N == Len(values)
           S == ScanStates(goal)
           a == [left |-> 1, right |-> N, best |-> Miss]
           F == [n \in 1..N |-> [s \in S |-> TwoScanStep(goal, s)]]
           Body(g) == [n \in 0..N |-> IF n = 0 THEN a ELSE TwoScanStep(goal, g[n - 1])]
           f == CHOOSE g : g = Body(g)
<1>0. N \in Nat
  BY WalletFacts
<1>1. a \in S
  BY ScanStart
<1>2. \A n \in 1..N, s \in S : F[n][s] = TwoScanStep(goal, s) /\ F[n][s] \in S
  BY ScanStep
<1> HIDE DEF S, a, F
<1>3. PICK g : Iterates(S, N, F, a, g)
  <2>1. StaysIn(S, N, F)
    BY <1>2 DEF StaysIn
  <2> QED BY <1>0, <1>1, <2>1, RecursionExists
<1>4. g \in [0..N -> S] /\ g[0] = a /\ \A n \in 1..N : n - 1 \in 0..N /\ g[n] = F[n][g[n - 1]]
  BY <1>0, <1>3 DEF Iterates
<1>5. \A n \in 1..N : g[n] = TwoScanStep(goal, g[n - 1])
  BY <1>2, <1>4
<1>6. g = Body(g)
  BY <1>0, <1>4, <1>5
<1>7. f = Body(f)
  BY <1>6
<1>8. TwoScanRun(goal) = f
  BY DEF TwoScanRun, a
<1> HIDE DEF f
<1>9. f[0] = a /\ \A n \in 1..N : f[n] = TwoScanStep(goal, f[n - 1])
  BY <1>0, <1>7
<1> DEFINE G == {n \in Nat : n <= N => f[n] \in S}
<1>10. 0 \in G
  BY <1>1, <1>9
<1>11. ASSUME NEW n \in Nat, n \in G PROVE n + 1 \in G
  <2> SUFFICES ASSUME n + 1 <= N PROVE f[n + 1] \in S
    OBVIOUS
  <2>1. f[n] \in S /\ n + 1 \in 1..N /\ (n + 1) - 1 = n
    BY <1>0, <1>11
  <2>2. f[n + 1] = TwoScanStep(goal, f[n])
    BY <1>9, <2>1
  <2> QED BY <2>1, <2>2, ScanStep DEF S
<1> HIDE DEF G
<1>12. \A n \in 0..N : f[n] \in S
  <2>1. Nat \subseteq G
    BY <1>10, <1>11, Induct
  <2> QED BY <1>0, <2>1 DEF G
<1>13. f \in [0..N -> S]
  BY <1>7, <1>12
<1> QED BY <1>8, <1>9, <1>13 DEF S, a

\* The pair of the scan is the best one.
LEMMA TwoScanBest ==
  ASSUME IsWallet, NEW goal \in Nat
  PROVE  /\ TwoScan(goal) = Miss \/ IsPair(goal, TwoScan(goal))
         /\ \A i, j \in 1..Len(values) : i < j => NoBetter(goal, TwoScan(goal), i, j)
<1> DEFINE N == Len(values)
           f == TwoScanRun(goal)
<1>0. N \in Nat
  BY WalletFacts
<1>1. CASE N < 2
  <2>1. TwoScan(goal) = Miss
    BY <1>1 DEF TwoScan
  <2> QED BY <1>0, <1>1, <2>1
<1>2. CASE N >= 2
  <2>0. /\ f \in [0..N -> ScanStates(goal)] /\ f[0] = [left |-> 1, right |-> N, best |-> Miss]
        /\ \A n \in 1..N : f[n] = TwoScanStep(goal, f[n - 1])
    BY <1>2, ScanRuns
  <2>1. TwoScan(goal) = f[N].best
    BY <1>0, <1>2 DEF TwoScan, TwoScanRun
  <2> HIDE DEF f
  <2>2. ASSUME NEW n \in 0..N PROVE f[n].left \in 1..N /\ f[n].right \in 1..N /\ f[n].left <= f[n].right
    BY <2>0 DEF ScanStates
  <2> DEFINE G == {n \in Nat : n <= N => ScanEnded(f[n]) \/ f[n].right - f[n].left = N - 1 - n}
  <2>3. 0 \in G
    BY <1>0, <2>0
  <2>4. ASSUME NEW n \in Nat, n \in G PROVE n + 1 \in G
    <3> SUFFICES ASSUME n + 1 <= N
                 PROVE  ScanEnded(f[n + 1]) \/ f[n + 1].right - f[n + 1].left = N - 1 - (n + 1)
      OBVIOUS
    <3>1. n \in 0..N /\ n + 1 \in 0..N /\ n + 1 \in 1..N /\ (n + 1) - 1 = n
      BY <1>0
    <3>2. f[n + 1] = TwoScanStep(goal, f[n]) /\ f[n] \in ScanStates(goal)
      BY <2>0, <3>1
    <3>3. ScanEnded(f[n]) \/ f[n].right - f[n].left = N - 1 - n
      BY <1>0, <2>4, <3>1
    <3>4. CASE ScanEnded(f[n])
      BY <3>2, <3>4, ScanStep
    <3>5. CASE ~ScanEnded(f[n])
      <4>1. ScanEnded(f[n + 1]) \/ f[n + 1].right - f[n + 1].left = f[n].right - f[n].left - 1
        BY <3>2, <3>5, ScanStep
      <4> QED BY <1>0, <2>2, <3>1, <3>3, <3>5, <4>1
    <3> QED BY <3>4, <3>5
  <2> HIDE DEF G
  <2>5. Nat \subseteq G
    BY <2>3, <2>4, Induct
  <2>6. ScanEnded(f[N])
    <3>1. ScanEnded(f[N]) \/ f[N].right - f[N].left = N - 1 - N
      BY <1>0, <2>5 DEF G
    <3> QED BY <1>0, <2>2, <3>1
  <2>7. /\ f[N].best = Miss \/ IsPair(goal, f[N].best)
        /\ \A i, j \in 1..N : i < j /\ (i < f[N].left \/ j > f[N].right) => NoBetter(goal, f[N].best, i, j)
        /\ f[N].best \in Selections
    BY <1>0, <2>0 DEF ScanStates
  <2>8. ASSUME NEW i \in 1..N, NEW j \in 1..N, i < j PROVE NoBetter(goal, f[N].best, i, j)
    <3>1. CASE f[N].left >= f[N].right
      <4>1. i < f[N].left \/ j > f[N].right
        BY <1>0, <2>2, <2>8, <3>1
      <4> QED BY <2>7, <2>8, <4>1
    <3>2. CASE f[N].best.picks # <<>> /\ f[N].best.excess = 0
      <4>1. values[i] \in Nat /\ values[j] \in Nat
        BY WalletFacts
      <4> QED BY <3>2, <4>1 DEF NoBetter
    <3> QED BY <2>6, <3>1, <3>2 DEF ScanEnded
  <2> QED BY <2>1, <2>7, <2>8
<1> QED BY <1>0, <1>1, <1>2
-----------------------------------------------------------------------------
(* The single note.                                                        *)

\* The least of some natural numbers.
LEMMA MinFacts ==
  ASSUME NEW S, S \subseteq Nat, S # {}
  PROVE  Min(S) \in S /\ \A y \in S : Min(S) <= y
<1>1. \E x \in S : \A y \in S : x <= y
  BY LeastNumber
<1> QED BY <1>1 DEF Min

\* The choice of the note m.
Single(goal, m) == [picks |-> <<m>>, excess |-> values[m] - goal]

\* The single note is the smallest one that covers the goal.
LEMMA OneScanFacts ==
  ASSUME IsWallet, NEW goal
  PROVE  LET large == {i \in 1..Len(values) : values[i] >= goal}
         IN  /\ large = {} => OneScan(goal) = Miss
             /\ large # {} => /\ OneScan(goal) = Single(goal, Min(large))
                              /\ Min(large) \in large /\ \A i \in large : Min(large) <= i
<1> DEFINE large == {i \in 1..Len(values) : values[i] >= goal}
<1>1. DOMAIN values = 1..Len(values) /\ Len(values) \in Nat
  BY WalletFacts
<1>2. large \subseteq Nat
  OBVIOUS
<1>3. OneScan(goal) = IF large = {} THEN Miss ELSE Single(goal, Min(large))
  BY <1>1 DEF OneScan, Hit, Single
<1> HIDE DEF large
<1>4. large # {} => Min(large) \in large /\ \A i \in large : Min(large) <= i
  BY <1>2, MinFacts
<1> QED BY <1>3, <1>4 DEF large

-----------------------------------------------------------------------------
(* Paths of the depth-first search.                                        *)

\* The notes are chosen from the largest to the smallest.
Falling(p) == \A i, j \in 1..Len(p) : i < j => p[i] > p[j]

\* A path whose notes are larger than m.
PathOK(m, p) == IsPicks(p) /\ Falling(p) /\ \A j \in 1..Len(p) : p[j] > m

\* The notes of a path.
PathSet(p) == FirstOf(p, Len(p))

\* A choice of k different notes, largest first.
Chosen(goal, k, r) ==
  /\ r \in Selections /\ Len(r.picks) = k
  /\ PathOK(0, r.picks)
  /\ ValueOf(PathSet(r.picks)) = goal + r.excess

\* A path as a sequence and as a set.
LEMMA PathFacts ==
  ASSUME IsWallet, NEW m \in Nat, NEW p, PathOK(m, p)
  PROVE  /\ p \in Seq(Nat) /\ Len(p) \in Nat /\ Distinct(p)
         /\ \A j \in 1..Len(p) : p[j] \in 1..Len(values)
         /\ PathSet(p) \in SUBSET (1..Len(values))
         /\ IsFiniteSet(PathSet(p)) /\ Cardinality(PathSet(p)) = Len(p)
         /\ ValueOf(PathSet(p)) \in Nat
<1>1. p \in Seq(1..Len(values)) /\ Len(p) \in Nat /\ Len(values) \in Nat
  BY WalletFacts DEF PathOK, IsPicks
<1>2. \A j \in 1..Len(p) : p[j] \in 1..Len(values)
  BY <1>1
<1>3. p \in Seq(Nat)
  BY <1>1, <1>2
<1>4. Distinct(p)
  BY <1>1, <1>2 DEF PathOK, Falling, Distinct
<1>5. PathSet(p) \in SUBSET (1..Len(values))
  BY <1>2 DEF PathSet, FirstOf
<1>6. IsFiniteSet(PathSet(p)) /\ ValueOf(PathSet(p)) \in Nat
  BY <1>5, ValueFacts
<1>7. Cardinality(PathSet(p)) = Len(p)
  <2> DEFINE f == [j \in 1..Len(p) |-> p[j]]
  <2>1. f \in [1..Len(p) -> PathSet(p)]
    BY DEF PathSet, FirstOf
  <2>2. \A a, b \in 1..Len(p) : f[a] = f[b] => a = b
    BY <1>4 DEF Distinct
  <2>3. \A t \in PathSet(p) : \E s \in 1..Len(p) : f[s] = t
    BY DEF PathSet, FirstOf
  <2> HIDE DEF f
  <2>4. f \in Bijection(1..Len(p), PathSet(p))
    <3>1. f \in Injection(1..Len(p), PathSet(p))
      BY <2>1, <2>2, Zenon DEF Injection, IsInjective
    <3>2. f \in Surjection(1..Len(p), PathSet(p))
      BY <2>1, <2>3, Zenon DEF Surjection
    <3> QED BY <3>1, <3>2 DEF Bijection
  <2>5. ExistsBijection(1..Len(p), PathSet(p))
    BY <2>4 DEF ExistsBijection
  <2> QED BY <1>1, <2>5, FS_CountingElements
<1> QED BY <1>1, <1>2, <1>3, <1>4, <1>5, <1>6, <1>7

\* The next note goes to the end of the path.
LEMMA PathAppend ==
  ASSUME IsWallet, NEW m \in 1..Len(values), NEW p, PathOK(m, p)
  PROVE  /\ PathOK(m - 1, Append(p, m)) /\ PathOK(m - 1, p)
         /\ Len(Append(p, m)) = Len(p) + 1 /\ Append(p, m) \in Seq(Nat)
         /\ ValueOf(PathSet(Append(p, m))) = ValueOf(PathSet(p)) + values[m]
<1> DEFINE a == Append(p, m)
           N == Len(values)
<1>0. N \in Nat /\ m \in Nat
  BY WalletFacts
<1>1. p \in Seq(1..N) /\ Len(p) \in Nat /\ \A j \in 1..Len(p) : p[j] \in 1..N /\ p[j] > m
  BY <1>0 DEF PathOK, IsPicks
<1>2. /\ a \in Seq(1..N) /\ Len(a) = Len(p) + 1 /\ a[Len(p) + 1] = m
      /\ \A j \in 1..Len(p) : a[j] = p[j]
  BY <1>1
<1> HIDE DEF a, N
<1>3. \A j \in 1..Len(a) : j \in 1..Len(p) \/ j = Len(p) + 1
  BY <1>1, <1>2
<1>4. Falling(a)
  <2> SUFFICES ASSUME NEW i \in 1..Len(a), NEW j \in 1..Len(a), i < j PROVE a[i] > a[j]
    BY DEF Falling
  <2>1. i \in 1..Len(p)
    BY <1>1, <1>2, <1>3
  <2>2. CASE j \in 1..Len(p)
    BY <1>2, <2>1, <2>2 DEF PathOK, Falling
  <2>3. CASE j = Len(p) + 1
    BY <1>1, <1>2, <2>1, <2>3
  <2> QED BY <1>3, <2>2, <2>3
<1>5. \A j \in 1..Len(a) : a[j] > m - 1
  <2> SUFFICES ASSUME NEW j \in 1..Len(a) PROVE a[j] > m - 1
    OBVIOUS
  <2>1. CASE j \in 1..Len(p)
    <3>1. a[j] = p[j] /\ p[j] \in Int /\ p[j] > m
      BY <1>0, <1>1, <1>2, <2>1 DEF N
    <3> QED BY <1>0, <3>1
  <2>2. CASE j = Len(p) + 1
    BY <1>0, <1>2, <2>2
  <2> QED BY <1>3, <2>1, <2>2
<1>6. PathOK(m - 1, a)
  BY <1>2, <1>4, <1>5 DEF PathOK, IsPicks, N
<1>7. PathOK(m - 1, p)
  BY <1>0, <1>1 DEF PathOK, IsPicks, N
<1>8. PathSet(a) = PathSet(p) \cup {m}
  <2>1. \A x : x \in PathSet(a) <=> \E j \in 1..Len(a) : x = a[j]
    BY DEF PathSet, FirstOf
  <2>2. \A x : x \in PathSet(p) <=> \E j \in 1..Len(p) : x = p[j]
    BY DEF PathSet, FirstOf
  <2>3. Len(p) + 1 \in 1..Len(a) /\ \A j \in 1..Len(p) : j \in 1..Len(a)
    BY <1>1, <1>2
  <2>4. ASSUME NEW x \in PathSet(a) PROVE x \in PathSet(p) \cup {m}
    BY <1>2, <1>3, <2>1, <2>2
  <2>5. ASSUME NEW x \in PathSet(p) PROVE x \in PathSet(a)
    BY <1>2, <2>1, <2>2, <2>3
  <2>6. m \in PathSet(a)
    BY <1>2, <2>1, <2>3
  <2> QED BY <2>4, <2>5, <2>6
<1>9. m \notin PathSet(p)
  <2>1. \A j \in 1..Len(p) : p[j] # m
    BY <1>0, <1>1
  <2> QED BY <2>1 DEF PathSet, FirstOf
<1>10. PathSet(p) \in SUBSET (1..Len(values))
  BY <1>0, PathFacts
<1>11. ValueOf(PathSet(a)) = ValueOf(PathSet(p)) + values[m]
  BY <1>8, <1>9, <1>10, ValueAdd
<1>12. a \in Seq(Nat)
  BY <1>0, <1>2
<1> QED BY <1>2, <1>6, <1>7, <1>11, <1>12 DEF a
-----------------------------------------------------------------------------
(* The depth-first search, over the whole wallet.                          *)

\* The best choice so far is none or one of k notes that covers the goal.
BestOK(goal, k, b) == b = Miss \/ Chosen(goal, k, b)

\* A context with the notes 1 to m to choose from.
CtxOK(goal, k, m, c) ==
  /\ c \in Contexts /\ PathOK(m, c.path) /\ Len(c.path) <= k
  /\ c.sum = ValueOf(PathSet(c.path))
  /\ BestOK(goal, k, c.best)
  /\ c.left \in Nat /\ c.found = FALSE

\* What the search from c makes of it: an exact choice or a best one, never
\* losing a choice, and nothing when fewer nodes are left than the path lacks.
Searched(goal, k, c, o) ==
  /\ o \in Contexts /\ BestOK(goal, k, o.best)
  /\ o.left \in Nat /\ o.left <= c.left
  /\ o.found => Chosen(goal, k, [picks |-> o.path, excess |-> 0])
  /\ c.best.picks # <<>> => o.best.picks # <<>>
  /\ c.left + Len(c.path) < k => o.found = FALSE /\ o.best = c.best

\* The context of the search with note m.
WithNote(c, m) == [c EXCEPT !.path = Append(@, m), !.sum = @ + values[m], !.left = @ - 1]

\* And the one of the search without it, after the search with it ended in w.
Without(c, w) == [w EXCEPT !.path = c.path, !.sum = c.sum]

\* The search in w found no exact match.
NoMatch(w) == w.found = FALSE

\* One node of the search; h is the search among the smaller notes.
DfsNode(goal, k, m, h, c) ==
  IF Len(c.path) = k THEN Judged(goal, c)
  ELSE IF c.sum >= goal \/ m = 0 \/ c.left <= 0 THEN c
  ELSE IF h[WithNote(c, m)].found THEN h[WithNote(c, m)]
  ELSE h[Without(c, h[WithNote(c, m)])]

\* The parts of a context.
LEMMA ContextFacts ==
  ASSUME NEW c \in Contexts
  PROVE  /\ c.path \in Seq(Nat) /\ c.sum \in Nat /\ c.left \in Int /\ c.found \in BOOLEAN
         /\ c.best \in Selections /\ c.best.picks \in Seq(Nat) /\ c.best.excess \in Nat
BY DEF Contexts, Selections

\* Pushing a note on the path.
LEMMA WithNoteFacts ==
  ASSUME IsWallet, NEW m \in 1..Len(values), NEW c \in Contexts
  PROVE  /\ WithNote(c, m) \in Contexts
         /\ WithNote(c, m).path = Append(c.path, m)
         /\ WithNote(c, m).sum = c.sum + values[m]
         /\ WithNote(c, m).left = c.left - 1
         /\ WithNote(c, m).best = c.best /\ WithNote(c, m).found = c.found
<1>1. m \in Nat /\ values[m] \in Nat
  BY WalletFacts
<1>2. Append(c.path, m) \in Seq(Nat) /\ c.sum + values[m] \in Nat /\ c.left - 1 \in Int
  BY <1>1, ContextFacts
<1> QED BY <1>2 DEF WithNote, Contexts

\* Popping it again: the best choice and the nodes left are kept.
LEMMA BackFacts ==
  ASSUME NEW o \in Contexts, NEW c \in Contexts
  PROVE  /\ Without(c, o) \in Contexts
         /\ Without(c, o).path = c.path /\ Without(c, o).sum = c.sum
         /\ Without(c, o).best = o.best /\ Without(c, o).left = o.left
         /\ Without(c, o).found = o.found
BY DEF Contexts, Without

\* What a full path makes of the context.
LEMMA JudgedFacts ==
  ASSUME NEW goal \in Nat, NEW c \in Contexts
  PROVE  LET j == Judged(goal, c)
         IN  /\ j \in Contexts /\ j.path = c.path /\ j.left = c.left
             /\ c.found = FALSE => (j.found <=> c.sum = goal)
             /\ \/ j.best = c.best
                \/ c.sum > goal /\ j.best = [picks |-> c.path, excess |-> c.sum - goal]
             /\ c.sum > goal /\ j.best = c.best =>
                  c.best.picks # <<>> \/ c.path = <<>>
<1> DEFINE j == Judged(goal, c)
           b == [picks |-> c.path, excess |-> c.sum - goal]
<1>0. c.path \in Seq(Nat) /\ c.sum \in Nat /\ c.left \in Int /\ c.found \in BOOLEAN
  BY ContextFacts
<1>1. CASE c.sum = goal
  <2>1. j = [c EXCEPT !.found = TRUE]
    BY <1>1 DEF Judged
  <2>2. j \in Contexts /\ j.path = c.path /\ j.left = c.left /\ j.best = c.best /\ j.found = TRUE
    BY <2>1 DEF Contexts
  <2>3. ~(c.sum > goal)
    BY <1>0, <1>1
  <2> QED BY <1>1, <2>2, <2>3
<1>2. CASE c.sum > goal /\ (c.best.picks = <<>> \/ c.sum - goal < c.best.excess)
  <2>1. c.sum # goal
    BY <1>0, <1>2
  <2>2. j = [c EXCEPT !.best = b]
    BY <1>2, <2>1 DEF Judged, Found, Hit
  <2>3. c.sum - goal \in Nat
    BY <1>0, <1>2
  <2>4. j \in Contexts /\ j.path = c.path /\ j.left = c.left /\ j.best = b /\ j.found = c.found
    <3>1. b \in [picks : Seq(Nat), excess : Nat]
      BY <1>0, <2>3
    <3> HIDE DEF b
    <3> QED BY <1>0, <2>2, <3>1 DEF Contexts
  <2>5. j.best = c.best => c.best.picks = c.path
    BY <2>4
  <2> QED BY <1>0, <1>2, <2>1, <2>4, <2>5
<1>3. CASE c.sum # goal /\ ~(c.sum > goal /\ (c.best.picks = <<>> \/ c.sum - goal < c.best.excess))
  <2>1. j = c
    BY <1>3 DEF Judged, Found
  <2> QED BY <1>0, <1>3, <2>1
<1> QED BY <1>1, <1>2, <1>3

\* The context of the search with the next note is well-formed.
LEMMA WithNoteOK ==
  ASSUME IsWallet, NEW goal \in Nat, NEW k \in Nat, NEW m \in 1..Len(values), NEW c,
         CtxOK(goal, k, m, c), Len(c.path) # k, c.left > 0
  PROVE  /\ WithNote(c, m) \in Contexts /\ CtxOK(goal, k, m - 1, WithNote(c, m))
         /\ Len(WithNote(c, m).path) = Len(c.path) + 1
<1> DEFINE d == WithNote(c, m)
<1>0. /\ c \in Contexts /\ PathOK(m, c.path) /\ Len(c.path) <= k
      /\ c.sum = ValueOf(PathSet(c.path)) /\ BestOK(goal, k, c.best)
      /\ c.left \in Nat /\ c.found = FALSE /\ Len(c.path) \in Nat
  BY ContextFacts DEF CtxOK
<1>1. Len(c.path) + 1 <= k /\ c.left - 1 \in Nat
  BY <1>0
<1>2. /\ d \in Contexts /\ d.path = Append(c.path, m) /\ d.sum = c.sum + values[m]
      /\ d.left = c.left - 1 /\ d.best = c.best /\ d.found = c.found
  BY <1>0, WithNoteFacts
<1>3. /\ PathOK(m - 1, Append(c.path, m))
      /\ Len(Append(c.path, m)) = Len(c.path) + 1
      /\ ValueOf(PathSet(Append(c.path, m))) = ValueOf(PathSet(c.path)) + values[m]
  BY <1>0, PathAppend
<1> HIDE DEF d
<1>4. CtxOK(goal, k, m - 1, d)
  BY <1>0, <1>1, <1>2, <1>3 DEF CtxOK
<1> QED BY <1>2, <1>3, <1>4 DEF d

\* So is the one of the search without it.
LEMMA WithoutNoteOK ==
  ASSUME IsWallet, NEW goal \in Nat, NEW k \in Nat, NEW m \in 1..Len(values), NEW c,
         CtxOK(goal, k, m, c), NEW d, NEW w, Searched(goal, k, d, w), NoMatch(w)
  PROVE  LET b == Without(c, w)
         IN
         /\ b \in Contexts /\ CtxOK(goal, k, m - 1, b)
         /\ b.path = c.path /\ b.best = w.best /\ b.left = w.left
<1> DEFINE b == Without(c, w)
<1>0. /\ c \in Contexts /\ PathOK(m, c.path) /\ Len(c.path) <= k
      /\ c.sum = ValueOf(PathSet(c.path))
  BY DEF CtxOK
<1>1. w \in Contexts /\ BestOK(goal, k, w.best) /\ w.left \in Nat
  BY DEF Searched
<1>2. /\ b \in Contexts /\ b.path = c.path /\ b.sum = c.sum
      /\ b.best = w.best /\ b.left = w.left /\ b.found = w.found
  BY <1>0, <1>1, BackFacts
<1>3. b.found = FALSE
  BY <1>2 DEF NoMatch
<1>4. PathOK(m - 1, c.path)
  BY <1>0, PathAppend
<1>5. CtxOK(goal, k, m - 1, b)
  BY <1>0, <1>1, <1>2, <1>3, <1>4 DEF CtxOK
<1> QED BY <1>2, <1>5

\* A node searches rightly when the searches it calls do.
LEMMA DfsNodeSearched ==
  ASSUME IsWallet, NEW goal \in Nat, NEW k \in Nat, NEW m \in 0..Len(values), NEW c,
         CtxOK(goal, k, m, c), NEW h,
         m > 0 => \A d \in Contexts : CtxOK(goal, k, m - 1, d) => Searched(goal, k, d, h[d])
  PROVE  Searched(goal, k, c, DfsNode(goal, k, m, h, c))
<1>0. /\ c \in Contexts /\ PathOK(m, c.path) /\ Len(c.path) <= k
      /\ c.sum = ValueOf(PathSet(c.path)) /\ BestOK(goal, k, c.best)
      /\ c.left \in Nat /\ c.found = FALSE
  BY DEF CtxOK
<1>1. /\ c.path \in Seq(Nat) /\ c.sum \in Nat /\ c.left \in Int /\ Len(c.path) \in Nat
      /\ c.best \in Selections /\ m \in Nat
  BY <1>0, ContextFacts
<1> DEFINE o == DfsNode(goal, k, m, h, c)
<1>2. CASE Len(c.path) = k
  <2>1. o = Judged(goal, c)
    BY <1>2 DEF DfsNode
  <2>2. /\ o \in Contexts /\ o.path = c.path /\ o.left = c.left
        /\ o.found <=> c.sum = goal
        /\ \/ o.best = c.best
           \/ c.sum > goal /\ o.best = [picks |-> c.path, excess |-> c.sum - goal]
    <3> DEFINE j == Judged(goal, c)
    <3>1. /\ j \in Contexts /\ j.path = c.path /\ j.left = c.left
          /\ c.found = FALSE => (j.found <=> c.sum = goal)
          /\ \/ j.best = c.best
             \/ c.sum > goal /\ j.best = [picks |-> c.path, excess |-> c.sum - goal]
      BY <1>0, JudgedFacts, Zenon
    <3> HIDE DEF j
    <3>2. o = j
      BY <2>1 DEF j
    <3> HIDE DEF o
    <3> QED BY <1>0, <3>1, <3>2
  <2> HIDE DEF o
  <2>3. ASSUME NEW e \in Nat, c.sum = goal + e
        PROVE  Chosen(goal, k, [picks |-> c.path, excess |-> e])
    <3>1. PathOK(0, c.path)
      BY <1>0, <1>1 DEF PathOK, IsPicks
    <3> QED BY <1>0, <1>1, <1>2, <2>3, <3>1 DEF Chosen, Selections
  <2>4. o.found => Chosen(goal, k, [picks |-> o.path, excess |-> 0])
    <3> SUFFICES ASSUME o.found PROVE Chosen(goal, k, [picks |-> c.path, excess |-> 0])
      BY <2>2
    <3>1. c.sum = goal + 0
      BY <2>2
    <3> QED BY <2>3, <3>1
  <2>5. BestOK(goal, k, o.best)
    <3>1. CASE o.best = c.best
      BY <1>0, <3>1
    <3>2. CASE c.sum > goal /\ o.best = [picks |-> c.path, excess |-> c.sum - goal]
      <4>1. c.sum - goal \in Nat /\ c.sum = goal + (c.sum - goal)
        <5>1. \A a, b \in Nat : a > b => a - b \in Nat /\ a = b + (a - b)
          OBVIOUS
        <5> QED BY <1>1, <3>2, <5>1, Zenon
      <4> QED BY <2>3, <3>2, <4>1 DEF BestOK
    <3> QED BY <2>2, <3>1, <3>2
  <2>6. c.best.picks # <<>> => o.best.picks # <<>>
    <3>1. CASE o.best = c.best
      BY <3>1
    <3>2. CASE o.best = [picks |-> c.path, excess |-> c.sum - goal] /\ c.best.picks # <<>>
      <4>1. Chosen(goal, k, c.best)
        BY <1>0, <3>2 DEF BestOK, Miss
      <4>2. Len(c.best.picks) = k /\ c.best.picks \in Seq(Nat)
        BY <4>1 DEF Chosen, Selections
      <4>3. c.path # <<>>
        BY <1>1, <1>2, <3>2, <4>2
      <4> QED BY <3>2, <4>3
    <3> QED BY <2>2, <3>1, <3>2
  <2>7. ~(c.left + Len(c.path) < k)
    BY <1>0, <1>1, <1>2
  <2> QED BY <1>0, <1>1, <2>2, <2>4, <2>5, <2>6, <2>7 DEF Searched, o
<1>3. CASE Len(c.path) # k /\ (c.sum >= goal \/ m = 0 \/ c.left <= 0)
  <2>1. o = c
    BY <1>3 DEF DfsNode
  <2> QED BY <1>0, <1>1, <2>1 DEF Searched
<1>4. CASE Len(c.path) # k /\ ~(c.sum >= goal \/ m = 0 \/ c.left <= 0)
  <2> DEFINE d == WithNote(c, m)
             w == h[d]
             b == Without(c, w)
  <2>0. m \in 1..Len(values) /\ c.left > 0
    BY <1>0, <1>1, <1>4, WalletFacts
  <2>1. d \in Contexts /\ d.left = c.left - 1 /\ d.best = c.best
    BY <1>0, <2>0, WithNoteFacts
  <2>2. CtxOK(goal, k, m - 1, d) /\ Len(d.path) = Len(c.path) + 1
    BY <1>4, <2>0, WithNoteOK
  <2>3. o = IF w.found THEN w ELSE h[b]
    BY <1>4 DEF DfsNode
  <2> HIDE DEF d, o
  <2>5. Searched(goal, k, d, w)
    BY <2>0, <2>1, <2>2
  <2> HIDE DEF w
  <2>6. /\ w \in Contexts /\ BestOK(goal, k, w.best) /\ w.left \in Nat /\ w.left <= c.left - 1
        /\ w.found => Chosen(goal, k, [picks |-> w.path, excess |-> 0])
        /\ c.best.picks # <<>> => w.best.picks # <<>>
        /\ c.left - 1 + (Len(c.path) + 1) < k => w.found = FALSE /\ w.best = c.best
    BY <2>1, <2>2, <2>5 DEF Searched
  <2>7. c.left + Len(c.path) < k => w.found = FALSE /\ w.best = c.best
    BY <1>0, <1>1, <2>6
  <2>8. w.left <= c.left
    BY <1>0, <2>6
  <2>9. CASE w.found
    BY <2>3, <2>6, <2>7, <2>8, <2>9 DEF Searched, o
  <2>10. CASE ~w.found
    <3>0. NoMatch(w)
      BY <2>6, <2>10, ContextFacts DEF NoMatch
    <3>1. /\ b \in Contexts /\ CtxOK(goal, k, m - 1, b)
          /\ b.path = c.path /\ b.best = w.best /\ b.left = w.left
      BY <2>0, <2>5, <3>0, WithoutNoteOK
    <3> HIDE DEF b
    <3>4. Searched(goal, k, b, h[b])
      BY <2>0, <3>1
    <3> DEFINE z == h[b]
    <3>5. o = z
      BY <2>3, <2>10
    <3> HIDE DEF z
    <3>6. /\ z \in Contexts /\ BestOK(goal, k, z.best) /\ z.left \in Nat /\ z.left <= w.left
          /\ z.found => Chosen(goal, k, [picks |-> z.path, excess |-> 0])
          /\ w.best.picks # <<>> => z.best.picks # <<>>
          /\ w.left + Len(c.path) < k => z.found = FALSE /\ z.best = w.best
      BY <3>1, <3>4 DEF Searched, z
    <3>7. c.left + Len(c.path) < k => z.found = FALSE /\ z.best = c.best
      BY <1>0, <1>1, <2>6, <2>7, <2>8, <3>6
    <3>8. z.left <= c.left
      BY <1>0, <2>6, <2>8, <3>6
    <3> QED BY <2>6, <3>5, <3>6, <3>7, <3>8 DEF Searched, o
  <2> QED BY <2>9, <2>10 DEF o
<1> QED BY <1>2, <1>3, <1>4
\* A node maps contexts to contexts.
LEMMA DfsNodeType ==
  ASSUME IsWallet, NEW goal \in Nat, NEW k \in Nat, NEW m \in 0..Len(values), NEW c \in Contexts,
         NEW h, m > 0 => h \in [Contexts -> Contexts]
  PROVE  DfsNode(goal, k, m, h, c) \in Contexts
<1>0. m \in Nat /\ Len(values) \in Nat
  BY WalletFacts
<1>1. CASE Len(c.path) = k
  <2>1. Judged(goal, c) \in Contexts
    BY JudgedFacts, Zenon
  <2> QED BY <1>1, <2>1 DEF DfsNode
<1>2. CASE Len(c.path) # k /\ (c.sum >= goal \/ m = 0 \/ c.left <= 0)
  BY <1>2 DEF DfsNode
<1>3. CASE Len(c.path) # k /\ ~(c.sum >= goal \/ m = 0 \/ c.left <= 0)
  <2> DEFINE d == WithNote(c, m)
             w == h[d]
             b == Without(c, w)
  <2>1. m \in 1..Len(values) /\ m > 0
    BY <1>0, <1>3
  <2>2. d \in Contexts
    BY <2>1, WithNoteFacts
  <2>3. w \in Contexts
    BY <2>1, <2>2
  <2>4. b \in Contexts
    BY <2>3, BackFacts
  <2>5. h[b] \in Contexts
    BY <2>1, <2>4
  <2>6. DfsNode(goal, k, m, h, c) = IF w.found THEN w ELSE h[b]
    BY <1>3 DEF DfsNode
  <2> QED BY <2>3, <2>5, <2>6
<1> QED BY <1>1, <1>2, <1>3

\* The context that the search begins with.
DfsStart == [path |-> <<>>, sum |-> 0, best |-> Miss, left |-> IterationLimit, found |-> FALSE]

\* s[m] is the search among the notes 1 to m.
IsSearch(goal, k, s) ==
  /\ s \in [0..Len(values) -> [Contexts -> Contexts]]
  /\ \A m \in 0..Len(values), c \in Contexts : s[m][c] = DfsNode(goal, k, m, s[m - 1], c)

\* The search is a recursion over the notes that are left to choose from.
LEMMA DfsUnfold ==
  ASSUME IsWallet, NEW goal \in Nat, NEW k \in Nat
  PROVE  \E s : /\ IsSearch(goal, k, s)
                /\ Dfs(Descending(Len(values)), goal, k) = s[Len(values)][DfsStart]
<1> DEFINE N == Len(values)
           cand == Descending(Len(values))
           S == [Contexts -> Contexts]
           a == [c \in Contexts |-> DfsNode(goal, k, 0, <<>>, c)]
           F == [m \in 1..N |-> [h \in S |-> [c \in Contexts |-> DfsNode(goal, k, m, h, c)]]]
           Mine(g) == [m \in 0..N |-> [c \in Contexts |-> DfsNode(goal, k, m, g[m - 1], c)]]
           Orig(g) == [m \in 0 .. Len(cand) |-> [ctx \in Contexts |->
              IF Len(ctx.path) = k THEN Judged(goal, ctx)
              ELSE IF ctx.sum >= goal \/ m = 0 \/ ctx.left <= 0 THEN ctx
              ELSE LET next == cand[Len(cand) - m + 1]
                       with == g[m - 1][[ctx EXCEPT !.path = Append(@, next),
                                                    !.sum = @ + values[next],
                                                    !.left = @ - 1]]
                   IN  IF with.found THEN with
                       ELSE g[m - 1][[with EXCEPT !.path = ctx.path, !.sum = ctx.sum]]]]
           f == CHOOSE g : g = Orig(g)
<1>0. N \in Nat
  BY WalletFacts
<1>1. Len(cand) = N /\ \A m \in 1..N : cand[Len(cand) - m + 1] = m
  <2>1. Len(cand) = N /\ \A j \in 1..N : cand[j] = N + 1 - j
    BY DescendingFacts
  <2> HIDE DEF cand, N
  <2>2. ASSUME NEW m \in 1..N PROVE cand[Len(cand) - m + 1] = m
    <3>1. Len(cand) - m + 1 \in 1..N /\ N + 1 - (Len(cand) - m + 1) = m
      BY <1>0, <2>1
    <3> QED BY <2>1, <3>1
  <2> QED BY <2>1, <2>2
<1>2. Dfs(cand, goal, k) = f[Len(cand)][DfsStart]
  BY DEF Dfs, DfsStart
<1>3. ASSUME NEW g PROVE Orig(g) = Mine(g)
  <2>1. ASSUME NEW m \in 0..N, NEW ctx \in Contexts
        PROVE  Mine(g)[m][ctx] = Orig(g)[m][ctx]
    <3>1. CASE m = 0
      BY <1>0, <1>1, <3>1 DEF DfsNode
    <3>2. CASE m # 0
      <4>1. cand[Len(cand) - m + 1] = m
        BY <1>0, <1>1, <3>2
      <4> HIDE DEF cand
      <4> QED BY <1>0, <1>1, <4>1 DEF DfsNode, WithNote, Without
    <3> QED BY <3>1, <3>2
  <2>2. Orig(g) = [m \in 0..N |-> [c \in Contexts |-> Orig(g)[m][c]]]
    BY <1>1
  <2>3. Mine(g) = [m \in 0..N |-> [c \in Contexts |-> Mine(g)[m][c]]]
    OBVIOUS
  <2> HIDE DEF Orig, Mine
  <2>4. \A m \in 0..N : [c \in Contexts |-> Orig(g)[m][c]] = [c \in Contexts |-> Mine(g)[m][c]]
    BY <2>1
  <2> QED BY <2>2, <2>3, <2>4
<1>4. ASSUME NEW h, NEW c PROVE DfsNode(goal, k, 0, h, c) = DfsNode(goal, k, 0, <<>>, c)
  BY DEF DfsNode
<1>5. a \in S
  <2>1. 0 \in 0..N /\ ~(0 > 0)
    BY <1>0
  <2>2. \A c \in Contexts : DfsNode(goal, k, 0, <<>>, c) \in Contexts
    BY <2>1, DfsNodeType
  <2> QED BY <2>2
<1>6. \A m \in 1..N, h \in S : F[m][h] = [c \in Contexts |-> DfsNode(goal, k, m, h, c)] /\ F[m][h] \in S
  <2> SUFFICES ASSUME NEW m \in 1..N, NEW h \in S PROVE [c \in Contexts |-> DfsNode(goal, k, m, h, c)] \in S
    OBVIOUS
  <2>1. m \in 0..N /\ m > 0
    BY <1>0
  <2>2. \A c \in Contexts : DfsNode(goal, k, m, h, c) \in Contexts
    BY <2>1, DfsNodeType
  <2> QED BY <2>2
<1> HIDE DEF Orig, S, F, a, N, cand
<1>7. PICK g : Iterates(S, N, F, a, g)
  <2>1. StaysIn(S, N, F)
    BY <1>6 DEF StaysIn
  <2> QED BY <1>0, <1>5, <2>1, RecursionExists
<1>8. g \in [0..N -> S] /\ g[0] = a /\ \A n \in 1..N : n - 1 \in 0..N /\ g[n] = F[n][g[n - 1]]
  BY <1>0, <1>7 DEF Iterates
<1>9. \A m \in 0..N : g[m] = [c \in Contexts |-> DfsNode(goal, k, m, g[m - 1], c)]
  <2> SUFFICES ASSUME NEW m \in 0..N PROVE g[m] = [c \in Contexts |-> DfsNode(goal, k, m, g[m - 1], c)]
    OBVIOUS
  <2>1. CASE m = 0
    BY <1>4, <1>8, <2>1 DEF a
  <2>2. CASE m \in 1..N
    <3>1. g[m - 1] \in S
      BY <1>8, <2>2
    <3> QED BY <1>6, <1>8, <2>2, <3>1
  <2> QED BY <1>0, <2>1, <2>2
<1>10. g = Mine(g)
  BY <1>8, <1>9
<1>11. g = Orig(g)
  BY <1>3, <1>10
<1>12. f = Orig(f)
  BY <1>11
<1> HIDE DEF f
<1>13. f = Mine(f)
  BY <1>3, <1>12
<1>15. \A m \in 0..N : f[m] = [c \in Contexts |-> DfsNode(goal, k, m, f[m - 1], c)]
  BY <1>13
<1>14. \A m \in 0..N, c \in Contexts : f[m][c] = DfsNode(goal, k, m, f[m - 1], c)
  BY <1>15
<1> DEFINE G == {m \in Nat : m <= N => f[m] \in S}
<1>16. 0 \in G
  <2>1. f[0] = a
    BY <1>0, <1>4, <1>15 DEF a
  <2> QED BY <1>5, <2>1
<1>17. ASSUME NEW m \in Nat, m \in G PROVE m + 1 \in G
  <2> SUFFICES ASSUME m + 1 <= N PROVE f[m + 1] \in S
    OBVIOUS
  <2>1. f[m] \in S /\ m + 1 \in 1..N /\ m + 1 \in 0..N /\ (m + 1) - 1 = m
    BY <1>0, <1>17
  <2>2. f[m + 1] = [c \in Contexts |-> DfsNode(goal, k, m + 1, f[m], c)]
    BY <1>15, <2>1
  <2>3. f[m + 1] = F[m + 1][f[m]]
    BY <1>6, <2>1, <2>2
  <2> QED BY <1>6, <2>1, <2>3
<1> HIDE DEF G
<1>18. \A m \in 0..N : f[m] \in S
  <2>1. Nat \subseteq G
    BY <1>16, <1>17, Induct
  <2> QED BY <1>0, <2>1 DEF G
<1>19. f \in [0..N -> S]
  BY <1>13, <1>18
<1>20. IsSearch(goal, k, f)
  BY <1>14, <1>19 DEF IsSearch, S, N
<1> QED BY <1>1, <1>2, <1>20 DEF N, cand

\* The search keeps to well-formed choices.
LEMMA DfsSearched ==
  ASSUME IsWallet, NEW goal \in Nat, NEW k \in Nat, NEW s, IsSearch(goal, k, s)
  PROVE  \A m \in 0..Len(values), c \in Contexts :
            CtxOK(goal, k, m, c) => Searched(goal, k, c, s[m][c])
<1> DEFINE N == Len(values)
           G == {m \in Nat : m <= N => \A c \in Contexts :
                               CtxOK(goal, k, m, c) => Searched(goal, k, c, s[m][c])}
<1>0. N \in Nat
  BY WalletFacts
<1>1. \A m \in 0..N, c \in Contexts : s[m][c] = DfsNode(goal, k, m, s[m - 1], c)
  BY DEF IsSearch
<1>2. 0 \in G
  <2> SUFFICES ASSUME NEW c \in Contexts, CtxOK(goal, k, 0, c) PROVE Searched(goal, k, c, s[0][c])
    OBVIOUS
  <2>1. 0 \in 0..N /\ ~(0 > 0)
    BY <1>0
  <2>2. Searched(goal, k, c, DfsNode(goal, k, 0, s[0 - 1], c))
    BY <2>1, DfsNodeSearched
  <2> QED BY <1>1, <2>1, <2>2
<1>3. ASSUME NEW m \in Nat, m \in G PROVE m + 1 \in G
  <2> SUFFICES ASSUME m + 1 <= N, NEW c \in Contexts, CtxOK(goal, k, m + 1, c)
               PROVE  Searched(goal, k, c, s[m + 1][c])
    OBVIOUS
  <2>1. m + 1 \in 0..N /\ (m + 1) - 1 = m /\ m <= N
    BY <1>0
  <2>2. \A d \in Contexts : CtxOK(goal, k, (m + 1) - 1, d) => Searched(goal, k, d, s[m][d])
    BY <1>3, <2>1
  <2>3. Searched(goal, k, c, DfsNode(goal, k, m + 1, s[m], c))
    BY <2>1, <2>2, DfsNodeSearched
  <2> QED BY <1>1, <2>1, <2>3
<1> HIDE DEF G
<1>4. Nat \subseteq G
  BY <1>2, <1>3, Induct
<1> QED BY <1>0, <1>4 DEF G
\* The search starts with the empty path.
LEMMA DfsStartOK ==
  ASSUME IsWallet, NEW goal \in Nat, NEW k \in Nat
  PROVE  DfsStart \in Contexts /\ CtxOK(goal, k, Len(values), DfsStart)
<1>1. IterationLimit \in Nat
  BY BoundsAreNatural
<1>2. Miss \in [picks : Seq(Nat), excess : Nat]
  BY DEF Miss
<1>3. DfsStart \in Contexts
  BY <1>1, <1>2 DEF DfsStart, Contexts
<1>4. PathOK(Len(values), <<>>) /\ PathSet(<<>>) = {}
  BY DEF PathOK, IsPicks, Falling, PathSet, FirstOf
<1>5. ValueOf({}) = 0
  BY ValueFacts
<1>6. Len(<<>>) <= k
  OBVIOUS
<1>7. /\ DfsStart.path = <<>> /\ DfsStart.sum = 0 /\ DfsStart.best = Miss
      /\ DfsStart.left = IterationLimit /\ DfsStart.found = FALSE
  BY DEF DfsStart
<1> QED BY <1>1, <1>3, <1>4, <1>5, <1>6, <1>7 DEF CtxOK, BestOK

\* A search that found something.
Success(o) == o.found \/ o.best.picks # <<>>

\* When the k largest notes cover the goal and no fewer do, the first path of
\* the search is a choice, and it is not lost.
LEMMA FirstPath ==
  ASSUME IsWallet, NEW goal \in Nat, NEW k \in 1..Len(values), NEW s, IsSearch(goal, k, s),
         Top(k) >= goal, \A j \in 0..(k - 1) : Top(j) < goal, IterationLimit >= k
  PROVE  Success(s[Len(values)][DfsStart])
<1> DEFINE N == Len(values)
           At(i, c) == /\ CtxOK(goal, k, N - (k - i), c) /\ Len(c.path) = k - i
                       /\ c.sum = Top(k - i) /\ c.left >= i
           G == {i \in Nat : i <= k => \A c \in Contexts :
                               At(i, c) => Success(s[N - (k - i)][c])}
<1>0. N \in Nat /\ k \in Nat /\ k >= 1 /\ k <= N
  BY WalletFacts
<1>1. \A m \in 0..N, c \in Contexts : s[m][c] = DfsNode(goal, k, m, s[m - 1], c)
  BY DEF IsSearch
<1>2. 0 \in G
  <2> SUFFICES ASSUME NEW c \in Contexts, At(0, c) PROVE Success(s[N - (k - 0)][c])
    OBVIOUS
  <2>0. N - (k - 0) \in 0..N /\ k - 0 = k
    BY <1>0
  <2>1. /\ Len(c.path) = k /\ c.sum = Top(k) /\ c.path \in Seq(Nat) /\ c.sum \in Nat
        /\ c.found = FALSE
    BY <2>0, ContextFacts DEF CtxOK
  <2> DEFINE j == Judged(goal, c)
  <2>2. s[N - (k - 0)][c] = j
    BY <1>1, <2>0, <2>1 DEF DfsNode
  <2>3. /\ c.found = FALSE => (j.found <=> c.sum = goal)
        /\ \/ j.best = c.best
           \/ c.sum > goal /\ j.best = [picks |-> c.path, excess |-> c.sum - goal]
        /\ c.sum > goal /\ j.best = c.best => c.best.picks # <<>> \/ c.path = <<>>
    BY JudgedFacts, Zenon
  <2> HIDE DEF j
  <2>4. c.path # <<>>
    BY <1>0, <2>1
  <2>5. CASE c.sum = goal
    BY <2>1, <2>2, <2>3, <2>5 DEF Success
  <2>6. CASE c.sum > goal
    <3>1. j.best.picks # <<>>
      BY <2>3, <2>4, <2>6
    <3> QED BY <2>2, <3>1 DEF Success
  <2> QED BY <2>1, <2>5, <2>6
<1>3. ASSUME NEW i \in Nat, i \in G PROVE i + 1 \in G
  <2> SUFFICES ASSUME i + 1 <= k, NEW c \in Contexts, At(i + 1, c)
               PROVE  Success(s[N - (k - (i + 1))][c])
    OBVIOUS
  <2> DEFINE j == k - (i + 1)
             m == N - j
             d == WithNote(c, m)
             w == s[m - 1][d]
             b == Without(c, w)
  <2>0. /\ j \in 0..(k - 1) /\ j + 1 \in 1..N /\ m \in 1..N /\ m \in 0..N /\ m - 1 \in 0..N
        /\ m = N + 1 - (j + 1) /\ (j + 1) - 1 = j /\ N - (k - i) = m - 1 /\ k - i = j + 1
    BY <1>0
  <2>1. /\ CtxOK(goal, k, m, c) /\ Len(c.path) = j /\ c.sum = Top(j) /\ c.left >= i + 1
        /\ c.left \in Nat
    BY DEF CtxOK
  <2>2. i <= k /\ \A e \in Contexts : At(i, e) => Success(s[N - (k - i)][e])
    BY <1>0, <1>3
  <2> HIDE DEF j, m
  <2>3. c.sum < goal /\ Len(c.path) # k /\ m # 0 /\ c.left > 0 /\ c.sum \in Nat
    BY <1>0, <2>0, <2>1, ContextFacts
  <2>4. s[m][c] = IF w.found THEN w ELSE s[m - 1][b]
    <3>1. ~(c.sum >= goal \/ m = 0 \/ c.left <= 0)
      BY <2>1, <2>3
    <3>2. s[m][c] = DfsNode(goal, k, m, s[m - 1], c)
      BY <1>1, <2>0
    <3> QED BY <2>3, <3>1, <3>2 DEF DfsNode
  <2>5. d \in Contexts /\ CtxOK(goal, k, m - 1, d) /\ Len(d.path) = j + 1
    BY <2>0, <2>1, <2>3, WithNoteOK
  <2>6. d.sum = c.sum + values[m] /\ d.left = c.left - 1
    BY <2>0, WithNoteFacts
  <2> HIDE DEF d
  <2>7. Top(j + 1) = Top(j) + values[m]
    BY <2>0, TopFacts
  <2>8. At(i, d)
    BY <2>0, <2>1, <2>5, <2>6, <2>7
  <2>9. Success(w)
    BY <2>0, <2>2, <2>5, <2>8
  <2>10. Searched(goal, k, d, w)
    BY <1>0, <2>0, <2>5, DfsSearched
  <2> HIDE DEF w
  <2>11. CASE w.found
    BY <2>4, <2>9, <2>11 DEF m, j
  <2>12. CASE ~w.found
    <3>0. NoMatch(w)
      BY <2>10, <2>12, ContextFacts DEF Searched, NoMatch
    <3>1. b \in Contexts /\ CtxOK(goal, k, m - 1, b) /\ b.best = w.best
      BY <2>0, <2>1, <2>10, <3>0, WithoutNoteOK
    <3> HIDE DEF b
    <3>2. w.best.picks # <<>>
      BY <2>9, <2>12 DEF Success
    <3>3. Searched(goal, k, b, s[m - 1][b])
      BY <1>0, <2>0, <3>1, DfsSearched
    <3>4. s[m - 1][b].best.picks # <<>>
      BY <3>1, <3>2, <3>3 DEF Searched
    <3>5. Success(s[m][c])
      BY <2>4, <2>12, <3>4 DEF Success
    <3> QED BY <3>5 DEF m, j
  <2> QED BY <2>11, <2>12
<1> HIDE DEF G
<1>4. Nat \subseteq G
  BY <1>2, <1>3, Induct
<1>5. k \in G /\ N - (k - k) = N /\ k - k = 0
  BY <1>0, <1>4
<1>6. DfsStart \in Contexts /\ CtxOK(goal, k, N, DfsStart)
  BY DfsStartOK
<1>7. Len(DfsStart.path) = 0 /\ DfsStart.sum = 0 /\ DfsStart.left = IterationLimit
  BY DEF DfsStart
<1>8. Top(0) = 0
  BY TopFacts
<1>9. At(k, DfsStart)
  BY <1>5, <1>6, <1>7, <1>8
<1> QED BY <1>0, <1>5, <1>6, <1>9 DEF G
-----------------------------------------------------------------------------
(* Three notes or more.                                                    *)

\* What a choice of k notes is worth.
LEMMA ChosenFacts ==
  ASSUME IsWallet, NEW goal \in Nat, NEW k, NEW r, Chosen(goal, k, r)
  PROVE  /\ r.picks \in Seq(Nat) /\ r.excess \in Nat /\ k \in 0..Len(values)
         /\ PathSet(r.picks) \in SUBSET (1..Len(values))
         /\ Cardinality(PathSet(r.picks)) = k
         /\ ValueOf(PathSet(r.picks)) = goal + r.excess
         /\ Top(k) >= goal
<1>0. r.picks \in Seq(Nat) /\ r.excess \in Nat /\ Len(r.picks) = k /\ PathOK(0, r.picks)
      /\ ValueOf(PathSet(r.picks)) = goal + r.excess
  BY DEF Chosen, Selections
<1>1. /\ PathSet(r.picks) \in SUBSET (1..Len(values))
      /\ Cardinality(PathSet(r.picks)) = k
  BY <1>0, PathFacts
<1>2. k \in 0..Len(values) /\ ValueOf(PathSet(r.picks)) <= Top(k)
  BY <1>1, TopIsMost
<1>3. Top(k) \in Nat
  BY <1>2, TopFacts
<1>4. goal + r.excess <= Top(k)
  BY <1>0, <1>2
<1>5. goal <= Top(k)
  BY <1>0, <1>3, <1>4
<1> QED BY <1>0, <1>1, <1>2, <1>3, <1>5

\* The search for k notes.
LEMMA DfsFacts ==
  ASSUME IsWallet, NEW goal \in Nat, NEW k \in 1..Len(values)
  PROVE  LET o == Dfs(Descending(Len(values)), goal, k)
         IN  /\ o.found => Chosen(goal, k, [picks |-> o.path, excess |-> 0])
             /\ o.best.picks # <<>> => Chosen(goal, k, o.best)
             /\ Success(o) => IterationLimit >= k /\ Top(k) >= goal
             /\ /\ IterationLimit >= k /\ Top(k) >= goal
                /\ \A j \in 0..(k - 1) : Top(j) < goal
                => Success(o)
<1> DEFINE o == Dfs(Descending(Len(values)), goal, k)
           N == Len(values)
<1>0. N \in Nat /\ k \in Nat /\ N \in 0..N /\ IterationLimit \in Nat
  BY WalletFacts, BoundsAreNatural
<1>1. PICK s : IsSearch(goal, k, s) /\ o = s[N][DfsStart]
  BY <1>0, DfsUnfold
<1>2. DfsStart \in Contexts /\ CtxOK(goal, k, N, DfsStart)
  BY <1>0, DfsStartOK
<1>3. Searched(goal, k, DfsStart, o)
  BY <1>0, <1>1, <1>2, DfsSearched
<1>4. Len(DfsStart.path) = 0 /\ DfsStart.best = Miss /\ DfsStart.left = IterationLimit /\ Miss.picks = <<>>
  BY DEF DfsStart, Miss
<1> HIDE DEF o
<1>5. o.found => Chosen(goal, k, [picks |-> o.path, excess |-> 0])
  BY <1>3 DEF Searched
<1>6. o.best.picks # <<>> => Chosen(goal, k, o.best)
  BY <1>3, <1>4 DEF Searched, BestOK
<1>7. IterationLimit < k => o.found = FALSE /\ o.best = Miss
  BY <1>0, <1>3, <1>4 DEF Searched
<1>8. Success(o) => IterationLimit >= k
  BY <1>0, <1>4, <1>7 DEF Success
<1>9. Success(o) => Top(k) >= goal
  BY <1>0, <1>5, <1>6, ChosenFacts DEF Success
<1>10. /\ IterationLimit >= k /\ Top(k) >= goal
       /\ \A j \in 0..(k - 1) : Top(j) < goal
       => Success(o)
  BY <1>1, FirstPath
<1> QED BY <1>5, <1>6, <1>8, <1>9, <1>10 DEF o

\* The greedy choice of the q largest notes.
LEMMA GreedyFacts ==
  ASSUME IsWallet, NEW goal \in Nat
  PROVE  /\ (\A n \in 1..Len(values) : Top(n) < goal) => Greedy(goal) = Miss
         /\ \A q \in 1..Len(values) :
              Top(q) >= goal /\ (\A n \in 0..(q - 1) : Top(n) < goal) => Chosen(goal, q, Greedy(goal))
<1> DEFINE N == Len(values)
           order == Descending(Len(values))
           enough == {n \in 1..N : Top(n) >= goal}
           path(q) == [j \in 1..q |-> order[j]]
<1>0. N \in Nat /\ \A n \in 0..N : Top(n) \in Nat
  BY WalletFacts, TopFacts
<1>1. /\ IsPicks(order) /\ Distinct(order) /\ Len(order) = N
      /\ \A j \in 1..N : order[j] = N + 1 - j
  BY DescendingFacts
<1>2. DOMAIN order = 1..N
  BY <1>1 DEF IsPicks
<1>3. Greedy(goal) = IF enough = {} THEN Miss
                     ELSE [picks |-> path(Min(enough)), excess |-> Top(Min(enough)) - goal]
  BY <1>2 DEF Greedy, Hit, Top
<1>4. (\A n \in 1..N : Top(n) < goal) => enough = {}
  BY <1>0
<1>5. ASSUME NEW q \in 1..N, Top(q) >= goal, \A n \in 0..(q - 1) : Top(n) < goal
      PROVE  Chosen(goal, q, Greedy(goal))
  <2>0. q \in Nat /\ q \in 0..N /\ Top(q) \in Nat
    BY <1>0
  <2>1. enough # {} /\ Min(enough) = q
    <3>1. q \in enough /\ enough \subseteq Nat
      BY <1>5
    <3>2. Min(enough) \in enough /\ Min(enough) <= q
      BY <3>1, MinFacts
    <3>3. \A n \in enough : ~(n < q)
      BY <1>0, <1>5
    <3> HIDE DEF enough
    <3>4. Min(enough) \in Nat /\ ~(Min(enough) < q)
      BY <3>1, <3>2, <3>3
    <3>5. Min(enough) = q
      BY <2>0, <3>2, <3>4
    <3> QED BY <3>1, <3>5
  <2> DEFINE p == path(q)
  <2>2. Greedy(goal) = [picks |-> p, excess |-> Top(q) - goal]
    BY <1>3, <2>1
  <2> HIDE DEF order
  <2>3. \A j \in 1..q : j \in 1..N /\ order[j] = N + 1 - j /\ order[j] \in 1..N
    BY <1>0, <1>1
  <2>4. p \in Seq(1..N) /\ Len(p) = q /\ \A j \in 1..q : p[j] = N + 1 - j /\ p[j] = order[j]
    BY <2>0, <2>3
  <2> HIDE DEF p
  <2>5. PathOK(0, p)
    BY <1>0, <2>0, <2>3, <2>4 DEF PathOK, IsPicks, Falling
  <2>6. PathSet(p) = FirstOf(order, q)
    BY <2>4 DEF PathSet, FirstOf
  <2>7. ValueOf(FirstOf(order, q)) = Top(q)
    BY <1>1, <2>0, RunningIsValue DEF Top, order
  <2>8. Top(q) - goal \in Nat /\ Top(q) = goal + (Top(q) - goal)
    BY <1>5, <2>0
  <2>9. p \in Seq(Nat)
    BY <2>4, <1>0
  <2> QED BY <2>2, <2>4, <2>5, <2>6, <2>7, <2>8, <2>9 DEF Chosen, Selections
<1> QED BY <1>3, <1>4, <1>5

\* No note and no pair covers the goal.
NoSmall(goal) ==
  /\ \A i \in 1..Len(values) : values[i] < goal
  /\ \A i, j \in 1..Len(values) : i < j => values[i] + values[j] < goal

\* Then the two largest notes do not cover it, and all notes are candidates.
LEMMA NoSmallTop ==
  ASSUME IsWallet, NEW goal \in Nat, goal > 0, NoSmall(goal)
  PROVE  /\ \A n \in 0..Len(values) : n < 3 => Top(n) < goal
         /\ BelowGoal(goal) = Len(values)
<1> DEFINE N == Len(values)
<1>0. N \in Nat /\ \A i \in 1..N : values[i] \in Nat
  BY WalletFacts
<1>1. Top(0) = 0 /\ \A n \in 1..N : Top(n) = Top(n - 1) + values[N + 1 - n]
  BY TopFacts
<1>2. N >= 1 => Top(1) < goal /\ Top(1) = values[N]
  <2> SUFFICES ASSUME N >= 1 PROVE Top(1) < goal /\ Top(1) = values[N]
    OBVIOUS
  <2>1. Top(1) = Top(0) + values[N] /\ N \in 1..N
    <3>1. 1 \in 1..N /\ 1 - 1 = 0 /\ N + 1 - 1 = N
      BY <1>0
    <3> QED BY <1>0, <1>1, <3>1
  <2> QED BY <1>0, <1>1, <2>1 DEF NoSmall
<1>3. N >= 2 => Top(2) < goal
  <2> SUFFICES ASSUME N >= 2 PROVE Top(2) < goal
    OBVIOUS
  <2>1. 2 \in 1..N /\ 2 - 1 = 1 /\ N + 1 - 2 = N - 1 /\ N - 1 \in 1..N /\ N \in 1..N /\ N - 1 < N
    BY <1>0
  <2>2. Top(2) = values[N] + values[N - 1]
    BY <1>0, <1>1, <1>2, <2>1
  <2>3. values[N - 1] + values[N] < goal
    BY <2>1 DEF NoSmall
  <2> QED BY <1>0, <2>1, <2>2, <2>3
<1>4. BelowGoal(goal) = N
  <2>1. {i \in DOMAIN values : values[i] < goal} = 1..N
    BY WalletFacts DEF NoSmall
  <2>2. Cardinality(1..N) = N
    <3>1. N \in Int /\ 1 \in Int
      BY <1>0
    <3>2. Cardinality(1..N) = IF 1 > N THEN 0 ELSE N - 1 + 1
      BY ONLY <3>1, FS_Interval
    <3> QED BY <1>0, <3>2
  <2> QED BY <2>1, <2>2 DEF BelowGoal
<1>5. ASSUME NEW n \in 0..N, n < 3 PROVE Top(n) < goal
  <2>1. n = 0 \/ (n = 1 /\ N >= 1) \/ (n = 2 /\ N >= 2)
    BY <1>0, <1>5
  <2> QED BY <1>1, <1>2, <1>3, <2>1
<1> QED BY <1>4, <1>5

\* When one and two notes do not do, the result is a choice of the fewest
\* notes that do, or nothing if all of them do not.
LEMMA KScanFacts ==
  ASSUME IsWallet, NEW goal \in Nat, goal > 0, NoSmall(goal)
  PROVE  /\ Top(Len(values)) < goal => KScan(goal) = Miss
         /\ Top(Len(values)) >= goal =>
              \E q \in 3..Len(values) : /\ Chosen(goal, q, KScan(goal)) /\ Top(q) >= goal
                                        /\ \A j \in 0..(q - 1) : Top(j) < goal
<1> DEFINE N == Len(values)
           cand == Descending(N)
           ctx(k) == Dfs(cand, goal, k)
           lim == Min({Len(cand), TransactionLimit})
           sizes == {k \in 3..lim : Success(ctx(k))}
           r == KScan(goal)
<1>0. N \in Nat /\ TransactionLimit \in Nat /\ \A n \in 0..N : Top(n) \in Nat
  BY WalletFacts, BoundsAreNatural, TopFacts
<1>1. \A n \in 0..N : n < 3 => Top(n) < goal
  BY NoSmallTop
<1>2. Len(cand) = N
  BY DescendingFacts
<1>3. r = IF sizes = {} THEN Greedy(goal)
          ELSE IF ctx(Min(sizes)).found THEN [picks |-> ctx(Min(sizes)).path, excess |-> 0]
          ELSE ctx(Min(sizes)).best
  BY NoSmallTop DEF KScan, KScanOf, HitSizes, Hit, Success, Found
<1>4. lim \in Nat /\ lim <= N
  <2>1. {Len(cand), TransactionLimit} \subseteq Nat /\ {Len(cand), TransactionLimit} # {}
    BY <1>0, <1>2
  <2>2. lim \in {Len(cand), TransactionLimit} /\ lim <= Len(cand)
    BY <2>1, MinFacts
  <2> QED BY <1>0, <1>2, <2>2
<1> HIDE DEF r, lim, cand
<1>5. ASSUME NEW k \in 1..N
      PROVE  /\ ctx(k).found => Chosen(goal, k, [picks |-> ctx(k).path, excess |-> 0])
             /\ ctx(k).best.picks # <<>> => Chosen(goal, k, ctx(k).best)
             /\ Success(ctx(k)) => IterationLimit >= k /\ Top(k) >= goal
             /\ /\ IterationLimit >= k /\ Top(k) >= goal
                /\ \A j \in 0..(k - 1) : Top(j) < goal
                => Success(ctx(k))
  BY DfsFacts, Zenon DEF cand
<1>6. ASSUME NEW k \in sizes PROVE k \in 3..lim /\ k \in 1..N /\ Top(k) >= goal /\ IterationLimit >= k
  <2>1. k \in 3..lim /\ k \in 1..N /\ Success(ctx(k))
    BY <1>0, <1>4
  <2> HIDE DEF sizes, ctx
  <2> QED BY <1>5, <2>1
<1>7. ASSUME Top(N) < goal PROVE r = Miss
  <2>1. \A n \in 1..N : Top(n) < goal
    <3> SUFFICES ASSUME NEW n \in 1..N PROVE Top(n) < goal
      OBVIOUS
    <3>1. n \in 0..N /\ N \in 0..N /\ n <= N
      BY <1>0
    <3>2. Top(n) <= Top(N)
      BY <3>1, TopGrows
    <3> QED BY <1>0, <1>7, <3>1, <3>2
  <2>2. \A n \in sizes : FALSE
    <3> SUFFICES ASSUME NEW n \in sizes PROVE FALSE
      OBVIOUS
    <3>1. n \in 1..N /\ Top(n) >= goal
      BY <1>6
    <3>2. Top(n) \in Nat
      BY <1>0, <3>1
    <3> QED BY <2>1, <3>1, <3>2
  <2> HIDE DEF sizes
  <2>3. r = Greedy(goal)
    BY <1>3, <2>2
  <2> QED BY <2>1, <2>3, GreedyFacts
<1>8. ASSUME Top(N) >= goal
      PROVE  \E q \in 3..N : Chosen(goal, q, r) /\ Top(q) >= goal /\ \A j \in 0..(q - 1) : Top(j) < goal
  <2> DEFINE T == {n \in 0..N : Top(n) >= goal}
  <2>1. T \subseteq Nat /\ N \in T
    BY <1>0, <1>8
  <2>2. PICK q \in T : \A y \in T : q <= y
    BY <2>1, LeastNumber
  <2>3. q \in 0..N /\ Top(q) >= goal /\ q \in 3..N /\ q \in 1..N
    <3>1. q \in 0..N /\ Top(q) >= goal /\ Top(q) \in Nat
      BY <1>0
    <3>2. ~(q < 3)
      BY <1>1, <3>1
    <3> QED BY <1>0, <3>1, <3>2
  <2>4. ASSUME NEW j \in 0..(q - 1) PROVE Top(j) < goal
    <3>1. j \in 0..N /\ ~(q <= j) /\ Top(j) \in Nat
      BY <1>0, <2>3
    <3>2. j \notin T
      BY <2>2, <3>1
    <3> QED BY <3>1, <3>2
  <2>5. Chosen(goal, q, r)
    <3>1. CASE sizes = {}
      <4>1. r = Greedy(goal)
        BY <1>3, <3>1
      <4> QED BY <2>3, <2>4, <4>1, GreedyFacts
    <3>2. CASE sizes # {}
      <4>1. PICK x \in sizes : TRUE
        BY <3>2
      <4>2. \A y \in sizes : y \in 3..lim /\ y \in 0..N /\ Top(y) >= goal /\ IterationLimit >= y
        BY <1>0, <1>6
      <4>3. \A y \in sizes : q <= y
        BY <2>2, <4>2
      <4>4. q \in 3..lim /\ IterationLimit >= q
        <5>1. IterationLimit \in Nat
          BY BoundsAreNatural
        <5> HIDE DEF sizes
        <5> QED BY <1>4, <2>3, <4>1, <4>2, <4>3, <5>1
      <4>5. Success(ctx(q))
        BY <1>5, <2>3, <2>4, <4>4
      <4>6. q \in sizes /\ sizes \subseteq Nat
        BY <4>4, <4>5
      <4> HIDE DEF sizes, T
      <4>7. Min(sizes) = q
        <5>1. Min(sizes) \in sizes /\ Min(sizes) <= q
          BY <4>6, MinFacts
        <5>2. Min(sizes) \in Nat /\ q \in Nat /\ q <= Min(sizes)
          BY <4>3, <4>6, <5>1
        <5> QED BY <5>1, <5>2
      <4>8. r = IF ctx(q).found THEN [picks |-> ctx(q).path, excess |-> 0] ELSE ctx(q).best
        BY <1>3, <3>2, <4>7
      <4>9. /\ ctx(q).found => Chosen(goal, q, [picks |-> ctx(q).path, excess |-> 0])
            /\ ctx(q).best.picks # <<>> => Chosen(goal, q, ctx(q).best)
        BY <1>5, <2>3
      <4> HIDE DEF ctx
      <4> QED BY <4>5, <4>8, <4>9 DEF Success
    <3> QED BY <3>1, <3>2
  <2> QED BY <2>3, <2>4, <2>5
<1> QED BY <1>7, <1>8 DEF r
-----------------------------------------------------------------------------
(* The tiers of the selection.                                             *)

\* The notes that cover the goal alone, and the smallest of them.
Large(goal) == {i \in 1..Len(values) : values[i] >= goal}
Smallest(goal) == Single(goal, Min(Large(goal)))

\* The scan for one note finds the smallest that covers the goal.
LEMMA SmallestFacts ==
  ASSUME IsWallet, NEW goal \in Nat, Large(goal) # {}
  PROVE  /\ Min(Large(goal)) \in 1..Len(values) /\ values[Min(Large(goal))] >= goal
         /\ values[Min(Large(goal))] \in Nat
         /\ \A i \in Large(goal) : Min(Large(goal)) <= i
         /\ OneScan(goal) = Smallest(goal)
         /\ Smallest(goal).picks = <<Min(Large(goal))>>
         /\ Smallest(goal).excess = values[Min(Large(goal))] - goal
<1>1. /\ OneScan(goal) = Smallest(goal)
      /\ Min(Large(goal)) \in Large(goal) /\ \A i \in Large(goal) : Min(Large(goal)) <= i
  BY OneScanFacts, Zenon DEF Large, Smallest
<1>2. Min(Large(goal)) \in 1..Len(values) /\ values[Min(Large(goal))] >= goal
  BY <1>1 DEF Large
<1> QED BY <1>1, <1>2, WalletFacts DEF Smallest, Single

\* Which tier the result comes from: an exact pair, an exact note, the pair
\* with the least excess, the smallest note above the goal, three or more
\* notes, or none.
PairExact(goal) ==
  /\ IsPair(goal, TwoScan(goal)) /\ TwoScan(goal).excess = 0
  /\ FindCombination(goal) = TwoScan(goal)
NoteExact(goal) ==
  /\ ~(IsPair(goal, TwoScan(goal)) /\ TwoScan(goal).excess = 0)
  /\ Large(goal) # {} /\ Smallest(goal).excess = 0
  /\ FindCombination(goal) = Smallest(goal)
PairOver(goal) ==
  /\ IsPair(goal, TwoScan(goal)) /\ TwoScan(goal).excess # 0
  /\ ~(Large(goal) # {} /\ Smallest(goal).excess = 0)
  /\ FindCombination(goal) = TwoScan(goal)
NoteOver(goal) ==
  /\ TwoScan(goal) = Miss
  /\ Large(goal) # {} /\ Smallest(goal).excess # 0
  /\ FindCombination(goal) = Smallest(goal)
ManyNotes(goal) ==
  /\ TwoScan(goal) = Miss /\ Large(goal) = {}
  /\ \E q \in 3..Len(values) : /\ Chosen(goal, q, FindCombination(goal)) /\ Top(q) >= goal
                                /\ \A j \in 0..(q - 1) : Top(j) < goal
NotCovered(goal) ==
  /\ TwoScan(goal) = Miss /\ Large(goal) = {} /\ Top(Len(values)) < goal
  /\ FindCombination(goal) = Miss

\* find_combination ends in one of its tiers, or nothing covers the goal.
LEMMA Tiers ==
  ASSUME IsWallet, NEW goal \in Nat, goal > 0
  PROVE  \/ PairExact(goal) \/ NoteExact(goal) \/ PairOver(goal)
         \/ NoteOver(goal) \/ ManyNotes(goal) \/ NotCovered(goal)
<1> DEFINE N == Len(values)
           two == TwoScan(goal)
           one == OneScan(goal)
           r == FindCombination(goal)
<1>0. N \in Nat /\ (values = <<>> <=> N = 0)
  BY DEF IsWallet
<1>1. /\ two = Miss \/ IsPair(goal, two)
      /\ \A i, j \in 1..N : i < j => NoBetter(goal, two, i, j)
  BY TwoScanBest
<1>2. IsPair(goal, two) => two.picks # <<>> /\ two # Miss
  BY PairFacts
<1>3. Miss.picks = <<>>
  BY DEF Miss
<1>4. Large(goal) = {} => one = Miss
  BY OneScanFacts, Zenon DEF Large
<1>5. Large(goal) # {} => one = Smallest(goal) /\ one.picks # <<>>
  <2> SUFFICES ASSUME Large(goal) # {} PROVE one = Smallest(goal) /\ one.picks # <<>>
    OBVIOUS
  <2>1. one = Smallest(goal) /\ Smallest(goal).picks = <<Min(Large(goal))>>
    BY SmallestFacts
  <2> HIDE DEF one
  <2> QED BY <2>1
<1>6. values # <<>> =>
        r = IF two.picks # <<>> /\ two.excess = 0 THEN two
            ELSE IF one.picks # <<>> /\ one.excess = 0 THEN one
            ELSE IF two.picks # <<>> THEN two
            ELSE IF one.picks # <<>> THEN one
            ELSE KScan(goal)
  BY DEF FindCombination, Found
<1>7. CASE values = <<>>
  <2>1. N = 0 /\ r = Miss
    BY <1>0, <1>7 DEF FindCombination
  <2>2. two = Miss
    BY <2>1 DEF TwoScan
  <2>3. Large(goal) = {}
    BY <2>1 DEF Large
  <2>4. Top(N) < goal
    BY <2>1, TopFacts
  <2> QED BY <2>1, <2>2, <2>3, <2>4 DEF NotCovered
<1>8. CASE values # <<>>
  <2> HIDE DEF two, one, r
  <2>1. CASE IsPair(goal, two) /\ two.excess = 0
    BY <1>2, <1>6, <1>8, <2>1 DEF PairExact, two, r
  <2>2. CASE ~(IsPair(goal, two) /\ two.excess = 0) /\ Large(goal) # {} /\ one.excess = 0
    <3>1. ~(two.picks # <<>> /\ two.excess = 0)
      BY <1>1, <1>3, <2>2
    <3>2. r = one
      BY <1>5, <1>6, <1>8, <2>2, <3>1
    <3> QED BY <1>5, <2>2, <3>2 DEF NoteExact, two, r, one
  <2>3. CASE IsPair(goal, two) /\ two.excess # 0 /\ ~(Large(goal) # {} /\ one.excess = 0)
    <3>1. ~(one.picks # <<>> /\ one.excess = 0)
      BY <1>3, <1>4, <2>3
    <3>2. r = two
      BY <1>2, <1>6, <1>8, <2>3, <3>1
    <3> QED BY <1>5, <2>3, <3>2 DEF PairOver, two, r, one
  <2>4. CASE two = Miss /\ Large(goal) # {} /\ one.excess # 0
    <3>1. r = one
      BY <1>3, <1>5, <1>6, <1>8, <2>4
    <3> QED BY <1>5, <2>4, <3>1 DEF NoteOver, two, r, one
  <2>5. CASE two = Miss /\ Large(goal) = {}
    <3>1. r = KScan(goal)
      BY <1>3, <1>4, <1>6, <1>8, <2>5
    <3>2. NoSmall(goal)
      <4>1. ASSUME NEW i \in 1..N PROVE values[i] < goal
        <5>1. ~(values[i] >= goal) /\ values[i] \in Nat
          BY <2>5, WalletFacts DEF Large
        <5> QED BY <5>1
      <4>2. ASSUME NEW i \in 1..N, NEW j \in 1..N, i < j PROVE values[i] + values[j] < goal
        <5>1. NoBetter(goal, Miss, i, j)
          BY <1>1, <2>5, <4>2
        <5> QED BY <1>3, <5>1 DEF NoBetter
      <4> QED BY <4>1, <4>2 DEF NoSmall
    <3>3. CASE Top(N) < goal
      <4>1. r = Miss
        BY <3>1, <3>2, <3>3, KScanFacts
      <4> QED BY <2>5, <3>3, <4>1 DEF NotCovered, two, r
    <3>4. CASE Top(N) >= goal
      <4>1. \E q \in 3..Len(values) : /\ Chosen(goal, q, r) /\ Top(q) >= goal
                                      /\ \A j \in 0..(q - 1) : Top(j) < goal
        BY <3>1, <3>2, <3>4, KScanFacts
      <4> QED BY <2>5, <4>1 DEF ManyNotes, two, r
    <3>5. Top(N) \in Nat
      BY <1>0, TopFacts
    <3> QED BY <3>3, <3>4, <3>5
  <2> QED BY <1>1, <2>1, <2>2, <2>3, <2>4, <2>5
<1> QED BY <1>7, <1>8

-----------------------------------------------------------------------------
(* The pairs of notes.                                                     *)

\* The pairs of the wallet, and what they are worth.
LEMMA PairsFacts ==
  ASSUME IsWallet
  PROVE  /\ \A S \in Pairs : \E i, j \in 1..Len(values) :
                               i < j /\ S = {i, j} /\ ValueOf(S) = values[i] + values[j]
         /\ \A i, j \in 1..Len(values) :
              i < j => {i, j} \in Pairs /\ ValueOf({i, j}) = values[i] + values[j]
<1> DEFINE N == Len(values)
<1>0. N \in Nat /\ Pairs = {S \in SUBSET (1..N) : Cardinality(S) = 2}
  BY WalletFacts DEF Pairs, kSubset
<1>1. \A i, j \in 1..N : i # j => ValueOf({i, j}) = values[i] + values[j]
  BY PairValue
<1>2. ASSUME NEW S \in Pairs
      PROVE  \E i, j \in 1..N : i < j /\ S = {i, j} /\ ValueOf(S) = values[i] + values[j]
  <2>1. S \in SUBSET (1..N) /\ Cardinality(S) = 2 /\ IsFiniteSet(S)
    BY <1>0, ValueFacts
  <2>2. PICK x \in S : TRUE
    <3>1. S # {}
      BY <2>1, FS_EmptySet
    <3> QED BY <3>1
  <2>3. IsFiniteSet(S \ {x}) /\ Cardinality(S \ {x}) = 1
    <3>1. IsFiniteSet(S \ {x})
          /\ Cardinality(S \ {x}) = IF x \in S THEN Cardinality(S) - 1 ELSE Cardinality(S)
      BY <2>1, FS_RemoveElement, Zenon
    <3>2. 2 - 1 = 1
      OBVIOUS
    <3> QED BY <2>1, <2>2, <3>1, <3>2, Zenon
  <2>4. PICK y : S \ {x} = {y}
    BY <2>3, FS_Singleton
  <2>5. x \in 1..N /\ y \in 1..N /\ x # y /\ S = {x, y} /\ S = {y, x}
    BY <2>1, <2>2, <2>4
  <2>6. CASE x < y
    BY <1>1, <2>5, <2>6
  <2>7. CASE y < x
    BY <1>1, <2>5, <2>7
  <2>8. x < y \/ y < x
    BY <1>0, <2>5
  <2> QED BY <2>6, <2>7, <2>8
<1>3. ASSUME NEW i \in 1..N, NEW j \in 1..N, i < j
      PROVE  {i, j} \in Pairs /\ ValueOf({i, j}) = values[i] + values[j]
  <2>1. i # j
    BY <1>3
  <2>2. IsFiniteSet({i}) /\ Cardinality({i}) = 1
    BY FS_Singleton
  <2>3. Cardinality({i} \cup {j}) = 2 /\ {i} \cup {j} = {i, j}
    BY <2>1, <2>2, FS_AddElement
  <2> QED BY <1>0, <1>1, <2>1, <2>3
<1> QED BY <1>2, <1>3

\* find_combination's first four tiers are the best of their kind.
LEMMA TiersOptimal ==
  ASSUME IsWallet, amount \in Nat, amount > 0
  PROVE  SmallTiersOptimal
<1> DEFINE N == Len(values)
           r == FindCombination(amount)
           two == TwoScan(amount)
           exact == {S \in Pairs : ValueOf(S) = amount}
           over == {S \in Pairs : ValueOf(S) > amount}
           single == {i \in DOMAIN values : values[i] >= amount}
<1>0. N \in Nat /\ \A i \in 1..N : values[i] \in Nat
  BY WalletFacts
<1>1. /\ two = Miss \/ IsPair(amount, two)
      /\ \A i, j \in 1..N : i < j => NoBetter(amount, two, i, j)
  BY TwoScanBest
<1>2. single = Large(amount)
  BY WalletFacts DEF Large
<1>3. Miss.picks = <<>>
  BY DEF Miss
<1>4. \/ PairExact(amount) \/ NoteExact(amount) \/ PairOver(amount)
      \/ NoteOver(amount) \/ ManyNotes(amount) \/ NotCovered(amount)
  BY Tiers
<1>5. ASSUME NEW S \in exact \cup over
      PROVE  IsPair(amount, two) /\ two.excess \in Nat /\ two.excess <= ValueOf(S) - amount
             /\ ValueOf(S) - amount \in Nat
  <2>1. PICK i, j \in 1..N : i < j /\ S = {i, j} /\ ValueOf(S) = values[i] + values[j]
    BY PairsFacts
  <2>2. ValueOf(S) >= amount /\ ValueOf(S) \in Nat
    BY <1>0, <2>1
  <2>3. NoBetter(amount, two, i, j)
    BY <1>1, <2>1
  <2> HIDE DEF two, exact, over
  <2>4. two.picks # <<>> /\ two.excess <= ValueOf(S) - amount
    BY <1>0, <2>1, <2>2, <2>3 DEF NoBetter
  <2>5. IsPair(amount, two)
    BY <1>1, <1>3, <2>4
  <2>6. two.excess \in Nat
    BY <2>5, PairFacts DEF Selections
  <2> QED BY <2>2, <2>4, <2>5, <2>6
<1>6. ASSUME IsPair(amount, two)
      PROVE  /\ Len(two.picks) = 2 /\ two.excess \in Nat /\ ToSet(two.picks) \in Pairs
             /\ ValueOf(ToSet(two.picks)) = amount + two.excess
  <2> HIDE DEF two
  <2>1. PICK i, j \in 1..N : /\ i < j
                             /\ two = [picks |-> <<i, j>>, excess |-> values[i] + values[j] - amount]
                             /\ values[i] + values[j] >= amount
    BY <1>6 DEF IsPair
  <2>2. Len(two.picks) = 2 /\ two.excess = values[i] + values[j] - amount /\ two.picks = <<i, j>>
    BY <2>1
  <2>3. ToSet(two.picks) = {i, j}
    <3>1. DOMAIN <<i, j>> = {1, 2} /\ <<i, j>>[1] = i /\ <<i, j>>[2] = j
      OBVIOUS
    <3> QED BY <2>2, <3>1 DEF ToSet
  <2>4. {i, j} \in Pairs /\ ValueOf({i, j}) = values[i] + values[j]
    BY <2>1, PairsFacts
  <2>5. values[i] \in Nat /\ values[j] \in Nat
    BY <1>0
  <2>6. values[i] + values[j] - amount \in Nat /\ values[i] + values[j] = amount + (values[i] + values[j] - amount)
    BY <2>1, <2>5
  <2> QED BY <2>2, <2>3, <2>4, <2>6
<1>7. ASSUME exact # {} PROVE ToSet(r.picks) \in exact
  <2>1. PICK S \in exact : TRUE
    BY <1>7
  <2>2. ValueOf(S) = amount /\ IsPair(amount, two) /\ two.excess \in Nat /\ two.excess <= amount - amount
    BY <1>5, <2>1
  <2>3. two.excess = 0
    BY <2>2
  <2>4. r = two
    BY <1>4, <2>2, <2>3, PairFacts DEF PairExact, NoteExact, PairOver, NoteOver, ManyNotes, NotCovered
  <2> HIDE DEF two, r
  <2> QED BY <1>6, <2>2, <2>3, <2>4
<1>8. ASSUME exact = {} PROVE ~(IsPair(amount, two) /\ two.excess = 0)
  <2> HIDE DEF two
  <2> QED BY <1>6, <1>8
<1>9. ASSUME exact = {}, NEW i \in single, values[i] = amount
      PROVE  Len(r.picks) = 1 /\ r.excess = 0
  <2> DEFINE m == Min(Large(amount))
  <2>1. Large(amount) # {} /\ i \in Large(amount) /\ i \in 1..N
    BY <1>2, <1>9 DEF Large
  <2>2. /\ m \in 1..N /\ m <= i /\ values[m] >= amount /\ values[m] \in Nat
        /\ Smallest(amount).picks = <<m>> /\ Smallest(amount).excess = values[m] - amount
    BY <2>1, SmallestFacts
  <2> HIDE DEF m
  <2>3. values[m] <= values[i]
    BY <2>1, <2>2, WalletFacts
  <2>4. Smallest(amount).excess = 0
    BY <1>9, <2>2, <2>3
  <2>5. NoteExact(amount)
    BY <1>4, <1>8, <1>9, <2>1, <2>4 DEF PairExact, PairOver, NoteOver, ManyNotes, NotCovered
  <2>6. r = Smallest(amount)
    BY <2>5 DEF NoteExact
  <2> HIDE DEF r
  <2> QED BY <2>2, <2>4, <2>6
<1>10. ASSUME exact = {}, \A i \in single : values[i] # amount, over # {}
       PROVE  Len(r.picks) = 2 /\ r.excess = Min({ValueOf(S) - amount : S \in over})
  <2> DEFINE E == {ValueOf(S) - amount : S \in over}
  <2>1. PICK S \in over : TRUE
    BY <1>10
  <2>2. IsPair(amount, two)
    BY <1>5, <2>1
  <2>3. ~(Large(amount) # {} /\ Smallest(amount).excess = 0)
    <3> SUFFICES ASSUME Large(amount) # {}, Smallest(amount).excess = 0 PROVE FALSE
      OBVIOUS
    <3>1. /\ Min(Large(amount)) \in 1..N /\ values[Min(Large(amount))] >= amount
          /\ values[Min(Large(amount))] \in Nat
          /\ Smallest(amount).excess = values[Min(Large(amount))] - amount
      BY SmallestFacts
    <3>2. values[Min(Large(amount))] = amount /\ Min(Large(amount)) \in Large(amount)
      BY <3>1 DEF Large
    <3> QED BY <1>2, <1>10, <3>2
  <2>4. two # Miss
    BY <2>2, PairFacts
  <2>5. r = two
    BY <1>4, <1>8, <1>10, <2>3, <2>4 DEF PairExact, NoteExact, PairOver, NoteOver, ManyNotes, NotCovered
  <2>6. Len(r.picks) = 2
    BY <1>6, <2>2, <2>5
  <2>7. \A e \in E : two.excess <= e /\ e \in Nat
    BY <1>5
  <2>8. two.excess \in E
    <3> HIDE DEF two, r
    <3>1. /\ ToSet(two.picks) \in Pairs /\ ValueOf(ToSet(two.picks)) = amount + two.excess
          /\ two.excess \in Nat
      BY <1>6, <2>2
    <3>2. two.excess # 0
      BY <1>8, <1>10, <2>2
    <3>3. amount + two.excess > amount /\ (amount + two.excess) - amount = two.excess
      BY <3>1, <3>2
    <3>4. ToSet(two.picks) \in over
      BY <3>1, <3>3
    <3> HIDE DEF over
    <3> QED BY <3>1, <3>3, <3>4
  <2>9. two.excess \in Nat
    BY <1>6, <2>2
  <2> HIDE DEF E, two, r
  <2>10. Min(E) \in E /\ Min(E) <= two.excess
    BY <2>7, <2>8, MinFacts
  <2>11. Min(E) \in Nat /\ two.excess <= Min(E)
    BY <2>7, <2>10
  <2>12. Min(E) = two.excess
    BY <2>9, <2>10, <2>11
  <2> QED BY <2>5, <2>6, <2>12 DEF E
<1>11. ASSUME exact = {}, over = {}, single # {}
       PROVE  r.picks = <<Min(single)>>
  <2>1. ~IsPair(amount, two)
    <3> SUFFICES ASSUME IsPair(amount, two) PROVE FALSE
      OBVIOUS
    <3> HIDE DEF two
    <3>1. /\ ToSet(two.picks) \in Pairs /\ ValueOf(ToSet(two.picks)) = amount + two.excess
          /\ two.excess \in Nat
      BY <1>6
    <3>2. amount + two.excess = amount \/ amount + two.excess > amount
      BY <3>1
    <3>3. ToSet(two.picks) \in exact \cup over
      BY <3>1, <3>2
    <3> HIDE DEF exact, over
    <3> QED BY <1>11, <3>3
  <2>2. r = Smallest(amount) /\ Large(amount) # {}
    BY <1>2, <1>4, <1>11, <2>1 DEF PairExact, NoteExact, PairOver, NoteOver, ManyNotes, NotCovered
  <2>3. Smallest(amount).picks = <<Min(Large(amount))>>
    BY <2>2, SmallestFacts
  <2> HIDE DEF r, single
  <2> QED BY <1>2, <2>2, <2>3
<1> QED BY <1>7, <1>9, <1>10, <1>11 DEF SmallTiersOptimal
-----------------------------------------------------------------------------
(* What a result is good for.                                              *)

\* A choice of different notes worth the goal and the excess.  With three or
\* more of them they come largest first, and fewer do not cover the goal.
Usable(goal, r) ==
  /\ IsPicks(r.picks) /\ Len(r.picks) >= 1 /\ Distinct(r.picks) /\ r.excess \in Nat
  /\ PathSet(r.picks) \in SUBSET (1..Len(values))
  /\ Cardinality(PathSet(r.picks)) = Len(r.picks)
  /\ ValueOf(PathSet(r.picks)) = goal + r.excess
  /\ Len(r.picks) >= 3 =>
       /\ Falling(r.picks)
       /\ \A S \in SUBSET (1..Len(values)) : Cardinality(S) < Len(r.picks) => ValueOf(S) < goal

\* A pair, the smallest note and a choice of three or more can be planned with.
LEMMA UsablePair ==
  ASSUME IsWallet, NEW goal \in Nat, NEW r, IsPair(goal, r)
  PROVE  Usable(goal, r) /\ Len(r.picks) = 2
<1>1. PICK i, j \in 1..Len(values) :
        /\ i < j /\ r = [picks |-> <<i, j>>, excess |-> values[i] + values[j] - goal]
        /\ values[i] + values[j] >= goal
  BY DEF IsPair
<1>2. values[i] \in Nat /\ values[j] \in Nat
  BY WalletFacts
<1>3. r.picks = <<i, j>> /\ r.excess = values[i] + values[j] - goal /\ r.excess \in Nat
  BY <1>1, <1>2
<1>4. /\ <<i, j>> \in Seq(1..Len(values)) /\ Len(<<i, j>>) = 2 /\ <<i, j>>[1] = i /\ <<i, j>>[2] = j
  OBVIOUS
<1>5. Distinct(<<i, j>>)
  BY <1>1, <1>4 DEF Distinct
<1>6. PathSet(<<i, j>>) = {i, j}
  <2>1. 1..2 = {1, 2}
    OBVIOUS
  <2> QED BY <1>4, <2>1 DEF PathSet, FirstOf
<1>7. {i, j} \in Pairs /\ ValueOf({i, j}) = values[i] + values[j]
  BY <1>1, PairsFacts
<1>8. Cardinality({i, j}) = 2 /\ {i, j} \in SUBSET (1..Len(values))
  BY <1>7 DEF Pairs, kSubset
<1>9. values[i] + values[j] = goal + r.excess
  BY <1>1, <1>2, <1>3
<1>10. /\ IsPicks(r.picks) /\ Len(r.picks) = 2 /\ Distinct(r.picks) /\ r.excess \in Nat
       /\ PathSet(r.picks) \in SUBSET (1..Len(values)) /\ Cardinality(PathSet(r.picks)) = 2
  BY <1>3, <1>4, <1>5, <1>6, <1>8 DEF IsPicks
<1>11. ValueOf(PathSet(r.picks)) = goal + r.excess
  BY <1>3, <1>6, <1>7, <1>9
<1> QED BY <1>10, <1>11 DEF Usable

LEMMA UsableNote ==
  ASSUME IsWallet, NEW goal \in Nat, Large(goal) # {}
  PROVE  Usable(goal, Smallest(goal)) /\ Len(Smallest(goal).picks) = 1
<1> DEFINE m == Min(Large(goal))
           r == Smallest(goal)
<1>1. /\ m \in 1..Len(values) /\ values[m] >= goal /\ values[m] \in Nat
      /\ r.picks = <<m>> /\ r.excess = values[m] - goal
  BY SmallestFacts
<1> HIDE DEF m, r
<1>2. <<m>> \in Seq(1..Len(values)) /\ Len(<<m>>) = 1 /\ <<m>>[1] = m
  BY <1>1
<1>3. Distinct(<<m>>)
  BY <1>2 DEF Distinct
<1>4. PathSet(<<m>>) = {m}
  <2>1. 1..1 = {1}
    OBVIOUS
  <2> QED BY <1>2, <2>1 DEF PathSet, FirstOf
<1>5. Cardinality({m}) = 1
  BY FS_Singleton
<1>6. ValueOf({m}) = values[m]
  <2>1. ValueOf({m}) = values[m] + ValueOf({m} \ {m}) /\ ValueOf({}) = 0
    BY <1>1, ValueFacts
  <2>2. {m} \ {m} = {}
    OBVIOUS
  <2>3. ValueOf({m}) = values[m] + 0
    BY <2>1, <2>2
  <2> QED BY <1>1, <2>3
<1>7. values[m] = goal + r.excess /\ r.excess \in Nat
  BY <1>1
<1>8. {m} \in SUBSET (1..Len(values))
  BY <1>1
<1>9. /\ IsPicks(r.picks) /\ Len(r.picks) = 1 /\ Distinct(r.picks) /\ r.excess \in Nat
      /\ PathSet(r.picks) \in SUBSET (1..Len(values)) /\ Cardinality(PathSet(r.picks)) = 1
  BY <1>1, <1>2, <1>3, <1>4, <1>5, <1>7, <1>8 DEF IsPicks
<1>10. ValueOf(PathSet(r.picks)) = goal + r.excess
  BY <1>1, <1>4, <1>6, <1>7
<1>11. Usable(goal, r)
  BY <1>9, <1>10 DEF Usable
<1> QED BY <1>9, <1>11 DEF r

LEMMA UsableMany ==
  ASSUME IsWallet, NEW goal \in Nat, NEW q \in 3..Len(values), NEW r, Chosen(goal, q, r),
         \A j \in 0..(q - 1) : Top(j) < goal
  PROVE  Usable(goal, r) /\ Len(r.picks) = q
<1>0. r.picks \in Seq(Nat) /\ r.excess \in Nat /\ Len(r.picks) = q /\ PathOK(0, r.picks)
      /\ ValueOf(PathSet(r.picks)) = goal + r.excess
  BY DEF Chosen, Selections
<1>1. /\ Distinct(r.picks) /\ PathSet(r.picks) \in SUBSET (1..Len(values))
      /\ Cardinality(PathSet(r.picks)) = Len(r.picks)
  BY <1>0, PathFacts
<1>2. ASSUME NEW S \in SUBSET (1..Len(values)), Cardinality(S) < q
      PROVE  ValueOf(S) < goal
  <2>1. Cardinality(S) \in 0..Len(values) /\ ValueOf(S) <= Top(Cardinality(S))
    BY TopIsMost
  <2>2. Cardinality(S) \in 0..(q - 1)
    BY <1>2, <2>1, WalletFacts
  <2>3. Top(Cardinality(S)) < goal /\ Top(Cardinality(S)) \in Nat /\ ValueOf(S) \in Nat
    BY <2>1, <2>2, TopFacts, ValueFacts
  <2> QED BY <2>1, <2>3
<1> QED BY <1>0, <1>1, <1>2 DEF Usable, PathOK

\* A result is usable, or no notes at all cover the goal.
LEMMA FindUsable ==
  ASSUME IsWallet, NEW goal \in Nat, goal > 0
  PROVE  LET r == FindCombination(goal)
         IN  \/ Usable(goal, r)
             \/ r = Miss /\ \A S \in SUBSET (1..Len(values)) : ValueOf(S) < goal
<1>1. CASE PairExact(goal) \/ PairOver(goal)
  BY <1>1, UsablePair DEF PairExact, PairOver
<1>2. CASE NoteExact(goal) \/ NoteOver(goal)
  BY <1>2, UsableNote DEF NoteExact, NoteOver
<1>3. CASE ManyNotes(goal)
  <2>1. PICK q \in 3..Len(values) : /\ Chosen(goal, q, FindCombination(goal))
                                    /\ \A j \in 0..(q - 1) : Top(j) < goal
    BY <1>3 DEF ManyNotes
  <2> QED BY <2>1, UsableMany
<1>4. CASE NotCovered(goal)
  <2>1. FindCombination(goal) = Miss /\ Top(Len(values)) < goal
    BY <1>4 DEF NotCovered
  <2>2. ASSUME NEW S \in SUBSET (1..Len(values)) PROVE ValueOf(S) < goal
    <3>1. Cardinality(S) \in 0..Len(values) /\ ValueOf(S) <= Top(Cardinality(S)) /\ Len(values) \in Nat
      BY TopIsMost, WalletFacts
    <3>2. Len(values) \in 0..Len(values) /\ Cardinality(S) <= Len(values)
      BY <3>1
    <3>3. Top(Cardinality(S)) <= Top(Len(values))
      BY <3>1, <3>2, TopGrows
    <3>4. Top(Cardinality(S)) \in Nat /\ Top(Len(values)) \in Nat /\ ValueOf(S) \in Nat
      BY <3>1, <3>2, TopFacts, ValueFacts
    <3> QED BY <2>1, <3>1, <3>3, <3>4
  <2> QED BY <2>1, <2>2
<1> QED BY <1>1, <1>2, <1>3, <1>4, Tiers

\* A usable result has some notes.
LEMMA UsableFound ==
  ASSUME NEW goal, NEW r, Usable(goal, r)
  PROVE  Found(r) /\ Len(r.picks) \in Nat /\ r.picks # <<>>
BY DEF Usable, Found, IsPicks

\* No fewer notes cover the amount, unless the result is a pair.
LEMMA SelectionFewest ==
  ASSUME IsWallet, amount \in Nat, amount > 0
  PROVE  FewestNotes
<1> DEFINE r == FindCombination(amount)
<1> SUFFICES ASSUME Len(r.picks) # 2, NEW S \in SUBSET DOMAIN values, Cardinality(S) < Len(r.picks)
             PROVE  ValueOf(S) < amount
  BY DEF FewestNotes
<1>0. S \in SUBSET (1..Len(values))
  BY WalletFacts
<1>1. IsFiniteSet(S) /\ Cardinality(S) \in Nat
  BY <1>0, ValueFacts, FS_CardinalityType
<1>2. Usable(amount, r) \/ (r = Miss /\ \A T \in SUBSET (1..Len(values)) : ValueOf(T) < amount)
  BY FindUsable
<1> HIDE DEF r
<1>3. CASE Usable(amount, r)
  <2>1. Len(r.picks) \in Nat
    BY <1>3, UsableFound
  <2>2. CASE Len(r.picks) >= 3
    BY <1>0, <1>3, <2>2 DEF Usable
  <2>3. CASE Len(r.picks) < 3
    <3>a. Len(r.picks) >= 1
      BY <1>3 DEF Usable
    <3>0. Len(r.picks) = 1
      <4>1. \A n \in Nat : n >= 1 /\ n < 3 /\ n # 2 => n = 1
        OBVIOUS
      <4> QED BY <2>1, <2>3, <3>a, <4>1, Zenon
    <3>1. Cardinality(S) = 0
      BY <1>1, <3>0
    <3>2. S = {}
      BY <1>1, <3>1, FS_EmptySet
    <3>3. ValueOf({}) = 0
      BY ValueFacts
    <3> QED BY <3>2, <3>3
  <2> QED BY <2>1, <2>2, <2>3
<1> QED BY <1>0, <1>2, <1>3

\* An amount can be planned if and only if few enough notes cover it.
LEMMA PlannableIff ==
  ASSUME IsWallet, amount \in Nat, amount > 0
  PROVE  Plannable(FindCombination(amount)) <=>
           ~ \A S \in SUBSET DOMAIN values :
                Cardinality(S) <= TransactionLimit => ValueOf(S) < amount
<1> DEFINE r == FindCombination(amount)
<1>0. DOMAIN values = 1..Len(values) /\ TransactionLimit \in Nat /\ TransactionLimit >= 2
  BY WalletFacts, BoundsAreNatural
<1>1. Usable(amount, r) \/ (r = Miss /\ \A T \in SUBSET (1..Len(values)) : ValueOf(T) < amount)
  BY FindUsable
<1> HIDE DEF r
<1>2. CASE r = Miss /\ \A T \in SUBSET (1..Len(values)) : ValueOf(T) < amount
  <2>1. ~Plannable(r)
    BY <1>2 DEF Plannable, Found, Miss
  <2> QED BY <1>0, <1>2, <2>1 DEF r
<1>3. CASE Usable(amount, r)
  <2>0. Found(r) /\ Len(r.picks) \in Nat
    BY <1>3, UsableFound
  <2>1. CASE Len(r.picks) <= TransactionLimit
    <3>1. Plannable(r)
      BY <2>0, <2>1 DEF Plannable
    <3>2. /\ PathSet(r.picks) \in SUBSET (1..Len(values))
          /\ Cardinality(PathSet(r.picks)) <= TransactionLimit
          /\ ValueOf(PathSet(r.picks)) = amount + r.excess /\ r.excess \in Nat
      BY <1>3, <2>1 DEF Usable
    <3>3. ~(ValueOf(PathSet(r.picks)) < amount)
      BY <3>2
    <3> QED BY <1>0, <3>1, <3>2, <3>3 DEF r
  <2>2. CASE Len(r.picks) > TransactionLimit
    <3>1. ~Plannable(r)
      BY <1>0, <2>0, <2>2 DEF Plannable
    <3>2. ASSUME NEW S \in SUBSET (1..Len(values)), Cardinality(S) <= TransactionLimit
          PROVE  ValueOf(S) < amount
      <4>1. Cardinality(S) \in Nat
        BY ValueFacts, FS_CardinalityType
      <4>2. Cardinality(S) < Len(r.picks) /\ Len(r.picks) >= 3
        BY <1>0, <2>0, <2>2, <3>2, <4>1
      <4> QED BY <1>3, <4>2 DEF Usable
    <3> QED BY <1>0, <3>1, <3>2 DEF r
  <2> QED BY <1>0, <2>0, <2>1, <2>2
<1> QED BY <1>1, <1>2, <1>3
-----------------------------------------------------------------------------
(* The first picks.                                                        *)

\* The first picks of a choice grow by one note at a time.
LEMMA FirstOfFacts ==
  ASSUME IsWallet, NEW p, IsPicks(p), Distinct(p)
  PROVE  /\ Len(p) \in Nat /\ \A n \in 1..Len(p) : p[n] \in 1..Len(values)
         /\ \A n \in 0..Len(p) : /\ FirstOf(p, n) \in SUBSET (1..Len(values))
                                  /\ FirstOf(p, n) \subseteq FirstOf(p, Len(p))
                                  /\ Cardinality(FirstOf(p, n)) = n
         /\ \A n \in 1..Len(p) : /\ FirstOf(p, n) = FirstOf(p, n - 1) \cup {p[n]}
                                  /\ p[n] \notin FirstOf(p, n - 1)
<1>0. Len(p) \in Nat /\ \A n \in 1..Len(p) : p[n] \in 1..Len(values)
  BY DEF IsPicks
<1>1. ASSUME NEW n \in 0..Len(p)
      PROVE  /\ FirstOf(p, n) \in SUBSET (1..Len(values)) /\ FirstOf(p, n) \subseteq FirstOf(p, Len(p))
             /\ Cardinality(FirstOf(p, n)) = n
  <2>0. n \in Nat /\ \A j \in 1..n : j \in 1..Len(p)
    BY <1>0
  <2>1. FirstOf(p, n) \in SUBSET (1..Len(values)) /\ FirstOf(p, n) \subseteq FirstOf(p, Len(p))
    BY <1>0, <2>0 DEF FirstOf
  <2> DEFINE f == [j \in 1..n |-> p[j]]
  <2>2. f \in [1..n -> FirstOf(p, n)]
    BY DEF FirstOf
  <2>3. \A a, b \in 1..n : f[a] = f[b] => a = b
    BY <2>0 DEF Distinct
  <2>4. \A x \in FirstOf(p, n) : \E s \in 1..n : f[s] = x
    BY DEF FirstOf
  <2> HIDE DEF f
  <2>5. f \in Injection(1..n, FirstOf(p, n))
    BY <2>2, <2>3, Zenon DEF Injection, IsInjective
  <2>6. f \in Surjection(1..n, FirstOf(p, n))
    BY <2>2, <2>4, Zenon DEF Surjection
  <2>7. ExistsBijection(1..n, FirstOf(p, n))
    BY <2>5, <2>6 DEF Bijection, ExistsBijection
  <2> QED BY <2>0, <2>1, <2>7, FS_CountingElements
<1>2. ASSUME NEW n \in 1..Len(p)
      PROVE  FirstOf(p, n) = FirstOf(p, n - 1) \cup {p[n]} /\ p[n] \notin FirstOf(p, n - 1)
  <2>1. \A j : j \in 1..n <=> j \in 1..(n - 1) \/ j = n
    BY <1>0
  <2>2. \A j \in 1..(n - 1) : j \in 1..Len(p) /\ j # n
    BY <1>0
  <2> QED BY <2>1, <2>2 DEF FirstOf, Distinct
<1> QED BY <1>0, <1>1, <1>2

-----------------------------------------------------------------------------
(* The plan and its transactions in closed form.  p are the picks and M[n]  *)
(* is what the first n of them are worth.                                   *)

\* The number of steps, and the note that the step before step n leaves.
StepCount(p) == IF Len(p) = 1 THEN 1 ELSE Len(p) - 1
MergedNote(M, n) == [commitment |-> MaxNotes + (n - 1), amount |-> M[n]]

\* Step n of the plan.
StepAt(r, M, n) ==
  IF Len(r.picks) = 1
  THEN [inputs |-> <<NoteAt(r.picks[1])>>, outputs |-> <<amount, r.excess>>,
        change |-> r.change, final |-> TRUE]
  ELSE [inputs |-> << IF n = 1 THEN NoteAt(r.picks[1])
                      ELSE [commitment |-> NoCommitment, amount |-> M[n]],
                      NoteAt(r.picks[n + 1]) >>,
        outputs |-> IF n + 1 = Len(r.picks) THEN <<amount, r.excess>> ELSE <<M[n + 1], 0>>,
        change |-> r.change, final |-> n + 1 = Len(r.picks)]

\* The notes are different, their amounts add up to the amount and the excess,
\* and no other note of the wallet has the amount of a merged one.
PlanShape(r, M) ==
  /\ r.picks \in Seq(1..Len(values)) /\ Len(r.picks) >= 1 /\ Distinct(r.picks) /\ r.excess \in Nat
  /\ ~r.change => r.excess = 0
  /\ M \in [0..Len(r.picks) -> Nat] /\ M[1] = values[r.picks[1]]
  /\ \A n \in 2..Len(r.picks) : M[n] = M[n - 1] + values[r.picks[n]]
  /\ M[Len(r.picks)] = amount + r.excess
  /\ \A n \in 2..(Len(r.picks) - 1) :
       \A i \in (1..Len(values)) \ FirstOf(r.picks, n + 1) : values[i] # M[n]
  /\ steps = [n \in 1..StepCount(r.picks) |-> StepAt(r, M, n)]

\* Another note with the amount of a merged one would make a smaller choice.
LEMMA NoTwin ==
  ASSUME IsWallet, NEW goal \in Nat, NEW r, Usable(goal, r), NEW n \in 2..(Len(r.picks) - 1),
         NEW i \in (1..Len(values)) \ FirstOf(r.picks, n + 1)
  PROVE  values[i] # ValueOf(FirstOf(r.picks, n))
<1> DEFINE p == r.picks
           k == Len(p)
           F == FirstOf(p, n)
           A == PathSet(p)
<1>0. /\ IsPicks(p) /\ Distinct(p) /\ r.excess \in Nat /\ k \in Nat
      /\ A \in SUBSET (1..Len(values)) /\ Cardinality(A) = k /\ ValueOf(A) = goal + r.excess
  BY UsableFound DEF Usable
<1>1. k >= 3 /\ n \in 0..k /\ n \in Nat /\ n >= 2 /\ n + 1 \in 1..k /\ n + 1 \in 0..k /\ (n + 1) - 1 = n
  BY <1>0
<1>2. /\ Falling(p)
      /\ \A S \in SUBSET (1..Len(values)) : Cardinality(S) < k => ValueOf(S) < goal
  BY <1>1 DEF Usable
<1>3. /\ \A m \in 1..k : p[m] \in 1..Len(values)
      /\ F \in SUBSET (1..Len(values)) /\ F \subseteq A /\ Cardinality(F) = n
      /\ FirstOf(p, n + 1) = F \cup {p[n + 1]}
  BY <1>0, <1>1, FirstOfFacts DEF PathSet
<1>4. i \in 1..Len(values) /\ i \notin F /\ values[i] \in Nat
  BY <1>3, WalletFacts
<1> SUFFICES ASSUME values[i] = ValueOf(F) PROVE FALSE
  OBVIOUS
<1>5. CASE i \in A
  <2> HIDE DEF p, k
  <2>1. PICK m \in 1..k : i = p[m]
    BY <1>5 DEF PathSet, FirstOf, k
  <2>2. 1 \in 1..k /\ 2 \in 1..k /\ 1 \in 1..n /\ 2 \in 1..n
    BY <1>0, <1>1
  <2>3. p[1] \in F /\ p[2] \in F /\ p[1] # p[2]
    BY <2>2, <1>0 DEF FirstOf, Distinct, k
  <2>4. m # 1 /\ m > 1
    BY <1>0, <1>4, <2>1, <2>3
  <2>5. p[1] > i
    BY <1>2, <2>1, <2>2, <2>4 DEF Falling, k
  <2>6. values[i] <= values[p[1]] /\ values[p[1]] \in Nat /\ values[p[2]] \in Nat /\ values[p[2]] > 0
    BY <1>3, <1>4, <2>2, <2>5, WalletFacts
  <2>7. F \ {p[1]} \in SUBSET (1..Len(values)) /\ p[2] \in F \ {p[1]}
        /\ (F \ {p[1]}) \ {p[2]} \in SUBSET (1..Len(values))
    BY <1>3, <2>3
  <2> HIDE DEF F
  <2>8. /\ ValueOf(F) = values[p[1]] + ValueOf(F \ {p[1]})
        /\ ValueOf(F \ {p[1]}) = values[p[2]] + ValueOf((F \ {p[1]}) \ {p[2]})
        /\ ValueOf((F \ {p[1]}) \ {p[2]}) \in Nat /\ ValueOf(F \ {p[1]}) \in Nat
    BY <1>3, <2>3, <2>7, ValueFacts
  <2>9. ValueOf(F) > values[p[1]]
    BY <2>6, <2>8
  <2> QED BY <1>4, <2>6, <2>9
<1>6. CASE i \notin A
  <2> DEFINE R == A \ F
             S == R \cup {i}
  <2>1. R \in SUBSET (1..Len(values)) /\ i \in (1..Len(values)) \ R /\ S \in SUBSET (1..Len(values))
    BY <1>0, <1>4, <1>6
  <2>2. ValueOf(A) = ValueOf(F) + ValueOf(R)
    <3>1. IsFiniteSet(A) /\ \A x \in A : values[x] \in Int
      BY <1>0, ValueFacts, WalletFacts
    <3>2. F \in SUBSET A
      BY <1>3
    <3> HIDE DEF A, F
    <3> QED BY <3>1, <3>2, SumOverSplit, ValueIsSum
  <2>3. ValueOf(S) = ValueOf(R) + values[i]
    BY <2>1, ValueAdd
  <2>4. Cardinality(S) < k
    <3>1. IsFiniteSet(A) /\ IsFiniteSet(R) /\ Cardinality(R) \in Nat
      BY <1>0, <2>1, ValueFacts, FS_CardinalityType
    <3>2. A \cap F = F
      BY <1>3
    <3> HIDE DEF A, F, k
    <3>3. Cardinality(R) = Cardinality(A) - Cardinality(A \cap F)
      BY <3>1, FS_Difference
    <3>4. Cardinality(R) = k - n
      BY <1>0, <1>3, <3>2, <3>3
    <3>5. Cardinality(S) = Cardinality(R) + 1
      BY <2>1, <3>1, FS_AddElement
    <3> QED BY <1>0, <1>1, <3>4, <3>5
  <2>5. ValueOf(R) \in Nat /\ ValueOf(F) \in Nat /\ ValueOf(S) \in Nat
    BY <1>3, <2>1, ValueFacts
  <2>6. ValueOf(S) < goal
    BY <1>2, <2>1, <2>4
  <2> HIDE DEF A, F, R, S
  <2>7. ValueOf(S) = goal + r.excess
    BY <1>0, <2>2, <2>3, <2>5
  <2> QED BY <1>0, <2>6, <2>7
<1> QED BY <1>5, <1>6

\* The plan of a usable result has this shape.
LEMMA PlanIsShaped ==
  ASSUME IsWallet, amount \in Nat, NEW r, Usable(amount, r), ~r.change => r.excess = 0,
         steps' = PlanOf(r),
         values' = values, amount' = amount
  PROVE  \E M : PlanShape(r, M)'
<1> DEFINE p == r.picks
           k == Len(p)
<1>0. /\ IsPicks(p) /\ p \in Seq(1..Len(values)) /\ Distinct(p) /\ r.excess \in Nat /\ k \in Nat /\ k >= 1
      /\ ValueOf(FirstOf(p, k)) = amount + r.excess
  BY UsableFound DEF Usable, IsPicks, PathSet
<1>a. PICK M : M = [n \in 0..k |-> ValueOf(FirstOf(p, n))]
  OBVIOUS
<1>1. \A n \in 0..k : M[n] = ValueOf(FirstOf(p, n)) /\ M[n] = RunningSum(p)[n] /\ M[n] \in Nat
  BY <1>0, <1>a, RunningIsValue, RunningFacts
<1>2. M \in [0..k -> Nat]
  BY <1>a, <1>1
<1>3. \A n \in 1..k : M[n] = M[n - 1] + values[p[n]]
  <2> SUFFICES ASSUME NEW n \in 1..k PROVE M[n] = M[n - 1] + values[p[n]]
    OBVIOUS
  <2>1. n \in 0..k /\ n - 1 \in 0..k
    BY <1>0
  <2>2. RunningSum(p)[n] = RunningSum(p)[n - 1] + values[p[n]]
    BY <1>0, RunningFacts
  <2> QED BY <1>1, <2>1, <2>2
<1>4. M[1] = values[p[1]]
  <2>1. 1 \in 1..k /\ 0 \in 0..k /\ 1 - 1 = 0 /\ p[1] \in 1..Len(values)
    BY <1>0
  <2>2. M[0] = 0
    BY <1>0, <1>1, <2>1, RunningFacts
  <2>3. values[p[1]] \in Nat
    BY <2>1, WalletFacts
  <2>4. M[1] = M[1 - 1] + values[p[1]]
    BY <1>3, <2>1
  <2>5. M[1] = 0 + values[p[1]]
    BY <2>1, <2>2, <2>4
  <2> QED BY <2>3, <2>5
<1>5. \A n \in 2..k : M[n] = M[n - 1] + values[p[n]]
  <2>1. \A n \in 2..k : n \in 1..k
    BY <1>0
  <2> QED BY <1>3, <2>1
<1>6. M[k] = amount + r.excess
  BY <1>0, <1>1
<1>7. ASSUME NEW n \in 2..(k - 1), NEW i \in (1..Len(values)) \ FirstOf(p, n + 1)
      PROVE  values[i] # M[n]
  <2>1. values[i] # ValueOf(FirstOf(p, n)) /\ n \in 0..k
    BY <1>0, NoTwin
  <2> QED BY <1>1, <2>1
<1>8. PlanOf(r) = [n \in 1..StepCount(p) |-> StepAt(r, M, n)]
  <2>1. CASE k = 1
    <3>1. StepCount(p) = 1 /\ 1..1 = {1}
      BY <2>1 DEF StepCount
    <3>2. PlanOf(r) = << StepAt(r, M, 1) >>
      BY <2>1 DEF PlanOf, StepAt
    <3>3. \A n \in {1} : StepAt(r, M, n) = StepAt(r, M, 1)
      OBVIOUS
    <3> DEFINE x == StepAt(r, M, 1)
    <3>4. <<x>> = [n \in 1..1 |-> x]
      OBVIOUS
    <3>5. [n \in 1..1 |-> x] = [n \in 1..1 |-> StepAt(r, M, n)]
      BY <3>1, <3>3
    <3> QED BY <3>1, <3>2, <3>4, <3>5
  <2>2. CASE k # 1
    <3>1. StepCount(p) = k - 1
      BY <2>2 DEF StepCount
    <3>2. PlanOf(r) = [n \in 1..k - 1 |-> PlannedStep(r, n + 1)]
      BY <2>2 DEF PlanOf
    <3>3. ASSUME NEW n \in 1..k - 1 PROVE PlannedStep(r, n + 1) = StepAt(r, M, n)
      <4>1. n \in 0..k /\ n + 1 \in 0..k /\ (n + 1) - 1 = n /\ (n + 1 = 2 <=> n = 1)
        BY <1>0
      <4>2. MergedAmount(p, n) = M[n] /\ MergedAmount(p, n + 1) = M[n + 1]
        BY <1>1, <4>1 DEF MergedAmount
      <4>3. PlannedStep(r, n + 1)
              = [inputs |-> << IF n = 1 THEN NoteAt(p[1])
                               ELSE [commitment |-> NoCommitment, amount |-> M[n]],
                               NoteAt(p[n + 1]) >>,
                 outputs |-> IF n + 1 = k THEN <<amount, r.excess>> ELSE <<M[n + 1], 0>>,
                 change |-> r.change, final |-> n + 1 = k]
        BY <4>1, <4>2 DEF PlannedStep
      <4> QED BY <2>2, <4>3 DEF StepAt
    <3> QED BY <3>1, <3>2, <3>3
  <2> QED BY <2>1, <2>2
<1>9. PlanShape(r, M)'
  <2>1. \A n : StepAt(r, M, n)' = StepAt(r, M, n)
    BY DEF StepAt, NoteAt
  <2>2. (steps = [n \in 1..StepCount(r.picks) |-> StepAt(r, M, n)])'
    BY <1>8, <2>1
  <2>3. /\ \A n \in 2..(Len(r.picks) - 1) :
             \A i \in (1..Len(values')) \ FirstOf(r.picks, n + 1) : values'[i] # M[n]
        /\ M[1] = values'[r.picks[1]]
        /\ \A n \in 2..Len(r.picks) : M[n] = M[n - 1] + values'[r.picks[n]]
    BY <1>4, <1>5, <1>7
  <2>4. /\ r.picks \in Seq(1..Len(values')) /\ Len(r.picks) >= 1 /\ Distinct(r.picks) /\ r.excess \in Nat
        /\ ~r.change => r.excess = 0
        /\ M \in [0..Len(r.picks) -> Nat] /\ M[Len(r.picks)] = amount' + r.excess
    BY <1>0, <1>2, <1>6
  <2> QED BY <2>2, <2>3, <2>4 DEF PlanShape
<1> QED BY <1>9

-----------------------------------------------------------------------------
(* The session.                                                            *)

\* The notes that step n spends: the first pick or the merged note, and the
\* next pick if there is more than one.
FirstInput(p, M, n) == IF n = 1 THEN NoteAt(p[1]) ELSE MergedNote(M, n)
Inputs(p, M, n) == {FirstInput(p, M, n)} \cup (IF Len(p) = 1 THEN {} ELSE {NoteAt(p[n + 1])})

\* The snapshot before step n.
WalletAt(p, M, n) ==
  {NoteAt(i) : i \in (1..Len(values)) \ (IF n = 1 THEN {} ELSE FirstOf(p, n))}
    \cup (IF n = 1 THEN {} ELSE {MergedNote(M, n)})

\* The transaction of step n.
TxAt(r, M, n) ==
  [inputs |-> Inputs(r.picks, M, n),
   outputs |-> IF n # StepCount(r.picks) THEN <<M[n + 1], 0>>
               ELSE IF target = "withdraw" THEN <<r.excess, 0>> ELSE <<amount, r.excess>>,
   owners |-> IF n # StepCount(r.picks) \/ target = "withdraw" THEN <<"self", "self">>
              ELSE <<"recipient", IF r.change THEN "self" ELSE "recipient">>,
   ext |-> IF n = StepCount(r.picks) /\ target = "withdraw" THEN -amount ELSE 0]

\* The parts of a plan.
LEMMA ShapeFacts ==
  ASSUME IsWallet, NEW r, NEW M, PlanShape(r, M)
  PROVE  /\ Len(r.picks) \in Nat /\ Len(r.picks) >= 1 /\ IsPicks(r.picks)
         /\ StepCount(r.picks) \in Nat /\ StepCount(r.picks) >= 1
         /\ steps = [n \in 1..StepCount(r.picks) |-> StepAt(r, M, n)]
         /\ Len(steps) = StepCount(r.picks)
         /\ \A n \in 1..StepCount(r.picks) : steps[n] = StepAt(r, M, n)
         /\ MaxNotes \in Nat /\ Len(values) \in Nat /\ Len(values) <= MaxNotes
         /\ Len(r.picks) # 1 => StepCount(r.picks) = Len(r.picks) - 1
         /\ Len(r.picks) = 1 => StepCount(r.picks) = 1
<1>1. r.picks \in Seq(1..Len(values)) /\ Len(r.picks) \in Nat /\ Len(r.picks) >= 1 /\ IsPicks(r.picks)
  BY DEF PlanShape, IsPicks
<1>2. StepCount(r.picks) \in Nat /\ StepCount(r.picks) >= 1
      /\ (Len(r.picks) # 1 => StepCount(r.picks) = Len(r.picks) - 1)
      /\ (Len(r.picks) = 1 => StepCount(r.picks) = 1)
  <2>1. \A k \in Nat : k >= 1 /\ k # 1 => k - 1 \in Nat /\ k - 1 >= 1
    OBVIOUS
  <2>2. Len(r.picks) # 1 => Len(r.picks) - 1 \in Nat /\ Len(r.picks) - 1 >= 1
    BY <1>1, <2>1
  <2>3. 1 \in Nat /\ 1 >= 1
    OBVIOUS
  <2> QED BY <2>2, <2>3, Zenon DEF StepCount
<1>3. steps = [n \in 1..StepCount(r.picks) |-> StepAt(r, M, n)]
  BY DEF PlanShape
<1> HIDE DEF StepCount
<1>4. Len(steps) = StepCount(r.picks) /\ \A n \in 1..StepCount(r.picks) : steps[n] = StepAt(r, M, n)
  BY <1>2, <1>3
<1>5. MaxNotes \in Nat /\ Len(values) \in Nat /\ Len(values) <= MaxNotes
  BY BoundsAreNatural DEF IsWallet
<1> QED BY <1>1, <1>2, <1>3, <1>4, <1>5

\* Notes of the wallet are told apart by their commitments, and no merged note
\* has the commitment of one of them.
LEMMA NoteFacts ==
  ASSUME NEW i, NEW j
  PROVE  /\ NoteAt(i).commitment = i /\ NoteAt(i).amount = values[i]
         /\ NoteAt(i) = NoteAt(j) => i = j
BY DEF NoteAt

\* A merged note carries the amount merged so far.
LEMMA MergedFacts ==
  ASSUME NEW M, NEW n
  PROVE  MergedNote(M, n).commitment = MaxNotes + (n - 1) /\ MergedNote(M, n).amount = M[n]
BY DEF MergedNote

\* It is none of the notes the session started with.
LEMMA MergedDiffers ==
  ASSUME IsWallet, NEW M, NEW n \in Nat, n >= 2, NEW i \in 1..Len(values)
  PROVE  MergedNote(M, n) # NoteAt(i) /\ MaxNotes + (n - 1) # i
<1>1. MaxNotes \in Nat /\ Len(values) \in Nat /\ Len(values) <= MaxNotes
  BY BoundsAreNatural DEF IsWallet
<1>2. MaxNotes + (n - 1) # i
  BY <1>1
<1> QED BY <1>2, NoteFacts, MergedFacts

\* What the wallet has before step n.
LEMMA WalletAtFacts ==
  ASSUME IsWallet, NEW r, NEW M, PlanShape(r, M), NEW n \in 1..StepCount(r.picks)
  PROVE  LET p == r.picks
             W == WalletAt(p, M, n)
         IN  /\ FirstInput(p, M, n) \in W
             /\ Len(p) # 1 => /\ n + 1 \in 1..Len(p) /\ p[n + 1] \in 1..Len(values)
                              /\ NoteAt(p[n + 1]) \in W
             /\ n # 1 => \A x \in W : x.amount = M[n] /\ x.commitment # p[n + 1] => x = MergedNote(M, n)
<1> DEFINE p == r.picks
           W == WalletAt(p, M, n)
           N == Len(values)
<1>0. /\ Len(p) \in Nat /\ Len(p) >= 1 /\ IsPicks(p) /\ Distinct(p) /\ N \in Nat
      /\ StepCount(p) \in Nat
      /\ Len(p) # 1 => StepCount(p) = Len(p) - 1
      /\ Len(p) = 1 => StepCount(p) = 1
  BY ShapeFacts DEF PlanShape
<1>1. /\ \A m \in 1..Len(p) : p[m] \in 1..N
      /\ \A m \in 1..Len(p) : /\ FirstOf(p, m) = FirstOf(p, m - 1) \cup {p[m]}
                               /\ p[m] \notin FirstOf(p, m - 1)
  BY <1>0, FirstOfFacts
<1>2. 1 \in 1..Len(p) /\ p[1] \in 1..N
  BY <1>0, <1>1
<1>3. ASSUME Len(p) # 1 PROVE n + 1 \in 1..Len(p) /\ (n + 1) - 1 = n /\ p[n + 1] \in 1..N
                              /\ FirstOf(p, n + 1) = FirstOf(p, n) \cup {p[n + 1]}
                              /\ p[n + 1] \notin FirstOf(p, n)
  <2>1. n + 1 \in 1..Len(p) /\ (n + 1) - 1 = n
    BY <1>0, <1>3
  <2> QED BY <1>1, <2>1
<1>4. n # 1 => Len(p) # 1
  BY <1>0
<1>5. FirstInput(p, M, n) \in W
  BY <1>2 DEF FirstInput, WalletAt
<1>6. Len(p) # 1 => NoteAt(p[n + 1]) \in W
  BY <1>3 DEF WalletAt
<1>7. ASSUME n # 1, NEW x \in W, x.amount = M[n], x.commitment # p[n + 1]
      PROVE  x = MergedNote(M, n)
  <2> SUFFICES ASSUME x # MergedNote(M, n) PROVE FALSE
    OBVIOUS
  <2>1. PICK i \in (1..N) \ FirstOf(p, n) : x = NoteAt(i)
    BY <1>7 DEF WalletAt
  <2>2. i # p[n + 1] /\ values[i] = M[n]
    BY <1>7, <2>1, NoteFacts
  <2>3. i \in (1..N) \ FirstOf(p, n + 1)
    BY <1>3, <1>4, <1>7, <2>1, <2>2
  <2>4. n \in 2..(Len(p) - 1)
    BY <1>0, <1>4, <1>7
  <2> QED BY <2>2, <2>3, <2>4 DEF PlanShape
<1> QED BY <1>3, <1>5, <1>6, <1>7

\* The inputs of step n are found, and they are the two notes it is about.
LEMMA StepResolves ==
  ASSUME IsWallet, NEW r, NEW M, PlanShape(r, M), NEW n \in 1..StepCount(r.picks),
         wallet = WalletAt(r.picks, M, n)
  PROVE  Resolves(StepAt(r, M, n)) /\ Resolved(StepAt(r, M, n)) = Inputs(r.picks, M, n)
<1> DEFINE p == r.picks
           s == StepAt(r, M, n)
           a == FirstInput(p, M, n)
           b == NoteAt(p[n + 1])
<1>0. /\ a \in wallet
      /\ Len(p) # 1 => n + 1 \in 1..Len(p) /\ p[n + 1] \in 1..Len(values) /\ b \in wallet
      /\ n # 1 => \A x \in wallet : x.amount = M[n] /\ x.commitment # p[n + 1] => x = MergedNote(M, n)
  BY WalletAtFacts
<1>1. /\ Len(p) \in Nat /\ Len(p) >= 1 /\ p[1] \in 1..Len(values) /\ n \in Nat
      /\ (n # 1 => n >= 2 /\ Len(p) # 1)
  <2>1. Len(p) \in Nat /\ Len(p) >= 1 /\ IsPicks(p) /\ StepCount(p) \in Nat
        /\ (Len(p) = 1 => StepCount(p) = 1)
    BY ShapeFacts
  <2> QED BY <2>1 DEF IsPicks
<1>2. \A i \in 1..Len(values) : i # NoCommitment
  BY DEF NoCommitment
<1>3. \A i \in 1..Len(values) : \A sib : NoteAt(i) \in wallet => Matches(NoteAt(i), sib) = {NoteAt(i)}
  BY <1>2, NoteFacts DEF Matches
<1>4. CASE Len(p) = 1
  <2>1. n = 1 /\ a = NoteAt(p[1])
    BY <1>1, <1>4 DEF FirstInput
  <2>2. s.inputs = << NoteAt(p[1]) >>
    BY <1>4 DEF StepAt
  <2> HIDE DEF s
  <2>3. DOMAIN s.inputs = {1} /\ Len(s.inputs) = 1 /\ s.inputs[1] = NoteAt(p[1])
    BY <2>2
  <2>4. InputMatches(s, 1) = {a}
    BY <1>0, <1>1, <1>3, <2>1, <2>3 DEF InputMatches
  <2>5. Resolves(s)
    BY <2>3, <2>4, FS_Singleton DEF Resolves
  <2>6. Resolved(s) = {a}
    BY <2>3, <2>4 DEF Resolved
  <2>7. Inputs(p, M, n) = {a}
    BY <1>4 DEF Inputs
  <2> QED BY <2>5, <2>6, <2>7 DEF s
<1>5. CASE Len(p) # 1
  <2> DEFINE f == IF n = 1 THEN NoteAt(p[1]) ELSE [commitment |-> NoCommitment, amount |-> M[n]]
  <2>2. s.inputs = << f, b >>
    BY <1>5 DEF StepAt
  <2> HIDE DEF s, f, b
  <2>3. DOMAIN s.inputs = {1, 2} /\ Len(s.inputs) = 2 /\ s.inputs[1] = f /\ s.inputs[2] = b
    BY <2>2
  <2>4. InputMatches(s, 1) = Matches(f, b) /\ InputMatches(s, 2) = Matches(b, f)
    <3>1. 3 - 1 = 2 /\ 3 - 2 = 1
      OBVIOUS
    <3> QED BY <2>3, <3>1 DEF InputMatches
  <2>5. Matches(b, f) = {b}
    BY <1>0, <1>3, <1>5 DEF b
  <2>6. Matches(f, b) = {a}
    <3>1. CASE n = 1
      <4>1. f = NoteAt(p[1]) /\ a = NoteAt(p[1])
        BY <3>1 DEF f, FirstInput
      <4> QED BY <1>0, <1>1, <1>3, <4>1
    <3>2. CASE n # 1
      <4>1. f.commitment = NoCommitment /\ f.amount = M[n] /\ a = MergedNote(M, n)
        BY <3>2 DEF f, FirstInput
      <4>2. Matches(f, b) = {x \in wallet : x.amount = M[n] /\ x.commitment # b.commitment}
        BY <4>1 DEF Matches
      <4>3. b.commitment = p[n + 1]
        BY NoteFacts DEF b
      <4>4. a.amount = M[n] /\ a.commitment # p[n + 1]
        BY <1>0, <1>1, <1>5, <3>2, <4>1, MergedFacts, MergedDiffers
      <4> HIDE DEF a
      <4> QED BY <1>0, <3>2, <4>1, <4>2, <4>3, <4>4
    <3> QED BY <3>1, <3>2
  <2>7. Resolves(s)
    BY <2>3, <2>4, <2>5, <2>6, FS_Singleton DEF Resolves
  <2>8. Resolved(s) = {a, b}
    <3>1. Resolved(s) = InputMatches(s, 1) \cup InputMatches(s, 2)
      BY <2>3 DEF Resolved
    <3> QED BY <2>4, <2>5, <2>6, <3>1
  <2>9. Inputs(p, M, n) = {a, b}
    BY <1>5 DEF Inputs, b
  <2> QED BY <2>7, <2>8, <2>9 DEF s
<1> QED BY <1>4, <1>5

\* The transaction of step n.
LEMMA StepMaterializes ==
  ASSUME IsWallet, NEW r, NEW M, PlanShape(r, M), NEW n \in 1..StepCount(r.picks),
         wallet = WalletAt(r.picks, M, n)
  PROVE  /\ Materialize(StepAt(r, M, n)) = TxAt(r, M, n)
         /\ StepAt(r, M, n).final <=> n = StepCount(r.picks)
<1> DEFINE s == StepAt(r, M, n)
           K == StepCount(r.picks)
<1>1. Resolved(s) = Inputs(r.picks, M, n)
  BY StepResolves
<1>2. /\ Len(r.picks) \in Nat /\ Len(r.picks) >= 1 /\ K \in Nat
      /\ Len(r.picks) # 1 => K = Len(r.picks) - 1
      /\ Len(r.picks) = 1 => K = 1
  BY ShapeFacts
<1> HIDE DEF K
<1>3. /\ s.final <=> n = K
      /\ s.outputs = IF n = K THEN <<amount, r.excess>> ELSE <<M[n + 1], 0>>
      /\ s.change = r.change
  <2>1. CASE Len(r.picks) = 1
    BY <1>2, <2>1 DEF StepAt, K
  <2>2. CASE Len(r.picks) # 1
    <3>1. n + 1 = Len(r.picks) <=> n = K
      BY <1>2, <2>2
    <3> QED BY <2>2, <3>1 DEF StepAt
  <2> QED BY <2>1, <2>2
<1> HIDE DEF s
<1>4. s.outputs[1] = (IF n = K THEN amount ELSE M[n + 1]) /\ s.outputs[2] = IF n = K THEN r.excess ELSE 0
  BY <1>3
<1>5. CASE n = K /\ target = "withdraw"
  BY <1>1, <1>3, <1>4, <1>5 DEF Materialize, TxAt, OutputOwners, K, s
<1>6. CASE n = K /\ target # "withdraw"
  BY <1>1, <1>3, <1>4, <1>6 DEF Materialize, TxAt, OutputOwners, K, s
<1>7. CASE n # K
  BY <1>1, <1>3, <1>4, <1>7 DEF Materialize, TxAt, OutputOwners, K, s
<1> QED BY <1>3, <1>5, <1>6, <1>7 DEF s, K

\* The snapshot after a step that is not the last.
LEMMA WalletStep ==
  ASSUME IsWallet, NEW r, NEW M, PlanShape(r, M), NEW n \in 1..StepCount(r.picks),
         n # StepCount(r.picks)
  PROVE  (WalletAt(r.picks, M, n) \ Inputs(r.picks, M, n))
           \cup {[commitment |-> MaxNotes + n, amount |-> M[n + 1]]}
           = WalletAt(r.picks, M, n + 1)
<1> DEFINE p == r.picks
           N == Len(values)
           gone == IF n = 1 THEN {} ELSE FirstOf(p, n)
           rest == {NoteAt(i) : i \in (1..N) \ FirstOf(p, n + 1)}
<1>0. /\ Len(p) \in Nat /\ Len(p) # 1 /\ IsPicks(p) /\ Distinct(p) /\ N \in Nat /\ n \in Nat
      /\ n + 1 \in 1..Len(p) /\ n \in 1..Len(p) /\ (n + 1) - 1 = n /\ n + 1 # 1 /\ MaxNotes \in Nat
  <2>1. /\ Len(p) \in Nat /\ Len(p) >= 1 /\ IsPicks(p) /\ Distinct(p) /\ N \in Nat /\ StepCount(p) \in Nat
        /\ Len(p) # 1 => StepCount(p) = Len(p) - 1
        /\ Len(p) = 1 => StepCount(p) = 1
        /\ MaxNotes \in Nat
    BY ShapeFacts DEF PlanShape
  <2>2. n \in Nat /\ n < StepCount(p) /\ n >= 1
    BY <2>1
  <2>3. Len(p) # 1
    BY <2>1, <2>2
  <2> QED BY <2>1, <2>2, <2>3
<1>1. /\ \A m \in 1..Len(p) : p[m] \in 1..N
      /\ FirstOf(p, n + 1) = FirstOf(p, n) \cup {p[n + 1]} /\ p[n + 1] \notin FirstOf(p, n)
  BY <1>0, FirstOfFacts
<1>2. MergedNote(M, n + 1) = [commitment |-> MaxNotes + n, amount |-> M[n + 1]]
  BY <1>0 DEF MergedNote
<1>3. WalletAt(p, M, n + 1) = rest \cup {MergedNote(M, n + 1)}
  BY <1>0 DEF WalletAt
<1>4. Inputs(p, M, n) = {FirstInput(p, M, n), NoteAt(p[n + 1])}
  BY <1>0 DEF Inputs
<1>5. WalletAt(p, M, n) \ Inputs(p, M, n) = rest
  <2>1. CASE n = 1
    <3>1. FirstOf(p, 1) = {p[1]}
      <4>1. 1..1 = {1}
        OBVIOUS
      <4> QED BY <4>1 DEF FirstOf
    <3>2. FirstOf(p, n + 1) = {p[1], p[n + 1]}
      BY <1>1, <2>1, <3>1
    <3>3. WalletAt(p, M, n) = {NoteAt(i) : i \in 1..N}
      BY <2>1 DEF WalletAt
    <3>4. Inputs(p, M, n) = {NoteAt(p[1]), NoteAt(p[n + 1])}
      BY <1>4, <2>1 DEF FirstInput
    <3>5. \A i, j : NoteAt(i) = NoteAt(j) => i = j
      BY NoteFacts
    <3> QED BY <3>2, <3>3, <3>4, <3>5
  <2>2. CASE n # 1
    <3>1. WalletAt(p, M, n) = {NoteAt(i) : i \in (1..N) \ FirstOf(p, n)} \cup {MergedNote(M, n)}
      BY <2>2 DEF WalletAt
    <3>2. Inputs(p, M, n) = {MergedNote(M, n), NoteAt(p[n + 1])}
      BY <1>4, <2>2 DEF FirstInput
    <3>3. \A i, j : NoteAt(i) = NoteAt(j) => i = j
      BY NoteFacts
    <3>4. \A i \in 1..N : MergedNote(M, n) # NoteAt(i)
      BY <1>0, <2>2, MergedDiffers
    <3> QED BY <1>1, <3>1, <3>2, <3>3, <3>4
  <2> QED BY <2>1, <2>2
<1> QED BY <1>2, <1>3, <1>5

-----------------------------------------------------------------------------
(* The invariant.                                                          *)

\* How far the session is with the plan: m of its transactions are on the
\* chain.
Progress(r, M, m) ==
  /\ m \in 0..StepCount(r.picks)
  /\ sent \in Seq({TxAt(r, M, n) : n \in Nat}) /\ Len(sent) = m
  /\ \A n \in 1..m : sent[n] = TxAt(r, M, n)
  /\ phase = "running" => /\ index = m + 1 /\ m < StepCount(r.picks)
                          /\ wallet = WalletAt(r.picks, M, index)

\* The states of a session.
SessionInv ==
  /\ IsWallet /\ amount \in Nat /\ amount > 0 /\ target \in {"transfer", "withdraw"}
  /\ \/ /\ phase = "new" /\ steps = <<>> /\ index = 1 /\ sent = <<>>
        /\ wallet = {NoteAt(i) : i \in 1..Len(values)}
     \/ phase = "refused" /\ steps = <<>> /\ sent = <<>>
     \/ /\ phase \in {"running", "done", "abandoned"}
        /\ \E r, M : PlanShape(r, M) /\ \E m : Progress(r, M, m)

\* A session starts in these states.
LEMMA SessionInitially == PlannerInit => SessionInv
<1> SUFFICES ASSUME PlannerInit PROVE SessionInv
  OBVIOUS
<1>1. IsWallet
  BY WalletsSorted DEF PlannerInit
<1>2. MaxNotes * MaxValue + 1 \in Nat
  <2>1. \A a, b \in Nat : a * b + 1 \in Nat
    OBVIOUS
  <2> QED BY <2>1, BoundsAreNatural
<1>3. amount \in Nat /\ amount > 0
  BY <1>2 DEF PlannerInit
<1>4. wallet = {NoteAt(i) : i \in 1..Len(values)}
  BY <1>1, WalletFacts DEF PlannerInit
<1> QED BY <1>1, <1>3, <1>4 DEF SessionInv, PlannerInit

\* What a step that leaves the wallet's notes and the amount alone keeps.
LEMMA ShapeKept ==
  ASSUME UNCHANGED <<values, amount, target>>, NEW r, NEW M
  PROVE  /\ steps' = steps /\ PlanShape(r, M) => PlanShape(r, M)'
         /\ IsWallet => IsWallet'
         /\ \A n : TxAt(r, M, n)' = TxAt(r, M, n) /\ WalletAt(r.picks, M, n)' = WalletAt(r.picks, M, n)
<1>1. values' = values /\ amount' = amount /\ target' = target
  OBVIOUS
<1>2. \A i : NoteAt(i)' = NoteAt(i)
  BY <1>1 DEF NoteAt
<1>3. \A n : StepAt(r, M, n)' = StepAt(r, M, n)
  BY <1>1 DEF StepAt, NoteAt
<1>4. steps' = steps /\ PlanShape(r, M) => PlanShape(r, M)'
  BY <1>1, <1>3 DEF PlanShape
<1>5. \A n : Inputs(r.picks, M, n)' = Inputs(r.picks, M, n)
  BY <1>1 DEF Inputs, FirstInput, NoteAt, MergedNote
<1>6. \A n : TxAt(r, M, n)' = TxAt(r, M, n)
  BY <1>1, <1>5 DEF TxAt
<1>7. \A n : WalletAt(r.picks, M, n)' = WalletAt(r.picks, M, n)
  BY <1>1, <1>2 DEF WalletAt, MergedNote
<1>8. IsWallet => IsWallet'
  BY <1>1 DEF IsWallet
<1> QED BY <1>4, <1>6, <1>7, <1>8

\* The transaction of the next step goes to the chain.
LEMMA ProgressAppend ==
  ASSUME IsWallet, UNCHANGED <<values, amount, target, steps>>, NEW r, NEW M, PlanShape(r, M),
         NEW m, Progress(r, M, m), m < StepCount(r.picks),
         sent' = Append(sent, TxAt(r, M, m + 1)),
         phase' = "running" => /\ index' = m + 2 /\ m + 1 < StepCount(r.picks)
                              /\ wallet' = WalletAt(r.picks, M, m + 2)
  PROVE  PlanShape(r, M)' /\ Progress(r, M, m + 1)'
<1>1. /\ PlanShape(r, M)'
      /\ \A n : TxAt(r, M, n)' = TxAt(r, M, n) /\ WalletAt(r.picks, M, n)' = WalletAt(r.picks, M, n)
  BY ShapeKept
<1> DEFINE T == {TxAt(r, M, n) : n \in Nat}
<1>2. m \in 0..StepCount(r.picks) /\ StepCount(r.picks) \in Nat /\ m \in Nat
      /\ sent \in Seq(T) /\ Len(sent) = m /\ \A n \in 1..m : sent[n] = TxAt(r, M, n)
  BY ShapeFacts DEF Progress
<1>3. m + 1 \in 0..StepCount(r.picks) /\ m + 1 \in Nat /\ (m + 1) + 1 = m + 2
  BY <1>2
<1>4. TxAt(r, M, m + 1) \in T
  BY <1>3
<1> HIDE DEF T
<1>5. /\ sent' \in Seq(T) /\ Len(sent') = m + 1 /\ sent'[m + 1] = TxAt(r, M, m + 1)
      /\ \A n \in 1..m : sent'[n] = sent[n]
  BY <1>2, <1>4
<1>6. \A n \in 1..(m + 1) : sent'[n] = TxAt(r, M, n)'
  <2> SUFFICES ASSUME NEW n \in 1..(m + 1) PROVE sent'[n] = TxAt(r, M, n)
    BY <1>1
  <2>1. n \in 1..m \/ n = m + 1
    BY <1>2
  <2> QED BY <1>2, <1>5, <2>1
<1>7. T = {TxAt(r, M, n)' : n \in Nat}
  BY <1>1 DEF T
<1>8. phase' = "running" => /\ index' = (m + 1) + 1 /\ m + 1 < StepCount(r.picks)
                           /\ wallet' = WalletAt(r.picks, M, index)'
  BY <1>1, <1>3 DEF WalletAt
<1>9. Progress(r, M, m + 1)'
  BY <1>3, <1>5, <1>6, <1>7, <1>8 DEF Progress
<1> QED BY <1>1, <1>9

\* The session at work: the step is next, it resolves, and its transaction is
\* the one of the plan.
LEMMA RunningFactsOf ==
  ASSUME SessionInv, phase = "running"
  PROVE  /\ IsWallet
         /\ \E r, M, m :
              /\ PlanShape(r, M) /\ Progress(r, M, m) /\ m \in Nat /\ m < StepCount(r.picks)
              /\ index = m + 1 /\ index \in 1..StepCount(r.picks) /\ Len(steps) = StepCount(r.picks)
              /\ steps[index] = StepAt(r, M, index)
              /\ wallet = WalletAt(r.picks, M, index)
              /\ Resolves(steps[index]) /\ Resolved(steps[index]) = Inputs(r.picks, M, index)
              /\ Materialize(steps[index]) = TxAt(r, M, index)
              /\ steps[index].final <=> index = StepCount(r.picks)
<1>1. IsWallet /\ \E r, M : PlanShape(r, M) /\ \E m : Progress(r, M, m)
  BY DEF SessionInv
<1>2. PICK r, M : PlanShape(r, M) /\ \E m : Progress(r, M, m)
  BY <1>1
<1>3. PICK m : Progress(r, M, m)
  BY <1>2
<1>4. /\ m \in 0..StepCount(r.picks) /\ index = m + 1 /\ m < StepCount(r.picks)
      /\ wallet = WalletAt(r.picks, M, index)
  BY <1>3 DEF Progress
<1>5. /\ StepCount(r.picks) \in Nat /\ Len(steps) = StepCount(r.picks)
      /\ \A n \in 1..StepCount(r.picks) : steps[n] = StepAt(r, M, n)
  BY <1>1, <1>2, ShapeFacts
<1>6. m \in Nat /\ index \in 1..StepCount(r.picks)
  BY <1>4, <1>5
<1>7. steps[index] = StepAt(r, M, index)
  BY <1>5, <1>6
<1>8. Resolves(steps[index]) /\ Resolved(steps[index]) = Inputs(r.picks, M, index)
  BY <1>1, <1>2, <1>4, <1>6, <1>7, StepResolves
<1>9. /\ Materialize(steps[index]) = TxAt(r, M, index)
      /\ steps[index].final <=> index = StepCount(r.picks)
  BY <1>1, <1>2, <1>4, <1>6, <1>7, StepMaterializes
<1> QED BY <1>1, <1>2, <1>3, <1>4, <1>5, <1>6, <1>7, <1>8, <1>9

\* Setup plans with the selection, or refuses.
LEMMA SetupKeeps == SessionInv /\ Setup => SessionInv'
<1> SUFFICES ASSUME SessionInv, Setup PROVE SessionInv'
  OBVIOUS
<1>1. /\ phase = "new" /\ UNCHANGED <<values, amount, target, wallet, index, sent>>
      /\ UNCHANGED <<values, amount, target>>
  BY DEF Setup
<1>2. /\ IsWallet /\ amount \in Nat /\ amount > 0 /\ target \in {"transfer", "withdraw"}
      /\ steps = <<>> /\ index = 1 /\ sent = <<>> /\ wallet = {NoteAt(i) : i \in 1..Len(values)}
  BY <1>1 DEF SessionInv
<1>3. IsWallet'
  BY <1>1, <1>2, ShapeKept
<1> DEFINE f == FindCombination(amount)
           r == Combination(amount)
<1>6. r.picks = f.picks /\ r.excess = f.excess /\ (~r.change => r.excess = 0)
  BY DEF Combination
<1>4. CASE Plannable(r)
  <2>1. phase' = "running" /\ steps' = PlanOf(r)
    BY <1>4 DEF Setup
  <2>2. Usable(amount, r)
    <3>1. Usable(amount, f) \/ f = Miss
      BY <1>2, FindUsable
    <3>2. f # Miss
      BY <1>4, <1>6 DEF Plannable, Found, Miss
    <3> HIDE DEF f, r
    <3> QED BY <1>6, <3>1, <3>2 DEF Usable
  <2>3. PICK q : q = r
    OBVIOUS
  <2> HIDE DEF r
  <2>4. PICK M : PlanShape(q, M)'
    BY <1>1, <1>2, <1>6, <2>1, <2>2, <2>3, PlanIsShaped
  <2>5. StepCount(q.picks) \in Nat /\ StepCount(q.picks) >= 1
    <3>1. Len(q.picks) \in Nat /\ Len(q.picks) >= 1
      BY <2>2, <2>3 DEF Usable, IsPicks
    <3>2. \A k \in Nat : k >= 1 /\ k # 1 => k - 1 \in Nat /\ k - 1 >= 1
      OBVIOUS
    <3>3. 1 \in Nat /\ 1 >= 1
      OBVIOUS
    <3> QED BY <3>1, <3>2, <3>3 DEF StepCount
  <2>6. Progress(q, M, 0)'
    <3>1. sent' = <<>> /\ index' = 1 /\ wallet' = {NoteAt(i)' : i \in 1..Len(values')}
      BY <1>1, <1>2 DEF NoteAt
    <3>2. WalletAt(q.picks, M, 1)' = {NoteAt(i)' : i \in 1..Len(values')}
      BY DEF WalletAt
    <3>3. 0 \in 0..StepCount(q.picks) /\ 0 < StepCount(q.picks) /\ 0 + 1 = 1
      BY <2>5
    <3>4. <<>> \in Seq({TxAt(q, M, n)' : n \in Nat}) /\ Len(<<>>) = 0
      OBVIOUS
    <3> QED BY <2>1, <3>1, <3>2, <3>3, <3>4 DEF Progress
  <2> QED BY <1>1, <1>2, <1>3, <2>1, <2>4, <2>6 DEF SessionInv
<1>5. CASE ~Plannable(r)
  <2>1. phase' = "refused" /\ steps' = steps
    BY <1>5 DEF Setup
  <2> QED BY <1>1, <1>2, <1>3, <2>1 DEF SessionInv
<1> QED BY <1>4, <1>5

\* A step finds its inputs, sends its transaction and leaves the merged note.
LEMMA RunStepKeeps == SessionInv /\ RunStep => SessionInv'
<1> SUFFICES ASSUME SessionInv, RunStep PROVE SessionInv'
  OBVIOUS
<1>1. phase = "running" /\ UNCHANGED <<values, amount, target, steps>>
      /\ UNCHANGED <<values, amount, target>>
  BY DEF RunStep
<1>2. IsWallet /\ amount \in Nat /\ amount > 0 /\ target \in {"transfer", "withdraw"}
  BY DEF SessionInv
<1>3. IsWallet'
  BY <1>1, <1>2, ShapeKept
<1>4. PICK r, M, m :
        /\ PlanShape(r, M) /\ Progress(r, M, m) /\ m \in Nat /\ m < StepCount(r.picks)
        /\ index = m + 1 /\ index \in 1..StepCount(r.picks) /\ Len(steps) = StepCount(r.picks)
        /\ steps[index] = StepAt(r, M, index)
        /\ wallet = WalletAt(r.picks, M, index)
        /\ Resolves(steps[index]) /\ Resolved(steps[index]) = Inputs(r.picks, M, index)
        /\ Materialize(steps[index]) = TxAt(r, M, index)
        /\ steps[index].final <=> index = StepCount(r.picks)
  BY <1>1, RunningFactsOf
<1>5. /\ sent' = Append(sent, TxAt(r, M, m + 1))
      /\ wallet' = (wallet \ Resolved(steps[index])) \cup
                       (IF steps[index].final THEN {}
                        ELSE {[commitment |-> MaxNotes + index, amount |-> steps[index].outputs[1]]})
      /\ index' = index + 1
      /\ phase' = IF index = Len(steps) THEN "done" ELSE "running"
  BY <1>4 DEF RunStep
<1>6. ASSUME phase' = "running"
      PROVE  /\ index' = m + 2 /\ m + 1 < StepCount(r.picks)
             /\ wallet' = WalletAt(r.picks, M, m + 2)
  <2>0. StepCount(r.picks) \in Nat
    BY <1>2, <1>4, ShapeFacts
  <2>1. index # StepCount(r.picks)
    BY <1>4, <1>5, <1>6
  <2>2. index' = m + 2 /\ m + 1 < StepCount(r.picks) /\ index + 1 = m + 2
    BY <1>4, <1>5, <2>0, <2>1
  <2>3. steps[index].outputs[1] = M[index + 1]
    <3>1. /\ Len(r.picks) # 1 => StepCount(r.picks) = Len(r.picks) - 1
          /\ Len(r.picks) = 1 => StepCount(r.picks) = 1
          /\ Len(r.picks) \in Nat
      BY <1>2, <1>4, ShapeFacts
    <3>2. Len(r.picks) # 1
      BY <1>4, <2>2, <3>1
    <3>3. index + 1 # Len(r.picks)
      BY <1>4, <2>1, <3>1, <3>2
    <3>4. StepAt(r, M, index).outputs = <<M[index + 1], 0>>
      BY <3>2, <3>3 DEF StepAt
    <3> QED BY <1>4, <3>4
  <2>4. wallet' = (WalletAt(r.picks, M, index) \ Inputs(r.picks, M, index))
                     \cup {[commitment |-> MaxNotes + index, amount |-> M[index + 1]]}
    BY <1>4, <1>5, <2>1, <2>3
  <2>5. wallet' = WalletAt(r.picks, M, index + 1)
    BY <1>2, <1>4, <2>1, <2>4, WalletStep
  <2> QED BY <2>2, <2>5
<1>7. PlanShape(r, M)' /\ Progress(r, M, m + 1)'
  BY <1>1, <1>2, <1>4, <1>5, <1>6, ProgressAppend
<1>8. phase' \in {"running", "done", "abandoned"}
  BY <1>5
<1> QED BY <1>1, <1>2, <1>3, <1>7, <1>8 DEF SessionInv

\* A step that fails sends nothing and ends the session.
LEMMA StepFailsKeeps == SessionInv /\ StepFails => SessionInv'
<1> SUFFICES ASSUME SessionInv, StepFails PROVE SessionInv'
  OBVIOUS
<1>1. /\ phase = "running" /\ phase' = "abandoned" /\ UNCHANGED <<values, amount, target>>
      /\ steps' = steps /\ sent' = sent
  BY DEF StepFails
<1>2. IsWallet /\ amount \in Nat /\ amount > 0 /\ target \in {"transfer", "withdraw"}
  BY DEF SessionInv
<1>3. PICK r, M, m : PlanShape(r, M) /\ Progress(r, M, m)
  BY <1>1, RunningFactsOf
<1>4. PlanShape(r, M)' /\ IsWallet' /\ \A n : TxAt(r, M, n)' = TxAt(r, M, n)
  BY <1>1, <1>2, <1>3, ShapeKept
<1>5. Progress(r, M, m)'
  BY <1>1, <1>3, <1>4 DEF Progress
<1> QED BY <1>1, <1>2, <1>4, <1>5 DEF SessionInv

\* A step whose confirmation times out has sent its transaction.
LEMMA ConfirmKeeps == SessionInv /\ ConfirmTimesOut => SessionInv'
<1> SUFFICES ASSUME SessionInv, ConfirmTimesOut PROVE SessionInv'
  OBVIOUS
<1>1. /\ phase = "running" /\ phase' = "abandoned" /\ UNCHANGED <<values, amount, target, steps>>
      /\ UNCHANGED <<values, amount, target>>
      /\ sent' = Append(sent, Materialize(steps[index]))
  BY DEF ConfirmTimesOut
<1>2. IsWallet /\ amount \in Nat /\ amount > 0 /\ target \in {"transfer", "withdraw"}
  BY DEF SessionInv
<1>3. PICK r, M, m :
        /\ PlanShape(r, M) /\ Progress(r, M, m) /\ m < StepCount(r.picks) /\ index = m + 1
        /\ Materialize(steps[index]) = TxAt(r, M, index)
  BY <1>1, RunningFactsOf
<1>4. sent' = Append(sent, TxAt(r, M, m + 1)) /\ phase' # "running"
  BY <1>1, <1>3
<1>5. PlanShape(r, M)' /\ Progress(r, M, m + 1)'
  BY <1>1, <1>2, <1>3, <1>4, ProgressAppend
<1>6. IsWallet'
  BY <1>1, <1>2, ShapeKept
<1> QED BY <1>1, <1>2, <1>5, <1>6 DEF SessionInv

\* Stuttering changes nothing.
LEMMA StutterKeeps == SessionInv /\ UNCHANGED plannerVars => SessionInv'
<1> SUFFICES ASSUME SessionInv, UNCHANGED plannerVars PROVE SessionInv'
  OBVIOUS
<1>1. /\ UNCHANGED <<values, amount, target>> /\ steps' = steps /\ sent' = sent
      /\ phase' = phase /\ wallet' = wallet /\ index' = index
  BY DEF plannerVars
<1>2. IsWallet /\ amount \in Nat /\ amount > 0 /\ target \in {"transfer", "withdraw"}
  BY DEF SessionInv
<1>3. IsWallet'
  BY <1>1, <1>2, ShapeKept
<1>4. CASE phase \in {"running", "done", "abandoned"}
  <2>1. PICK r, M : PlanShape(r, M) /\ \E m : Progress(r, M, m)
    BY <1>4 DEF SessionInv
  <2>2. PICK m : Progress(r, M, m)
    BY <2>1
  <2>3. /\ PlanShape(r, M)'
        /\ \A n : TxAt(r, M, n)' = TxAt(r, M, n) /\ WalletAt(r.picks, M, n)' = WalletAt(r.picks, M, n)
    BY <1>1, <2>1, ShapeKept
  <2>4. WalletAt(r.picks, M, index)' = WalletAt(r.picks, M, index)
    <3>1. \A i : NoteAt(i)' = NoteAt(i)
      BY <1>1 DEF NoteAt
    <3> QED BY <1>1, <3>1 DEF WalletAt, MergedNote
  <2>5. Progress(r, M, m)'
    BY <1>1, <2>2, <2>3, <2>4 DEF Progress
  <2> QED BY <1>1, <1>2, <1>3, <1>4, <2>3, <2>5 DEF SessionInv
<1>5. CASE ~(phase \in {"running", "done", "abandoned"})
  <2>1. {NoteAt(i) : i \in 1..Len(values)}' = {NoteAt(i) : i \in 1..Len(values)}
    BY <1>1 DEF NoteAt
  <2> QED BY <1>1, <1>2, <1>3, <1>5, <2>1 DEF SessionInv
<1> QED BY <1>4, <1>5

\* The invariant holds in every state.
LEMMA SessionInvariant == PlannerSpec => []SessionInv
<1>1. SessionInv /\ [PlannerNext]_plannerVars => SessionInv'
  BY SetupKeeps, RunStepKeeps, StepFailsKeeps, ConfirmKeeps, StutterKeeps DEF PlannerNext
<1> QED BY SessionInitially, <1>1, PTL DEF PlannerSpec

-----------------------------------------------------------------------------
(* Selection.                                                              *)

\* Nothing is refused at first.
LEMMA RefusalInitially == PlannerInit => RefusedOnlyIfUncoverable
BY DEF PlannerInit, RefusedOnlyIfUncoverable

\* A refusal stays right.
LEMMA RefusalKept ==
  SessionInv /\ RefusedOnlyIfUncoverable /\ [PlannerNext]_plannerVars => RefusedOnlyIfUncoverable'
<1> SUFFICES ASSUME SessionInv, RefusedOnlyIfUncoverable, [PlannerNext]_plannerVars
             PROVE  RefusedOnlyIfUncoverable'
  OBVIOUS
<1> DEFINE Low == \A S \in SUBSET DOMAIN values :
                    Cardinality(S) <= TransactionLimit => ValueOf(S) < amount
<1>1. IsWallet /\ amount \in Nat /\ amount > 0
  BY DEF SessionInv
<1>2. values' = values /\ amount' = amount
  BY DEF PlannerNext, Setup, RunStep, StepFails, ConfirmTimesOut, plannerVars
<1>3. Low' <=> Low
  <2>1. \A S : ValueOf(S)' = ValueOf(S)
    BY <1>2 DEF ValueOf
  <2> QED BY <1>2, <2>1
<1>4. Plannable(FindCombination(amount)) <=> ~Low
  BY <1>1, PlannableIff, Zenon
<1> HIDE DEF Low
<1>5. CASE Setup
  <2>1. IF Plannable(FindCombination(amount)) THEN phase' = "running" ELSE phase' = "refused"
    <3>1. IF Plannable(Combination(amount)) THEN phase' = "running" ELSE phase' = "refused"
      BY <1>5 DEF Setup
    <3>2. Plannable(Combination(amount)) <=> Plannable(FindCombination(amount))
      BY DEF Plannable, Combination, Found
    <3> QED BY <3>1, <3>2
  <2>2. phase' = "refused" <=> phase' # "new" /\ Low'
    BY <1>3, <1>4, <2>1
  <2> QED BY <2>2 DEF RefusedOnlyIfUncoverable, Low
<1>6. CASE RunStep \/ StepFails \/ ConfirmTimesOut
  <2>1. phase = "running" /\ phase' \in {"running", "done", "abandoned", "stuck"}
    BY <1>6 DEF RunStep, StepFails, ConfirmTimesOut
  <2>2. ~Low
    BY <2>1 DEF RefusedOnlyIfUncoverable, Low
  <2>3. phase' = "refused" <=> phase' # "new" /\ Low'
    BY <1>3, <2>1, <2>2
  <2> QED BY <2>3 DEF RefusedOnlyIfUncoverable, Low
<1>7. CASE UNCHANGED plannerVars
  <2>1. phase = "refused" <=> phase # "new" /\ Low
    BY DEF RefusedOnlyIfUncoverable, Low
  <2>2. phase' = "refused" <=> phase' # "new" /\ Low'
    BY <1>3, <1>7, <2>1 DEF plannerVars
  <2> QED BY <2>2 DEF RefusedOnlyIfUncoverable, Low
<1> QED BY <1>5, <1>6, <1>7 DEF PlannerNext

\* Coin selection (find_combination and plan) is right for every wallet,
\* amount, iteration limit and transaction limit: the exact or least pair, the
\* smallest note, otherwise the fewest notes also when the search is cut off,
\* and an amount is refused only if no choice within the limit covers it.
THEOREM SelectionIsRight == PlannerSpec => []SelectionRight
<1>1. SessionInv /\ RefusedOnlyIfUncoverable => SelectionRight
  BY TiersOptimal, SelectionFewest DEF SessionInv, SelectionRight
<1> QED BY <1>1, SessionInvariant, RefusalInitially, RefusalKept, PTL DEF PlannerSpec

-----------------------------------------------------------------------------
(* What a session spends.                                                  *)

\* The sum of a function with one or two arguments.
LEMMA SumOfOne ==
  ASSUME NEW f, NEW a, DOMAIN f = {a}, f[a] \in Int
  PROVE  SumFunction(f) = f[a]
<1>1. SumFunction(f) = SumOver(f, {a})
  BY SumFunctionIsSumOver
<1>2. IsFiniteSet({a}) /\ {a} \ {a} = {}
  BY FS_Singleton
<1>3. SumOver(f, {a}) = f[a] + SumOver(f, {a} \ {a})
  BY <1>2, SumOverRemove
<1>4. SumOver(f, {}) = 0
  BY <1>2, SumOverUnfold
<1> QED BY <1>1, <1>2, <1>3, <1>4

LEMMA SumOfTwo ==
  ASSUME NEW f, NEW a, NEW b, a # b, DOMAIN f = {a, b}, f[a] \in Int, f[b] \in Int
  PROVE  SumFunction(f) = f[a] + f[b]
<1>1. SumFunction(f) = SumOver(f, {a, b})
  BY SumFunctionIsSumOver
<1>2. IsFiniteSet({a}) /\ IsFiniteSet({b}) /\ {b} \ {b} = {} /\ {a, b} \ {a} = {b}
  BY FS_Singleton
<1>3. IsFiniteSet({a, b})
  <2>1. IsFiniteSet({a} \cup {b})
    BY <1>2, FS_AddElement
  <2>2. {a, b} = {a} \cup {b}
    OBVIOUS
  <2> QED BY <2>1, <2>2
<1>4. SumOver(f, {a, b}) = f[a] + SumOver(f, {a, b} \ {a})
  BY <1>3, SumOverRemove
<1>5. SumOver(f, {b}) = f[b] + SumOver(f, {b} \ {b})
  BY <1>2, SumOverRemove
<1>6. SumOver(f, {}) = 0
  BY <1>2, SumOverUnfold
<1>7. SumOver(f, {b}) = f[b]
  <2>1. SumOver(f, {b} \ {b}) = 0
    BY <1>2, <1>6, Zenon
  <2> QED BY <1>5, <2>1
<1>8. SumOver(f, {a, b} \ {a}) = SumOver(f, {b})
  BY <1>2
<1> QED BY <1>1, <1>4, <1>7, <1>8

\* The inputs of step n bring in what the notes merged so far are worth.
LEMMA InputsSum ==
  ASSUME IsWallet, NEW r, NEW M, PlanShape(r, M), NEW n \in 1..StepCount(r.picks)
  PROVE  SumFunction([x \in Inputs(r.picks, M, n) |-> x.amount])
           = IF n = StepCount(r.picks) THEN M[Len(r.picks)] ELSE M[n + 1]
<1> DEFINE p == r.picks
           K == StepCount(p)
           k == Len(p)
           a == FirstInput(p, M, n)
           b == NoteAt(p[n + 1])
           f == [x \in Inputs(p, M, n) |-> x.amount]
<1>0. /\ k \in Nat /\ k >= 1 /\ IsPicks(p) /\ Distinct(p) /\ K \in Nat /\ MaxNotes \in Nat
      /\ k # 1 => K = k - 1
      /\ k = 1 => K = 1
  BY ShapeFacts DEF PlanShape
<1>1. /\ \A m \in 0..k : M[m] \in Nat
      /\ M[1] = values[p[1]]
      /\ \A m \in 2..k : M[m] = M[m - 1] + values[p[m]]
  BY DEF PlanShape
<1>2. \A m \in 1..k : p[m] \in 1..Len(values) /\ values[p[m]] \in Nat
  BY <1>0, WalletFacts DEF IsPicks
<1>3. a.amount = M[n] /\ n \in 0..k /\ M[n] \in Nat
  <2>1. n \in 0..k
    BY <1>0
  <2>2. a.amount = M[n]
    BY <1>1, NoteFacts, MergedFacts DEF FirstInput
  <2> QED BY <1>1, <2>1, <2>2
<1>4. CASE k = 1
  <2>1. Inputs(p, M, n) = {a}
    BY <1>4 DEF Inputs
  <2>2. n = 1 /\ n = K
    BY <1>0, <1>4
  <2> HIDE DEF a
  <2>3. SumFunction(f) = a.amount
    <3>1. DOMAIN f = {a} /\ f[a] = a.amount
      BY <2>1
    <3> QED BY <1>3, <3>1, SumOfOne
  <2> QED BY <1>3, <1>4, <2>2, <2>3
<1>5. CASE k # 1
  <2>1. Inputs(p, M, n) = {a, b}
    BY <1>5 DEF Inputs
  <2>2. n + 1 \in 2..k /\ (n + 1) - 1 = n /\ n + 1 \in 1..k /\ (n = K => n + 1 = k) /\ 1 \in 1..k /\ n \in Nat /\ n >= 1
    BY <1>0, <1>5
  <2>3. a # b
    <3>1. CASE n = 1
      <4>1. p[1] # p[n + 1]
        BY <2>2, <3>1, <1>0 DEF Distinct
      <4> QED BY <3>1, <4>1, NoteFacts DEF FirstInput
    <3>2. CASE n # 1
      BY <1>2, <2>2, <3>2, MergedDiffers DEF FirstInput
    <3> QED BY <3>1, <3>2
  <2>4. b.amount = values[p[n + 1]] /\ values[p[n + 1]] \in Nat
    BY <1>2, <2>2, NoteFacts
  <2>5. M[n + 1] = M[n] + values[p[n + 1]]
    BY <1>1, <2>2
  <2> HIDE DEF a, b
  <2>6. SumFunction(f) = a.amount + b.amount
    <3>1. DOMAIN f = {a, b} /\ f[a] = a.amount /\ f[b] = b.amount
      BY <2>1
    <3>2. f[a] \in Int /\ f[b] \in Int
      BY <1>3, <2>4, <3>1
    <3> QED BY <2>3, <3>1, <3>2, SumOfTwo
  <2> QED BY <1>3, <2>2, <2>4, <2>5, <2>6
<1> QED BY <1>4, <1>5

\* Every transaction of a plan balances, and only the last one pays.
LEMMA TxBalances ==
  ASSUME IsWallet, amount \in Nat, target \in {"transfer", "withdraw"},
         NEW r, NEW M, PlanShape(r, M), NEW n \in 1..StepCount(r.picks)
  PROVE  LET tx == TxAt(r, M, n)
         IN  /\ SumFunction([x \in tx.inputs |-> x.amount]) + tx.ext = tx.outputs[1] + tx.outputs[2]
             /\ PaidBy(tx) = IF n = StepCount(r.picks) THEN amount ELSE 0
<1> DEFINE K == StepCount(r.picks)
           tx == TxAt(r, M, n)
           s == SumFunction([x \in tx.inputs |-> x.amount])
           top == M[Len(r.picks)]
<1>1. s = IF n = K THEN top ELSE M[n + 1]
  BY InputsSum DEF TxAt
<1>2. top = amount + r.excess /\ r.excess \in Nat
  BY DEF PlanShape
<1>3. n # K => M[n + 1] \in Nat
  <2>1. /\ Len(r.picks) \in Nat /\ Len(r.picks) >= 1 /\ K \in Nat
        /\ Len(r.picks) # 1 => K = Len(r.picks) - 1
        /\ Len(r.picks) = 1 => K = 1
    BY ShapeFacts
  <2> HIDE DEF K
  <2>2. n # K => n + 1 \in 0..Len(r.picks)
    BY <2>1 DEF K
  <2>3. \A m \in 0..Len(r.picks) : M[m] \in Nat
    BY DEF PlanShape
  <2> QED BY <2>2, <2>3
<1>4. CASE n # K
  <2>1. /\ tx.outputs = <<M[n + 1], 0>> /\ tx.owners = <<"self", "self">> /\ tx.ext = 0
    BY <1>4 DEF TxAt
  <2> HIDE DEF tx, K
  <2>2. tx.outputs[1] = M[n + 1] /\ tx.outputs[2] = 0 /\ tx.owners[1] = "self" /\ tx.owners[2] = "self"
    BY <2>1
  <2>3. PaidBy(tx) = 0
    BY <2>1, <2>2 DEF PaidBy
  <2>4. s + tx.ext = tx.outputs[1] + tx.outputs[2]
    BY <1>1, <1>3, <1>4, <2>1, <2>2
  <2> QED BY <1>4, <2>3, <2>4 DEF tx, K
<1>5. CASE n = K /\ target = "withdraw"
  <2>1. /\ tx.outputs = <<r.excess, 0>> /\ tx.owners = <<"self", "self">> /\ tx.ext = -amount
    BY <1>5 DEF TxAt
  <2> HIDE DEF tx, K
  <2>2. tx.outputs[1] = r.excess /\ tx.outputs[2] = 0 /\ tx.owners[1] = "self" /\ tx.owners[2] = "self"
    BY <2>1
  <2>3. PaidBy(tx) = amount
    BY <2>1, <2>2 DEF PaidBy
  <2>4. s + tx.ext = tx.outputs[1] + tx.outputs[2]
    BY <1>1, <1>2, <1>5, <2>1, <2>2
  <2> QED BY <1>5, <2>3, <2>4 DEF tx, K
<1>6. CASE n = K /\ target = "transfer"
  <2>1. /\ tx.outputs = <<amount, r.excess>>
        /\ tx.owners = <<"recipient", IF r.change THEN "self" ELSE "recipient">> /\ tx.ext = 0
        /\ ~r.change => r.excess = 0
    BY <1>6 DEF TxAt, PlanShape
  <2> HIDE DEF tx, K
  <2>2. /\ tx.outputs[1] = amount /\ tx.outputs[2] = r.excess /\ tx.owners[1] = "recipient"
        /\ tx.owners[2] = IF r.change THEN "self" ELSE "recipient"
    BY <2>1
  <2>3. PaidBy(tx) = amount
    BY <1>2, <2>1, <2>2 DEF PaidBy
  <2>4. s + tx.ext = tx.outputs[1] + tx.outputs[2]
    BY <1>1, <1>2, <1>6, <2>1, <2>2
  <2> QED BY <1>6, <2>3, <2>4 DEF tx, K
<1> QED BY <1>4, <1>5, <1>6

\* No note is an input of two steps of a plan.
LEMMA InputsDisjoint ==
  ASSUME IsWallet, NEW r, NEW M, PlanShape(r, M),
         NEW n \in 1..StepCount(r.picks), NEW m \in 1..StepCount(r.picks), n # m
  PROVE  Inputs(r.picks, M, n) \cap Inputs(r.picks, M, m) = {}
<1> DEFINE p == r.picks
           K == StepCount(p)
           k == Len(p)
<1>0. /\ k \in Nat /\ k # 1 /\ IsPicks(p) /\ Distinct(p) /\ K = k - 1 /\ MaxNotes \in Nat
      /\ n \in Nat /\ m \in Nat
  <2>1. /\ k \in Nat /\ k >= 1 /\ IsPicks(p) /\ Distinct(p) /\ K \in Nat /\ MaxNotes \in Nat
        /\ k # 1 => K = k - 1
        /\ k = 1 => K = 1
    BY ShapeFacts DEF PlanShape
  <2> HIDE DEF K, k
  <2>2. k # 1
    BY <2>1 DEF K, k
  <2> QED BY <2>1, <2>2 DEF K
<1>1. \A i \in 1..k : p[i] \in 1..Len(values)
  BY <1>0 DEF IsPicks
<1>2. /\ 1 \in 1..k /\ n + 1 \in 1..k /\ m + 1 \in 1..k /\ n + 1 # m + 1 /\ n + 1 # 1 /\ m + 1 # 1
      /\ (n # 1 => n >= 2) /\ (m # 1 => m >= 2)
      /\ MaxNotes + (n - 1) # MaxNotes + (m - 1)
  BY <1>0
<1>3. p[n + 1] # p[m + 1] /\ p[n + 1] # p[1] /\ p[m + 1] # p[1]
  BY <1>0, <1>2 DEF Distinct
<1>4. /\ Inputs(p, M, n) = {FirstInput(p, M, n), NoteAt(p[n + 1])}
      /\ Inputs(p, M, m) = {FirstInput(p, M, m), NoteAt(p[m + 1])}
  BY <1>0 DEF Inputs
<1>5. \A i, j : NoteAt(i) = NoteAt(j) => i = j
  BY NoteFacts
<1>6. MergedNote(M, n) # MergedNote(M, m)
  BY <1>2, MergedFacts
<1>7. /\ n # 1 => \A i \in 1..Len(values) : MergedNote(M, n) # NoteAt(i)
      /\ m # 1 => \A i \in 1..Len(values) : MergedNote(M, m) # NoteAt(i)
  BY <1>0, <1>2, MergedDiffers
<1>8. FirstInput(p, M, n) # FirstInput(p, M, m)
  BY <1>1, <1>2, <1>6, <1>7 DEF FirstInput
<1>9. FirstInput(p, M, n) # NoteAt(p[m + 1]) /\ FirstInput(p, M, m) # NoteAt(p[n + 1])
  BY <1>1, <1>2, <1>3, <1>5, <1>7 DEF FirstInput
<1> QED BY <1>3, <1>4, <1>5, <1>8, <1>9

\* What the first m transactions of a plan have paid.
LEMMA PaidSoFar ==
  ASSUME NEW m \in Nat, NEW K \in Nat, K >= 1, m <= K, amount \in Nat,
         NEW f, DOMAIN f = 1..m, \A n \in 1..m : f[n] = IF n = K THEN amount ELSE 0
  PROVE  SumFunction(f) = IF m = K THEN amount ELSE 0
<1>1. SumFunction(f) = SumOver(f, 1..m) /\ IsFiniteSet(1..m) /\ \A n \in 1..m : f[n] \in Int
  BY SumFunctionIsSumOver, FS_Interval
<1>2. IsFiniteSet({}) /\ SumOver(f, {}) = 0
  BY <1>1, SumOverUnfold, FS_EmptySet
<1>3. CASE m # K
  <2>1. {} \in SUBSET (1..m) /\ \A n \in (1..m) \ {} : f[n] = 0
    BY <1>3
  <2>2. SumOver(f, 1..m) = SumOver(f, {})
    BY <1>1, <2>1, SumOverSupport
  <2> QED BY <1>1, <1>2, <1>3, <2>2
<1>4. CASE m = K
  <2>1. {K} \in SUBSET (1..m) /\ K \in 1..m /\ f[K] = amount /\ \A n \in (1..m) \ {K} : f[n] = 0
    BY <1>4
  <2>2. SumOver(f, 1..m) = SumOver(f, {K})
    BY <1>1, <2>1, SumOverSupport
  <2>3. IsFiniteSet({K}) /\ {K} \ {K} = {}
    BY FS_Singleton
  <2>4. SumOver(f, {K}) = f[K] + SumOver(f, {K} \ {K})
    BY <2>1, <2>3, SumOverRemove
  <2> QED BY <1>1, <1>2, <1>4, <2>1, <2>2, <2>3, <2>4
<1> QED BY <1>3, <1>4

\* A session spends what its plan says, however far it got.
LEMMA ProgressBalances ==
  ASSUME IsWallet, amount \in Nat, target \in {"transfer", "withdraw"},
         NEW r, NEW M, PlanShape(r, M), NEW m, Progress(r, M, m)
  PROVE  SpendsBalance
<1> DEFINE K == StepCount(r.picks)
<1>0. K \in Nat /\ K >= 1 /\ Len(steps) = K
  BY ShapeFacts
<1>1. /\ m \in Nat /\ m <= K /\ DOMAIN sent = 1..m /\ Len(sent) = m
      /\ \A n \in 1..m : n \in 1..K /\ sent[n] = TxAt(r, M, n)
  BY <1>0 DEF Progress
<1> HIDE DEF K
<1>2. \A n \in 1..m : /\ SumFunction([x \in sent[n].inputs |-> x.amount]) + sent[n].ext
                           = sent[n].outputs[1] + sent[n].outputs[2]
                      /\ PaidBy(sent[n]) = IF n = K THEN amount ELSE 0
  BY <1>1, TxBalances DEF K
<1>3. \A n \in 1..m : sent[n].inputs = Inputs(r.picks, M, n)
  BY <1>1 DEF TxAt
<1>4. \A n, l \in 1..m : n # l => sent[n].inputs \cap sent[l].inputs = {}
  BY <1>1, <1>3, InputsDisjoint DEF K
<1>5. Paid = IF m = K THEN amount ELSE 0
  <2> DEFINE f == [s \in DOMAIN sent |-> PaidBy(sent[s])]
  <2>1. DOMAIN f = 1..m /\ \A n \in 1..m : f[n] = IF n = K THEN amount ELSE 0
    BY <1>1, <1>2
  <2> HIDE DEF f
  <2>2. SumFunction(f) = IF m = K THEN amount ELSE 0
    BY <1>0, <1>1, <2>1, PaidSoFar
  <2> QED BY <2>2 DEF Paid, f
<1>6. m = K <=> sent # <<>> /\ Len(sent) = Len(steps)
  <2>1. m = K => sent # <<>>
    BY <1>0, <1>1
  <2> QED BY <1>0, <1>1, <2>1
<1> QED BY <1>1, <1>2, <1>4, <1>5, <1>6 DEF SpendsBalance

\* A session that sent nothing has paid nothing.
LEMMA NothingSent ==
  ASSUME sent = <<>>
  PROVE  SpendsBalance
<1>1. DOMAIN sent = {}
  OBVIOUS
<1>2. Paid = 0
  <2> DEFINE f == [s \in DOMAIN sent |-> PaidBy(sent[s])]
  <2>1. DOMAIN f = {}
    BY <1>1
  <2> HIDE DEF f
  <2>2. SumFunction(f) = SumOver(f, {})
    BY <2>1, SumFunctionIsSumOver
  <2>3. SumOver(f, {}) = 0
    BY SumOverUnfold, FS_EmptySet
  <2> QED BY <2>2, <2>3 DEF Paid, f
<1> QED BY <1>1, <1>2 DEF SpendsBalance

\* A plan that was accepted runs to its end: whatever steps fail or time out,
\* every input of the next step is found by its amount alone, and the
\* transactions on the chain balance and pay the amount with the last of them.
THEOREM PlansRun == PlannerSpec => []PlanRuns
<1>1. SessionInv => PlanRuns
  <2> SUFFICES ASSUME SessionInv PROVE PlanRuns
    OBVIOUS
  <2>1. SessionNeverStuck
    BY DEF SessionInv, SessionNeverStuck
  <2>2. CASE phase \in {"running", "done", "abandoned"}
    <3>1. PICK r, M, m : PlanShape(r, M) /\ Progress(r, M, m)
      BY <2>2 DEF SessionInv
    <3>2. IsWallet /\ amount \in Nat /\ target \in {"transfer", "withdraw"}
      BY DEF SessionInv
    <3> QED BY <2>1, <3>1, <3>2, ProgressBalances DEF PlanRuns
  <2>3. CASE ~(phase \in {"running", "done", "abandoned"})
    <3>1. sent = <<>>
      BY <2>3 DEF SessionInv
    <3> QED BY <2>1, <3>1, NothingSent DEF PlanRuns
  <2> QED BY <2>2, <2>3
<1> QED BY <1>1, SessionInvariant, PTL

-----------------------------------------------------------------------------
(* The key ceremony.                                                       *)

Exporting == cmd # Nothing /\ cmd.name = "export"

\* A file on disk, and the key built into the verifier contract, are the
\* encodings of the keys they are of.
EncodingsInv ==
    /\ DOMAIN deployed = ToSet(Outputs)
    /\ \A o \in ToSet(Outputs) : deployed[o] # Nothing => deployed[o] = Encoded(o, deployed[o].key)
    /\ verifier # Nothing => verifier.form = G2ToSoroban(Point(verifier.key))
    /\ Exporting => /\ cmd = [name |-> "export", key |-> cmd.key, next |-> cmd.next]
                    /\ cmd.next \in 1 .. 4

\* Without --force there is one key: what the directory holds, what an export
\* under way writes and what was built from the directory are of it.
OneKeyInv ==
    forced = 0 =>
      /\ \A o, q \in ToSet(Outputs) :
           deployed[o] # Nothing /\ deployed[q] # Nothing => deployed[o].key = deployed[q].key
      /\ Exporting => \A o \in ToSet(Outputs) : deployed[o] # Nothing => deployed[o].key = cmd.key
      /\ verifier # Nothing => /\ deployed["vk_json"] # Nothing
                               /\ verifier.key = deployed["vk_json"].key
      /\ bundle # Nothing => /\ deployed["pk"] # Nothing
                             /\ bundle.key = deployed["pk"].key

CeremonyInv == forced \in Nat /\ EncodingsInv /\ OneKeyInv

LEMMA OutputNames ==
    /\ Len(Outputs) = 4
    /\ \A i \in 1 .. 4 : Outputs[i] \in ToSet(Outputs)
    /\ ToSet(Outputs) = {"pk", "vk_json", "vk_soroban", "vk_const"}
<1>1. Len(Outputs) = 4 /\ DOMAIN Outputs = 1 .. 4
  BY DEF Outputs
<1>2. \A i \in 1 .. 4 : i = 1 \/ i = 2 \/ i = 3 \/ i = 4
  OBVIOUS
<1>3. Outputs[1] = "pk" /\ Outputs[2] = "vk_json" /\ Outputs[3] = "vk_soroban" /\ Outputs[4] = "vk_const"
  BY DEF Outputs
<1>4. ToSet(Outputs) = {Outputs[i] : i \in 1 .. 4}
  BY <1>1 DEF ToSet
<1> QED BY <1>1, <1>2, <1>3, <1>4

\* A file that was written exists, whatever key it is of.
LEMMA EncodedExists ==
    ASSUME NEW o, NEW k PROVE Encoded(o, k) # Nothing /\ Encoded(o, k).key = k
<1> DEFINE form == CASE o = "vk_json"                    -> G2ToSnarkjs(Point(k))
                     [] o \in {"vk_soroban", "vk_const"} -> G2ToSoroban(Point(k))
                     [] o = "pk"                         -> Point(k)
<1>1. Encoded(o, k) = [key |-> k, form |-> form]
  BY DEF Encoded
<1> HIDE DEF form
<1>2. "key" \in DOMAIN Encoded(o, k) /\ Encoded(o, k).key = k
  BY <1>1
<1>3. DOMAIN Nothing = {}
  BY DEF Nothing
<1> QED BY <1>2, <1>3

LEMMA CeremonyStarts == CeremonyInit => CeremonyInv
  BY OutputNames DEF CeremonyInit, CeremonyInv, EncodingsInv, OneKeyInv, Exporting

LEMMA ExportStartKeeps ==
    ASSUME CeremonyInv, NEW i \in Zkeys, NEW force \in BOOLEAN, ExportStart(i, force)
    PROVE  CeremonyInv'
<1>1. /\ cmd' = [name |-> "export", key |-> zkey[i], next |-> 1]
      /\ UNCHANGED <<deployed, verifier, bundle>>
      /\ forced' = forced + (IF force THEN 1 ELSE 0)
      /\ \A o \in ToSet(Outputs) : OutputAllowed(deployed[o], force)
  BY DEF ExportStart
<1>2. /\ cmd'.next = 1 /\ cmd'.key = zkey[i]
      /\ cmd' = [name |-> "export", key |-> cmd'.key, next |-> cmd'.next]
  BY <1>1
<1>3. forced' \in Nat /\ EncodingsInv'
  BY <1>1, <1>2 DEF CeremonyInv, EncodingsInv, Exporting
<1>4. CASE force
  <2>1. forced' # 0
    BY <1>1, <1>4 DEF CeremonyInv
  <2> QED BY <1>3, <2>1 DEF CeremonyInv, OneKeyInv
<1>5. CASE ~force
  <2>1. forced' = forced /\ \A o \in ToSet(Outputs) : deployed[o] = Nothing
    BY <1>1, <1>5 DEF CeremonyInv, OutputAllowed
  <2> QED BY <1>1, <1>3, <2>1 DEF CeremonyInv, OneKeyInv
<1> QED BY <1>4, <1>5

LEMMA ExportWriteKeeps ==
    ASSUME CeremonyInv, ExportWrite PROVE CeremonyInv'
<1> DEFINE q == Outputs[cmd.next]
           x == Encoded(q, cmd.key)
<1>1. /\ Exporting /\ cmd.next \in 1 .. 4
      /\ deployed' = [deployed EXCEPT ![q] = x]
      /\ cmd' = IF cmd.next < Len(Outputs) THEN [cmd EXCEPT !.next = @ + 1] ELSE Nothing
      /\ UNCHANGED <<forced, verifier, bundle>>
  BY DEF ExportWrite, CeremonyInv, EncodingsInv, Exporting
<1>2. q \in ToSet(Outputs)
  BY <1>1, OutputNames
<1>3. x # Nothing /\ x.key = cmd.key
  BY EncodedExists
<1>4. x = Encoded(q, x.key)
  BY <1>3
<1> HIDE DEF x, q
<1>5. /\ DOMAIN deployed' = ToSet(Outputs) /\ deployed'[q] = x
      /\ \A o \in ToSet(Outputs) : o # q => deployed'[o] = deployed[o]
  BY <1>1, <1>2 DEF CeremonyInv, EncodingsInv
<1>6. Exporting' => /\ cmd'.next \in 1 .. 4 /\ cmd'.key = cmd.key
                    /\ cmd' = [name |-> "export", key |-> cmd'.key, next |-> cmd'.next]
  <2>1. CASE cmd.next < Len(Outputs)
    <3>1. cmd' = [cmd EXCEPT !.next = cmd.next + 1]
      BY <1>1, <2>1
    <3>2. cmd = [name |-> "export", key |-> cmd.key, next |-> cmd.next]
      BY <1>1 DEF CeremonyInv, EncodingsInv
    <3>3. cmd' = [name |-> "export", key |-> cmd.key, next |-> cmd.next + 1]
      BY <3>1, <3>2
    <3>4. cmd'.key = cmd.key /\ cmd'.next = cmd.next + 1
      BY <3>3
    <3>5. cmd.next + 1 \in 1 .. 4
      BY <1>1, <2>1, OutputNames
    <3> QED BY <3>3, <3>4, <3>5
  <2>2. CASE ~(cmd.next < Len(Outputs))
    <3>1. cmd' = Nothing
      BY <1>1, <2>2
    <3> QED BY <3>1 DEF Exporting
  <2> QED BY <2>1, <2>2
<1>7. EncodingsInv'
  BY <1>1, <1>4, <1>5, <1>6 DEF CeremonyInv, EncodingsInv
<1>8. OneKeyInv'
  <2> SUFFICES ASSUME forced = 0 PROVE OneKeyInv'
    BY <1>1 DEF OneKeyInv
  <2>1. \A o \in ToSet(Outputs) : deployed'[o] # Nothing => deployed'[o].key = cmd.key
    BY <1>1, <1>3, <1>5 DEF CeremonyInv, OneKeyInv
  <2>2. "pk" \in ToSet(Outputs) /\ "vk_json" \in ToSet(Outputs)
    BY OutputNames
  <2>3. verifier # Nothing => deployed'["vk_json"] # Nothing /\ verifier.key = cmd.key
    BY <1>1, <1>3, <1>5, <2>2 DEF CeremonyInv, OneKeyInv
  <2>4. bundle # Nothing => deployed'["pk"] # Nothing /\ bundle.key = cmd.key
    BY <1>1, <1>3, <1>5, <2>2 DEF CeremonyInv, OneKeyInv
  <2> QED BY <1>1, <1>6, <2>1, <2>2, <2>3, <2>4 DEF OneKeyInv
<1> QED BY <1>1, <1>7, <1>8 DEF CeremonyInv

LEMMA BuildVerifierKeeps ==
    ASSUME CeremonyInv, BuildVerifier PROVE CeremonyInv'
<1> DEFINE j == deployed["vk_json"]
<1>1. /\ j # Nothing
      /\ verifier' = [key |-> j.key, form |-> G2FromJson(j.form)]
      /\ UNCHANGED <<cmd, deployed, forced, bundle>>
  BY DEF BuildVerifier
<1>2. verifier'.key = j.key /\ verifier'.form = G2FromJson(j.form)
  BY <1>1
<1>3. j.form = G2ToSnarkjs(Point(j.key))
  <2>1. j = Encoded("vk_json", j.key)
    BY <1>1, OutputNames DEF CeremonyInv, EncodingsInv
  <2>2. Encoded("vk_json", j.key) = [key |-> j.key, form |-> G2ToSnarkjs(Point(j.key))]
    BY DEF Encoded
  <2> HIDE DEF j
  <2>3. Encoded("vk_json", j.key).form = G2ToSnarkjs(Point(j.key))
    BY <2>2
  <2> QED BY <2>1, <2>3
<1> HIDE DEF j
<1>4. \A p : G2FromJson(G2ToSnarkjs(p)) = G2ToSoroban(p)
  BY DEF G2FromJson, G2ToSnarkjs, G2ToSoroban
<1>5. verifier'.form = G2ToSoroban(Point(verifier'.key))
  BY <1>2, <1>3, <1>4
<1>6. EncodingsInv'
  BY <1>1, <1>5 DEF CeremonyInv, EncodingsInv, Exporting
<1>7. OneKeyInv'
  BY <1>1, <1>2 DEF CeremonyInv, OneKeyInv, Exporting, j
<1> QED BY <1>1, <1>6, <1>7 DEF CeremonyInv

LEMMA CeremonyStep == CeremonyInv /\ [CeremonyNext]_ceremonyVars => CeremonyInv'
<1> SUFFICES ASSUME CeremonyInv, [CeremonyNext]_ceremonyVars PROVE CeremonyInv'
  OBVIOUS
<1>1. ASSUME UNCHANGED <<deployed, forced, verifier, bundle>>, ~Exporting' \/ cmd' = cmd
      PROVE  CeremonyInv'
  BY <1>1 DEF CeremonyInv, EncodingsInv, OneKeyInv, Exporting
<1>2. CASE UNCHANGED ceremonyVars
  BY <1>1, <1>2 DEF ceremonyVars
<1>3. CASE Recompile
  BY <1>1, <1>3 DEF Recompile
<1>4. ASSUME NEW o \in Zkeys, NEW force \in BOOLEAN, CeremonySetup(o, force) PROVE CeremonyInv'
  <2>1. cmd'.name = "verify"
    BY <1>4 DEF CeremonySetup
  <2> QED BY <1>1, <1>4, <2>1 DEF CeremonySetup, Exporting
<1>5. ASSUME NEW i \in Zkeys, NEW o \in Zkeys, NEW force \in BOOLEAN, Preverify(i, o, force)
      PROVE  CeremonyInv'
  <2>1. cmd'.name = "contribute"
    BY <1>5 DEF Preverify
  <2> QED BY <1>1, <1>5, <2>1 DEF Preverify, Exporting
<1>6. ASSUME NEW i \in Zkeys, NEW o \in Zkeys, NEW force \in BOOLEAN, Finalize(i, o, force)
      PROVE  CeremonyInv'
  BY <1>1, <1>6 DEF Finalize
<1>7. CASE Contribute
  <2>1. cmd'.name = "verify"
    BY <1>7 DEF Contribute
  <2> QED BY <1>1, <1>7, <2>1 DEF Contribute, Exporting
<1>8. CASE Verify \/ Interrupt
  BY <1>1, <1>8 DEF Verify, Interrupt, Exporting
<1>9. CASE BuildWeb
  <2>1. /\ deployed["pk"] # Nothing /\ bundle' = deployed["pk"]
        /\ UNCHANGED <<cmd, deployed, forced, verifier>>
    BY <1>9 DEF BuildWeb
  <2> QED BY <2>1 DEF CeremonyInv, EncodingsInv, OneKeyInv, Exporting
<1> QED
  BY <1>2, <1>3, <1>4, <1>5, <1>6, <1>7, <1>8, <1>9, ExportStartKeeps, ExportWriteKeeps,
     BuildVerifierKeeps DEF CeremonyNext

LEMMA KeysFromCeremonyInv == CeremonyInv => KeysAgree
<1> SUFFICES ASSUME CeremonyInv PROVE KeysAgree
  OBVIOUS
<1>1. DeployedKeysAgree
  <2>1. "pk" \in ToSet(Outputs) /\ "vk_json" \in ToSet(Outputs)
    BY OutputNames
  <2> QED BY <2>1 DEF CeremonyInv, OneKeyInv, DeployedKeysAgree
<1>2. VerifierEncodingsAgree
  <2> DEFINE s == deployed["vk_soroban"]
  <2> SUFFICES ASSUME verifier # Nothing, s # Nothing, verifier.key = s.key
               PROVE  verifier.form = s.form
    BY DEF VerifierEncodingsAgree
  <2>1. s = Encoded("vk_soroban", s.key)
    BY OutputNames DEF CeremonyInv, EncodingsInv
  <2>2. Encoded("vk_soroban", s.key) = [key |-> s.key, form |-> G2ToSoroban(Point(s.key))]
    BY DEF Encoded
  <2>3. verifier.form = G2ToSoroban(Point(verifier.key))
    BY DEF CeremonyInv, EncodingsInv
  <2> HIDE DEF s
  <2>4. Encoded("vk_soroban", s.key).form = G2ToSoroban(Point(s.key))
    BY <2>2
  <2> QED BY <2>1, <2>3, <2>4
<1> QED BY <1>1, <1>2 DEF KeysAgree

\* The wallet's proving key and the verifier contract's key are the two halves
\* of one key as long as no export was forced, and the verifier contract holds
\* the bytes the export wrote for its key, whatever commands of the ceremony
\* were interrupted or repeated, for every number of zkeys and contributions.
THEOREM CeremonyKeysAgree == CeremonySpec => []KeysAgree
<1>1. CeremonySpec => []CeremonyInv
  BY CeremonyStarts, CeremonyStep, PTL DEF CeremonySpec
<1> QED
  BY <1>1, KeysFromCeremonyInv, PTL

-----------------------------------------------------------------------------
(* The build of the circuits.                                              *)

Versions == [Sources -> Nat]
Files    == Versions \cup {Missing, Partial}
Phases   == {"parsed", "write_r1cs", "write_sym", "compile_wasm", "publish_r1cs",
             "publish_wasm", "check_keys", "write_keys"}
Results  == {"none", "ok", "failed", "crashed"}

IdleBuilds    == [pc : {"idle"}, last : Results, read : Files]
RunningBuilds == [pc : Phases, read : Versions, regen : BOOLEAN, wasm : BOOLEAN,
                  setup : Nat, next : 1 .. 4]

Marks == [{"torn", "unpublished", "keyFailed", "regen", "raced"} -> BOOLEAN]

BuildTypes ==
    /\ src \in Versions /\ lock \in Nat
    /\ out \in [r1cs : Files, sym : Files, wasm : Files]
    /\ pub \in [r1cs : Files, wasm : Files]
    /\ keys \in [ToSet(KeyFiles) -> Nat]
    /\ setups \in Nat
    /\ build \in IdleBuilds \cup RunningBuilds
    /\ marks \in Marks

\* Between the R1CS and the WASM of a compilation the R1CS is the new one.
\* Elsewhere the two belong together, unless a compilation was torn or its WASM
\* removed; then only a build that knows its WASM is missing goes on.
PairInv ==
    /\ build.pc \in {"write_sym", "compile_wasm"} => out.r1cs = build.read
    /\ build.pc \notin {"write_sym", "compile_wasm"} /\ ~marks.torn
         => out.r1cs = out.wasm \/ out.wasm = Missing
    /\ build.pc \in Phases \ {"publish_r1cs"} => build.wasm
    /\ build.pc \in {"publish_r1cs", "publish_wasm", "check_keys", "write_keys"}
         => \/ ~build.wasm
            \/ marks.torn
            \/ out.r1cs = out.wasm /\ out.r1cs \notin {Missing, Partial}
    /\ ~marks.torn => out.r1cs # Partial
    /\ build.pc = "publish_wasm" => pub.r1cs = out.r1cs
    /\ build.pc \in {"check_keys", "write_keys"} /\ ~marks.unpublished
         => pub.r1cs = out.r1cs /\ pub.wasm = out.wasm
    /\ Built /\ ~marks.torn => out.r1cs = out.wasm /\ out.r1cs \notin {Missing, Partial}
    /\ Built /\ ~marks.unpublished => pub.r1cs = out.r1cs /\ pub.wasm = out.wasm

\* The key files are written in one order, so the last essential one is there
\* only when the others are, of the same setup.
KeysInv ==
    /\ build.pc # "idle" /\ build.regen => marks.regen
    /\ ~marks.keyFailed /\ ~marks.regen =>
         /\ keys["vk_soroban"] # 0 => /\ keys["proving_key"] = keys["vk_soroban"]
                                      /\ keys["vk_json"] = keys["vk_soroban"]
         /\ build.pc = "write_keys" =>
              /\ build.next <= 3 => keys["vk_soroban"] = 0
              /\ build.next >= 2 => keys["proving_key"] = build.setup
              /\ build.next >= 3 => keys["vk_json"] = build.setup

\* The R1CS is of the entry point as it is, unless that file is newer; a build
\* compiles, or finds compiled, what it read.
EntryInv ==
    ~marks.raced =>
      /\ out.r1cs \notin {Missing, Partial} /\ "policy_tx_2_2" \notin newer
           => out.r1cs["policy_tx_2_2"] = src["policy_tx_2_2"]
      /\ build.pc \in {"parsed", "write_r1cs", "write_sym"}
           => build.read["policy_tx_2_2"] = src["policy_tx_2_2"]
      /\ out.r1cs # Partial /\ (build.pc \in Phases \ {"parsed", "write_r1cs"} \/ Built)
           => out.r1cs["policy_tx_2_2"] = build.read["policy_tx_2_2"]

BuildInv == BuildTypes /\ PairInv /\ KeysInv /\ EntryInv

LEMMA MarksAsRecord ==
    Marks = [torn : BOOLEAN, unpublished : BOOLEAN, keyFailed : BOOLEAN, regen : BOOLEAN,
             raced : BOOLEAN]
  BY DEF Marks

LEMMA KeyFileNames ==
    /\ Len(KeyFiles) = 4
    /\ ToSet(KeyFiles) = {"proving_key", "vk_json", "vk_soroban", "vk_const"}
    /\ KeyFiles[1] = "proving_key" /\ KeyFiles[2] = "vk_json"
    /\ KeyFiles[3] = "vk_soroban" /\ KeyFiles[4] = "vk_const"
<1>1. Len(KeyFiles) = 4 /\ DOMAIN KeyFiles = 1 .. 4
  BY DEF KeyFiles
<1>2. \A i \in 1 .. 4 : i = 1 \/ i = 2 \/ i = 3 \/ i = 4
  OBVIOUS
<1>3. /\ KeyFiles[1] = "proving_key" /\ KeyFiles[2] = "vk_json"
      /\ KeyFiles[3] = "vk_soroban" /\ KeyFiles[4] = "vk_const"
  BY DEF KeyFiles
<1>4. ToSet(KeyFiles) = {KeyFiles[i] : i \in 1 .. 4}
  BY <1>1 DEF ToSet
<1> QED BY <1>1, <1>2, <1>3, <1>4

\* The dependency scan starts from the entry point.
LEMMA EntryPointIsScanned == "policy_tx_2_2" \in CircomFiles
<1>1. Text["policy_tx_2_2"] = <<Pragma, Include("policyTransaction"), Main>>
  BY DEF Text
<1>2. Main \in ToSet(Text["policy_tx_2_2"])
  <2> DEFINE t == <<Pragma, Include("policyTransaction"), Main>>
  <2>1. DOMAIN t = 1 .. 3 /\ t[3] = Main
    OBVIOUS
  <2> HIDE DEF t
  <2>2. t[3] \in ToSet(t)
    BY <2>1 DEF ToSet
  <2> QED BY <1>1, <2>1, <2>2 DEF t
<1> QED BY <1>2 DEF CircomFiles, Sources

\* What is made from sources is neither missing nor partly written.
LEMMA VersionsAreWhole == \A v \in Versions : v # Missing /\ v # Partial
<1> SUFFICES ASSUME NEW v \in Versions PROVE v # Missing /\ v # Partial
  OBVIOUS
<1>1. DOMAIN v = Sources
  BY DEF Versions
<1>2. Sources # {}
  BY DEF Sources
<1>3. \A x : Sources # {x}
  BY "policy_tx_2_2" # "circomlib" DEF Sources
<1>4. DOMAIN Missing = {}
  BY DEF Missing
<1>5. DOMAIN Partial = {1}
  BY DEF Partial
<1> QED BY <1>1, <1>2, <1>3, <1>4, <1>5

\* What a failed write leaves is the old file or one of the two.
LEMMA LeftOverIsFile ==
    ASSUME NEW left \in {"old", "partial", "gone"}, NEW old \in Files
    PROVE  /\ LeftOver(left, old) \in Files
           /\ left = "old" => LeftOver(left, old) = old
           /\ left = "partial" => LeftOver(left, old) = Partial
           /\ left = "gone" => LeftOver(left, old) = Missing
  BY DEF LeftOver, Files

LEMMA RunningType ==
    ASSUME BuildTypes, build.pc # "idle" PROVE build \in RunningBuilds
  BY DEF BuildTypes, IdleBuilds, RunningBuilds

LEMMA GoKeeps ==
    ASSUME build \in RunningBuilds, NEW pc \in Phases, Go(pc)
    PROVE  /\ build' \in RunningBuilds /\ build'.pc = pc
           /\ build'.read = build.read /\ build'.regen = build.regen /\ build'.wasm = build.wasm
           /\ build'.setup = build.setup /\ build'.next = build.next
  BY DEF Go, RunningBuilds

LEMMA StopKeeps ==
    ASSUME BuildTypes, NEW result \in Results, Stop(result)
    PROVE  /\ build' \in IdleBuilds /\ build'.pc = "idle"
           /\ build'.last = result /\ build'.read = build.read
<1>1. build.read \in Files
  BY DEF BuildTypes, IdleBuilds, RunningBuilds, Files
<1> QED BY <1>1 DEF Stop, IdleBuilds

LEMMA FaultKeeps ==
    ASSUME marks \in Marks, NEW kinds, Fault(kinds)
    PROVE  /\ marks' \in Marks
           /\ marks'.torn <=> marks.torn \/ "torn" \in kinds
           /\ marks'.unpublished <=> marks.unpublished \/ "unpublished" \in kinds
           /\ marks'.keyFailed <=> marks.keyFailed \/ "keyFailed" \in kinds
           /\ marks'.regen <=> marks.regen \/ "regen" \in kinds
           /\ marks'.raced <=> marks.raced \/ "raced" \in kinds
  BY DEF Fault, Marks


LEMMA BuildStarts == BuildInit => BuildInv
<1> SUFFICES ASSUME BuildInit PROVE BuildInv
  OBVIOUS
<1>1. marks \in Marks /\ ~marks.torn /\ ~marks.unpublished /\ ~marks.keyFailed
  BY MarksAsRecord DEF BuildInit
<1>2. build.pc = "idle" /\ build.last = "none" /\ build \in IdleBuilds
  BY DEF BuildInit, Idle, IdleBuilds, Results, Files
<1>3. out.r1cs = Missing /\ out.wasm = Missing /\ Missing # Partial /\ keys["vk_soroban"] = 0
  BY KeyFileNames DEF BuildInit, Missing, Partial
<1>4. BuildTypes
  BY <1>1, <1>2 DEF BuildInit, BuildTypes, Versions, Files
<1> QED
  BY <1>1, <1>2, <1>3, <1>4 DEF BuildInv, PairInv, KeysInv, EntryInv, Built, Phases


LEMMA EditKeeps ==
    ASSUME BuildInv, NEW f \in Sources, Edit(f) PROVE BuildInv'
<1>1. /\ src' = [src EXCEPT ![f] = @ + 1] /\ newer' = newer \cup {f}
      /\ UNCHANGED <<lock, out, pub, keys, setups, build, faults>>
  BY DEF Edit
<1>2. marks' = [marks EXCEPT !.raced = @ \/ build.pc \in {"parsed", "write_r1cs", "write_sym"}]
  BY DEF Edit
<1>3. /\ marks' \in Marks /\ marks'.torn = marks.torn /\ marks'.unpublished = marks.unpublished
      /\ marks'.keyFailed = marks.keyFailed /\ marks'.regen = marks.regen
      /\ ~marks'.raced => ~marks.raced /\ build.pc \notin {"parsed", "write_r1cs", "write_sym"}
  BY <1>2 DEF BuildInv, BuildTypes, Marks
<1>4. src' \in Versions /\ \A g \in Sources : g \notin newer' => src'[g] = src[g]
  BY <1>1 DEF BuildInv, BuildTypes, Versions
<1>5. BuildTypes'
  BY <1>1, <1>3, <1>4 DEF BuildInv, BuildTypes
<1>6. PairInv' /\ KeysInv'
  BY <1>1, <1>3 DEF BuildInv, PairInv, KeysInv, Built
<1>7. EntryInv'
  BY <1>1, <1>3, <1>4 DEF BuildInv, EntryInv, Built, Sources
<1> QED BY <1>5, <1>6, <1>7 DEF BuildInv

LEMMA StartBuildKeeps ==
    ASSUME BuildInv, NEW regen \in BOOLEAN, StartBuild(regen) PROVE BuildInv'
<1>1. /\ build.pc = "idle"
      /\ build' = [pc |-> "parsed", read |-> src', regen |-> regen,
                   wasm |-> TRUE, setup |-> 0, next |-> 1]
      /\ UNCHANGED <<lock, out, pub, keys, setups, faults>>
  BY DEF StartBuild, Running
<1>2. marks' = [marks EXCEPT !.regen = @ \/ regen]
  BY DEF StartBuild
<1>3. /\ marks' \in Marks /\ marks'.torn = marks.torn /\ marks'.unpublished = marks.unpublished
      /\ marks'.keyFailed = marks.keyFailed /\ marks'.raced = marks.raced
      /\ marks.regen => marks'.regen
      /\ regen => marks'.regen
  BY <1>2 DEF BuildInv, BuildTypes, Marks
<1>4. /\ src' \in Versions /\ src'["policy_tx_2_2"] = src["policy_tx_2_2"]
      /\ newer \subseteq newer'
  BY DEF StartBuild, GetCircomlib, BuildInv, BuildTypes, Versions, Sources
<1>5. /\ build' \in RunningBuilds /\ build'.pc = "parsed" /\ build'.read = src'
      /\ build'.wasm /\ build'.regen = regen
  BY <1>1, <1>4 DEF RunningBuilds, Phases
<1>6. BuildTypes'
  BY <1>1, <1>3, <1>4, <1>5 DEF BuildInv, BuildTypes
<1>7. PairInv'
  BY <1>1, <1>3, <1>5 DEF BuildInv, PairInv, Built
<1>8. KeysInv'
  BY <1>1, <1>3, <1>5 DEF BuildInv, KeysInv
<1>9. EntryInv'
  BY <1>1, <1>3, <1>4, <1>5 DEF BuildInv, EntryInv, Built
<1> QED BY <1>6, <1>7, <1>8, <1>9 DEF BuildInv

LEMMA DecideKeeps ==
    ASSUME BuildInv, Decide PROVE BuildInv'
<1> DEFINE next == IF UpToDate /\ out.wasm # Missing THEN "publish_r1cs" ELSE "write_r1cs"
<1>1. /\ build.pc = "parsed" /\ Go(next)
      /\ UNCHANGED <<src, lock, newer, out, pub, keys, setups, faults, marks>>
  BY DEF Decide, NoFault
<1>2. next = "write_r1cs" \/ /\ next = "publish_r1cs"
                             /\ out.r1cs # Missing /\ out.wasm # Missing
                             /\ "policy_tx_2_2" \notin newer
  BY EntryPointIsScanned DEF UpToDate, NeedsRebuild
<1> HIDE DEF next
<1>3. build \in RunningBuilds /\ next \in Phases
  BY <1>1, <1>2, RunningType DEF BuildInv, Phases
<1>4. /\ build' \in RunningBuilds /\ build'.pc = next
      /\ build'.read = build.read /\ build'.regen = build.regen /\ build'.wasm = build.wasm
  BY <1>1, <1>3, GoKeeps
<1>5. BuildTypes'
  BY <1>1, <1>4 DEF BuildInv, BuildTypes
<1>6. PairInv'
  BY <1>1, <1>2, <1>4 DEF BuildInv, PairInv, Built, Phases
<1>7. KeysInv'
  BY <1>1, <1>2, <1>4 DEF BuildInv, KeysInv
<1>8. EntryInv'
  BY <1>1, <1>2, <1>4 DEF BuildInv, EntryInv, Built, Phases
<1> QED BY <1>5, <1>6, <1>7, <1>8 DEF BuildInv

LEMMA WriteR1csKeeps ==
    ASSUME BuildInv, WriteR1cs PROVE BuildInv'
<1>1. /\ build.pc = "write_r1cs" /\ Go("write_sym")
      /\ out' = [out EXCEPT !.r1cs = build.read] /\ newer' = {}
      /\ UNCHANGED <<src, lock, pub, keys, setups, faults, marks>>
  BY DEF WriteR1cs, NoFault
<1>2. build \in RunningBuilds /\ build.read \in Files
  BY <1>1, RunningType DEF BuildInv, RunningBuilds, Files
<1>3. /\ build' \in RunningBuilds /\ build'.pc = "write_sym"
      /\ build'.read = build.read /\ build'.regen = build.regen /\ build'.wasm = build.wasm
  BY <1>1, <1>2, GoKeeps DEF Phases
<1>4. /\ out' \in [r1cs : Files, sym : Files, wasm : Files] /\ out'.r1cs = build.read
      /\ build.read \notin {Missing, Partial}
  BY <1>1, <1>2, VersionsAreWhole, RunningType DEF BuildInv, BuildTypes, RunningBuilds
<1>5. BuildTypes'
  BY <1>1, <1>3, <1>4 DEF BuildInv, BuildTypes
<1>6. PairInv'
  BY <1>1, <1>3, <1>4 DEF BuildInv, PairInv, Built, Phases
<1>7. KeysInv'
  BY <1>1, <1>3 DEF BuildInv, KeysInv
<1>8. EntryInv'
  BY <1>1, <1>3, <1>4 DEF BuildInv, EntryInv, Built
<1> QED BY <1>5, <1>6, <1>7, <1>8 DEF BuildInv

LEMMA WriteSymKeeps ==
    ASSUME BuildInv, WriteSym PROVE BuildInv'
<1>1. /\ build.pc = "write_sym" /\ Go("compile_wasm")
      /\ out' = [out EXCEPT !.sym = build.read] /\ newer' = {}
      /\ UNCHANGED <<src, lock, pub, keys, setups, faults, marks>>
  BY DEF WriteSym, NoFault
<1>2. build \in RunningBuilds /\ build.read \in Files
  BY <1>1, RunningType DEF BuildInv, RunningBuilds, Files
<1>3. /\ build' \in RunningBuilds /\ build'.pc = "compile_wasm"
      /\ build'.read = build.read /\ build'.regen = build.regen /\ build'.wasm = build.wasm
  BY <1>1, <1>2, GoKeeps DEF Phases
<1>4. /\ out' \in [r1cs : Files, sym : Files, wasm : Files]
      /\ out'.r1cs = out.r1cs /\ out'.wasm = out.wasm
  BY <1>1, <1>2 DEF BuildInv, BuildTypes
<1>5. BuildTypes'
  BY <1>1, <1>3, <1>4 DEF BuildInv, BuildTypes
<1>6. PairInv'
  BY <1>1, <1>3, <1>4 DEF BuildInv, PairInv, Built, Phases
<1>7. KeysInv'
  BY <1>1, <1>3 DEF BuildInv, KeysInv
<1>8. EntryInv'
  BY <1>1, <1>3, <1>4 DEF BuildInv, PairInv, EntryInv, Built, Phases
<1> QED BY <1>5, <1>6, <1>7, <1>8 DEF BuildInv

LEMMA CompileWasmKeeps ==
    ASSUME BuildInv, CompileWasm PROVE BuildInv'
<1>1. /\ build.pc = "compile_wasm" /\ Go("publish_r1cs")
      /\ out' = [out EXCEPT !.wasm = build.read]
      /\ marks' = [marks EXCEPT !.torn = FALSE]
      /\ UNCHANGED <<src, lock, newer, pub, keys, setups, faults>>
  BY DEF CompileWasm
<1>2. build \in RunningBuilds /\ build.read \in Files
  BY <1>1, RunningType DEF BuildInv, RunningBuilds, Files
<1>3. /\ build' \in RunningBuilds /\ build'.pc = "publish_r1cs"
      /\ build'.read = build.read /\ build'.regen = build.regen /\ build'.wasm = build.wasm
  BY <1>1, <1>2, GoKeeps DEF Phases
<1>4. /\ out' \in [r1cs : Files, sym : Files, wasm : Files]
      /\ out'.r1cs = out.r1cs /\ out'.wasm = build.read
      /\ build.read \notin {Missing, Partial}
  BY <1>1, <1>2, VersionsAreWhole, RunningType DEF BuildInv, BuildTypes, RunningBuilds
<1>5. /\ marks' \in Marks /\ marks'.unpublished = marks.unpublished
      /\ marks'.keyFailed = marks.keyFailed /\ marks'.regen = marks.regen
      /\ marks'.raced = marks.raced
  BY <1>1 DEF BuildInv, BuildTypes, Marks
<1>6. BuildTypes'
  BY <1>1, <1>3, <1>4, <1>5 DEF BuildInv, BuildTypes
<1>7. PairInv'
  BY <1>1, <1>3, <1>4, <1>5 DEF BuildInv, PairInv, Built, Phases
<1>8. KeysInv'
  BY <1>1, <1>3, <1>5 DEF BuildInv, KeysInv
<1>9. EntryInv'
  BY <1>1, <1>3, <1>4, <1>5 DEF BuildInv, EntryInv, Built, Phases
<1> QED BY <1>6, <1>7, <1>8, <1>9 DEF BuildInv

LEMMA CompileWasmFailsKeeps ==
    ASSUME BuildInv, NEW left \in {"old", "partial", "gone"}, CompileWasmFails(left) PROVE BuildInv'
<1>1. /\ build.pc = "compile_wasm"
      /\ Fault(IF left = "gone" THEN {} ELSE {"torn"})
      /\ out' = [out EXCEPT !.wasm = LeftOver(left, @)]
      /\ build' = [build EXCEPT !.pc = "publish_r1cs", !.wasm = FALSE]
      /\ UNCHANGED <<src, lock, newer, pub, keys, setups>>
  BY DEF CompileWasmFails
<1>2. build \in RunningBuilds
  BY <1>1, RunningType DEF BuildInv
<1>3. /\ build' \in RunningBuilds /\ build'.pc = "publish_r1cs" /\ ~build'.wasm
      /\ build'.read = build.read /\ build'.regen = build.regen
  BY <1>1, <1>2 DEF RunningBuilds, Phases
<1>4. /\ out' \in [r1cs : Files, sym : Files, wasm : Files]
      /\ out'.r1cs = out.r1cs
      /\ left = "gone" => out'.wasm = Missing
  BY <1>1, LeftOverIsFile DEF BuildInv, BuildTypes
<1>5. marks \in Marks
  BY DEF BuildInv, BuildTypes
<1>6. /\ marks' \in Marks
      /\ marks'.torn <=> marks.torn \/ left # "gone"
      /\ marks'.unpublished <=> marks.unpublished
      /\ marks'.keyFailed <=> marks.keyFailed
      /\ marks'.regen <=> marks.regen
      /\ marks'.raced <=> marks.raced
  BY <1>1, <1>5, FaultKeeps
<1>7. BuildTypes'
  BY <1>1, <1>3, <1>4, <1>6 DEF BuildInv, BuildTypes
<1>8. PairInv'
  BY <1>1, <1>3, <1>4, <1>6 DEF BuildInv, PairInv, Built, Phases
<1>9. KeysInv'
  BY <1>1, <1>3, <1>6 DEF BuildInv, KeysInv
<1>10. EntryInv'
  BY <1>1, <1>3, <1>4, <1>6 DEF BuildInv, EntryInv, Built, Phases
<1> QED BY <1>7, <1>8, <1>9, <1>10 DEF BuildInv

\* A partly written artifact tears the compilation; so does every death after
\* the R1CS, unless the old WASM is gone.
LEMMA CrashWritingKeeps ==
    ASSUME BuildInv, NEW left \in {"old", "partial", "gone"}, CrashWriting(left) PROVE BuildInv'
<1> DEFINE file == WrittenAt[build.pc]
           sound == left = "gone" \/ (left = "old" /\ build.pc = "write_r1cs")
<1>1. /\ build.pc \in {"write_r1cs", "write_sym", "compile_wasm"}
      /\ left = "gone" => build.pc = "compile_wasm"
      /\ out' = [out EXCEPT ![file] = LeftOver(left, out[file])]
      /\ newer' = IF left = "partial" /\ build.pc # "compile_wasm" THEN {} ELSE newer
      /\ Fault(IF sound THEN {} ELSE {"torn"})
      /\ Stop("crashed")
      /\ UNCHANGED <<src, lock, pub, keys, setups>>
  BY DEF CrashWriting, WrittenAt
<1>2. /\ file = CASE build.pc = "write_r1cs" -> "r1cs"
                  [] build.pc = "write_sym" -> "sym"
                  [] build.pc = "compile_wasm" -> "wasm"
  BY <1>1 DEF WrittenAt
<1>3. /\ marks \in Marks /\ BuildTypes /\ out \in [r1cs : Files, sym : Files, wasm : Files]
      /\ "crashed" \in Results
  BY DEF BuildInv, BuildTypes, Results
<1>4. /\ marks' \in Marks
      /\ marks'.torn <=> marks.torn \/ ~sound
      /\ marks'.unpublished <=> marks.unpublished
      /\ marks'.keyFailed <=> marks.keyFailed
      /\ marks'.regen <=> marks.regen
      /\ marks'.raced <=> marks.raced
  BY <1>1, <1>3, FaultKeeps
<1>5. /\ build' \in IdleBuilds /\ build'.pc = "idle"
      /\ build'.last = "crashed" /\ build'.read = build.read
  BY <1>1, <1>3, StopKeeps
<1>6. /\ out' \in [r1cs : Files, sym : Files, wasm : Files]
      /\ out'.r1cs = IF build.pc = "write_r1cs" /\ left = "partial" THEN Partial ELSE out.r1cs
      /\ build.pc # "compile_wasm" => out'.wasm = out.wasm
      /\ left = "gone" => out'.wasm = Missing /\ out'.r1cs = out.r1cs
  <2>1. file \in {"r1cs", "sym", "wasm"} /\ out[file] \in Files
    BY <1>1, <1>2, <1>3
  <2>2. /\ LeftOver(left, out[file]) \in Files
        /\ left = "old" => LeftOver(left, out[file]) = out[file]
        /\ left = "partial" => LeftOver(left, out[file]) = Partial
        /\ left = "gone" => LeftOver(left, out[file]) = Missing
    BY <2>1, LeftOverIsFile
  <2>3. CASE build.pc = "write_r1cs"
    BY <1>1, <1>2, <1>3, <2>2, <2>3
  <2>4. CASE build.pc = "write_sym"
    BY <1>1, <1>2, <1>3, <2>2, <2>4
  <2>5. CASE build.pc = "compile_wasm"
    BY <1>1, <1>2, <1>3, <2>2, <2>5
  <2> QED BY <1>1, <2>3, <2>4, <2>5
<1> HIDE DEF file
<1>7. BuildTypes'
  BY <1>1, <1>4, <1>5, <1>6 DEF BuildInv, BuildTypes
<1>8. PairInv'
  BY <1>1, <1>4, <1>5, <1>6 DEF BuildInv, PairInv, Built, Phases
<1>9. KeysInv'
  BY <1>1, <1>4, <1>5 DEF BuildInv, KeysInv
<1>10. EntryInv'
  BY <1>1, <1>4, <1>5, <1>6 DEF BuildInv, PairInv, EntryInv, Built, Phases
<1> QED BY <1>7, <1>8, <1>9, <1>10 DEF BuildInv

\* A build ends, well or not: what it leaves satisfies the invariant if, when it
\* ends well, it had published and checked its keys.
LEMMA StopsKeep ==
    ASSUME BuildInv, NEW result \in Results, Stop(result),
           UNCHANGED <<src, lock, newer, out, keys, setups>>,
           pub' \in [r1cs : Files, wasm : Files], marks' \in Marks,
           result = "ok" => build.pc \in {"check_keys", "write_keys"} /\ pub' = pub,
           marks.torn => marks'.torn,
           marks.unpublished => marks'.unpublished,
           marks.keyFailed => marks'.keyFailed,
           marks.regen => marks'.regen,
           marks.raced => marks'.raced,
           build.pc \in {"write_sym", "compile_wasm"} => marks'.torn
    PROVE  BuildInv'
<1>1. /\ build' \in IdleBuilds /\ build'.pc = "idle"
      /\ build'.last = result /\ build'.read = build.read
  BY StopKeeps DEF BuildInv
<1>2. BuildTypes'
  BY <1>1 DEF BuildInv, BuildTypes
<1>3. PairInv'
  BY <1>1 DEF BuildInv, PairInv, Built, Phases
<1>4. KeysInv'
  BY <1>1 DEF BuildInv, KeysInv
<1>5. EntryInv'
  BY <1>1 DEF BuildInv, EntryInv, Built, Phases
<1> QED BY <1>2, <1>3, <1>4, <1>5 DEF BuildInv

LEMMA PublishR1csKeeps ==
    ASSUME BuildInv, PublishR1cs PROVE BuildInv'
<1>1. /\ build.pc = "publish_r1cs"
      /\ pub' = [pub EXCEPT !.r1cs = out.r1cs]
      /\ IF build.wasm THEN Go("publish_wasm") ELSE Stop("failed")
      /\ UNCHANGED <<src, lock, newer, out, keys, setups, faults, marks>>
  BY DEF PublishR1cs, NoFault
<1>2. pub' \in [r1cs : Files, wasm : Files] /\ pub'.r1cs = out.r1cs
  BY <1>1 DEF BuildInv, BuildTypes
<1>3. CASE ~build.wasm
  <2>1. Stop("failed") /\ "failed" \in Results /\ marks' \in Marks
    BY <1>1, <1>3 DEF Results, BuildInv, BuildTypes
  <2> QED BY <1>1, <1>2, <2>1, StopsKeep
<1>4. CASE build.wasm
  <2>1. build \in RunningBuilds
    BY <1>1, RunningType DEF BuildInv
  <2>2. /\ build' \in RunningBuilds /\ build'.pc = "publish_wasm"
        /\ build'.read = build.read /\ build'.regen = build.regen /\ build'.wasm = build.wasm
    BY <1>1, <1>4, <2>1, GoKeeps DEF Phases
  <2>3. BuildTypes'
    BY <1>1, <1>2, <2>2 DEF BuildInv, BuildTypes
  <2>4. PairInv'
    BY <1>1, <1>2, <1>4, <2>2 DEF BuildInv, PairInv, Built, Phases
  <2>5. KeysInv' /\ EntryInv'
    BY <1>1, <2>2 DEF BuildInv, KeysInv, EntryInv, Built, Phases
  <2> QED BY <2>3, <2>4, <2>5 DEF BuildInv
<1> QED BY <1>3, <1>4

LEMMA PublishWasmKeeps ==
    ASSUME BuildInv, PublishWasm PROVE BuildInv'
<1>1. /\ build.pc = "publish_wasm" /\ Go("check_keys")
      /\ pub' = [pub EXCEPT !.wasm = out.wasm]
      /\ marks' = [marks EXCEPT !.unpublished = FALSE]
      /\ UNCHANGED <<src, lock, newer, out, keys, setups, faults>>
  BY DEF PublishWasm
<1>2. pub' \in [r1cs : Files, wasm : Files] /\ pub'.r1cs = pub.r1cs /\ pub'.wasm = out.wasm
  BY <1>1 DEF BuildInv, BuildTypes
<1>3. /\ marks' \in Marks /\ marks'.torn = marks.torn
      /\ marks'.keyFailed = marks.keyFailed /\ marks'.regen = marks.regen
      /\ marks'.raced = marks.raced
  BY <1>1 DEF BuildInv, BuildTypes, Marks
<1>4. build \in RunningBuilds
  BY <1>1, RunningType DEF BuildInv
<1>5. /\ build' \in RunningBuilds /\ build'.pc = "check_keys"
      /\ build'.read = build.read /\ build'.regen = build.regen /\ build'.wasm = build.wasm
  BY <1>1, <1>4, GoKeeps DEF Phases
<1>6. BuildTypes'
  BY <1>1, <1>2, <1>3, <1>5 DEF BuildInv, BuildTypes
<1>7. PairInv'
  BY <1>1, <1>2, <1>3, <1>5 DEF BuildInv, PairInv, Built, Phases
<1>8. KeysInv' /\ EntryInv'
  BY <1>1, <1>3, <1>5 DEF BuildInv, KeysInv, EntryInv, Built, Phases
<1> QED BY <1>6, <1>7, <1>8 DEF BuildInv

LEMMA PublishFailsKeeps ==
    ASSUME BuildInv, NEW left \in {"old", "gone"}, PublishFails(left) PROVE BuildInv'
<1>1. /\ build.pc \in {"publish_r1cs", "publish_wasm"}
      /\ pub' = [pub EXCEPT ![CopiedAt[build.pc]] = LeftOver(left, pub[CopiedAt[build.pc]])]
      /\ Fault({"unpublished"})
      /\ \/ IF build.wasm THEN Go("check_keys") ELSE Stop("failed")
         \/ Stop("crashed")
      /\ UNCHANGED <<src, lock, newer, out, keys, setups>>
  BY DEF PublishFails, CopiedAt
<1>2. marks \in Marks /\ pub \in [r1cs : Files, wasm : Files]
  BY DEF BuildInv, BuildTypes
<1>3. pub' \in [r1cs : Files, wasm : Files]
  <2>1. CopiedAt[build.pc] \in {"r1cs", "wasm"}
    BY <1>1 DEF CopiedAt
  <2>2. pub[CopiedAt[build.pc]] \in Files
    BY <1>2, <2>1
  <2>3. LeftOver(left, pub[CopiedAt[build.pc]]) \in Files
    BY <2>2, LeftOverIsFile
  <2> QED BY <1>1, <1>2, <2>1, <2>3
<1>4. /\ marks' \in Marks
      /\ marks'.torn <=> marks.torn
      /\ marks'.unpublished
      /\ marks'.keyFailed <=> marks.keyFailed
      /\ marks'.regen <=> marks.regen
      /\ marks'.raced <=> marks.raced
  BY <1>1, <1>2, FaultKeeps
<1>5. CASE Stop("failed") \/ Stop("crashed")
  <2>1. "failed" \in Results /\ "crashed" \in Results
    BY DEF Results
  <2> QED BY <1>1, <1>3, <1>4, <1>5, <2>1, StopsKeep
<1>6. CASE build.wasm /\ Go("check_keys")
  <2>1. build \in RunningBuilds
    BY <1>1, RunningType DEF BuildInv
  <2>2. /\ build' \in RunningBuilds /\ build'.pc = "check_keys"
        /\ build'.read = build.read /\ build'.regen = build.regen /\ build'.wasm = build.wasm
    BY <1>6, <2>1, GoKeeps DEF Phases
  <2>3. BuildTypes'
    BY <1>1, <1>3, <1>4, <2>2 DEF BuildInv, BuildTypes
  <2>4. PairInv'
    BY <1>1, <1>4, <1>6, <2>2 DEF BuildInv, PairInv, Built, Phases
  <2>5. KeysInv' /\ EntryInv'
    BY <1>1, <1>4, <2>2 DEF BuildInv, KeysInv, EntryInv, Built, Phases
  <2> QED BY <2>3, <2>4, <2>5 DEF BuildInv
<1> QED BY <1>1, <1>5, <1>6

LEMMA GenerateKeysKeeps ==
    ASSUME BuildInv, GenerateKeys PROVE BuildInv'
<1>1. /\ build.pc = "check_keys" /\ KeysNeedGeneration
      /\ setups' = setups + 1
      /\ build' = [build EXCEPT !.pc = "write_keys", !.setup = setups', !.next = 1]
      /\ UNCHANGED <<src, lock, newer, out, pub, keys, faults, marks>>
  BY DEF GenerateKeys, NoFault
<1>2. build \in RunningBuilds
  BY <1>1, RunningType DEF BuildInv
<1>3. setups' \in Nat
  BY <1>1 DEF BuildInv, BuildTypes
<1>4. /\ build' \in RunningBuilds /\ build'.pc = "write_keys" /\ build'.next = 1
      /\ build'.read = build.read /\ build'.regen = build.regen /\ build'.wasm = build.wasm
  <2> DEFINE s == setups'
  <2>1. s \in Nat /\ build' = [build EXCEPT !.pc = "write_keys", !.setup = s, !.next = 1]
    BY <1>1, <1>3
  <2> HIDE DEF s
  <2>2. build' = [pc |-> "write_keys", read |-> build.read, regen |-> build.regen,
                  wasm |-> build.wasm, setup |-> s, next |-> 1]
    BY <1>2, <2>1 DEF RunningBuilds
  <2>3. build.read \in Versions /\ build.regen \in BOOLEAN /\ build.wasm \in BOOLEAN
    BY <1>2 DEF RunningBuilds
  <2> QED BY <2>1, <2>2, <2>3 DEF RunningBuilds, Phases
<1>5. BuildTypes'
  BY <1>1, <1>3, <1>4 DEF BuildInv, BuildTypes
<1>6. PairInv' /\ EntryInv'
  BY <1>1, <1>4 DEF BuildInv, PairInv, EntryInv, Built, Phases
<1>7. KeysInv'
  <2>1. ~marks.regen => \E k \in Essential : keys[k] = 0
    BY <1>1 DEF BuildInv, KeysInv, KeysNeedGeneration
  <2>2. ~marks.keyFailed /\ ~marks.regen => keys["vk_soroban"] = 0
    BY <2>1 DEF BuildInv, KeysInv, Essential
  <2> QED BY <1>1, <1>4, <2>2 DEF BuildInv, KeysInv
<1> QED BY <1>5, <1>6, <1>7 DEF BuildInv

\* The next key file, or the end of the build.
LEMMA NextKeyFileKeeps ==
    ASSUME BuildInv, build.pc = "write_keys", NextKeyFile,
           UNCHANGED <<src, lock, newer, out, pub, setups>>,
           keys' \in [ToSet(KeyFiles) -> Nat], marks' \in Marks,
           marks'.torn <=> marks.torn,
           marks'.unpublished <=> marks.unpublished,
           marks'.raced <=> marks.raced,
           marks.keyFailed => marks'.keyFailed,
           marks.regen => marks'.regen,
           marks'.keyFailed \/ keys' = [keys EXCEPT ![KeyFiles[build.next]] = build.setup]
    PROVE  BuildInv'
<1>1. build \in RunningBuilds /\ build.next \in 1 .. 4
  BY RunningType DEF BuildInv, RunningBuilds
<1>2. CASE build.next < 4
  <2>1. build' = [build EXCEPT !.next = build.next + 1]
    BY <1>2, KeyFileNames DEF NextKeyFile
  <2>2. /\ build' \in RunningBuilds /\ build'.pc = "write_keys" /\ build'.next = build.next + 1
        /\ build'.read = build.read /\ build'.regen = build.regen /\ build'.wasm = build.wasm
        /\ build'.setup = build.setup
    BY <1>1, <1>2, <2>1 DEF RunningBuilds
  <2>3. BuildTypes'
    BY <2>2 DEF BuildInv, BuildTypes
  <2>4. PairInv' /\ EntryInv'
    BY <2>2 DEF BuildInv, PairInv, EntryInv, Built, Phases
  <2>5. KeysInv'
    <3> SUFFICES ASSUME ~marks'.keyFailed, ~marks'.regen PROVE KeysInv'
      BY <2>2 DEF BuildInv, KeysInv
    <3>1. keys' = [keys EXCEPT ![KeyFiles[build.next]] = build.setup]
      OBVIOUS
    <3>2. build.next = 1 \/ build.next = 2 \/ build.next = 3
      BY <1>1, <1>2
    <3>3. DOMAIN keys = {"proving_key", "vk_json", "vk_soroban", "vk_const"}
      BY KeyFileNames DEF BuildInv, BuildTypes
    <3> QED
      BY <2>2, <3>1, <3>2, <3>3, KeyFileNames DEF BuildInv, KeysInv
  <2> QED BY <2>3, <2>4, <2>5 DEF BuildInv
<1>3. CASE build.next = 4
  <2>1. Stop("ok") /\ "ok" \in Results
    BY <1>3, KeyFileNames DEF NextKeyFile, Results
  <2>2. /\ build' \in IdleBuilds /\ build'.pc = "idle"
        /\ build'.last = "ok" /\ build'.read = build.read
    BY <2>1, StopKeeps DEF BuildInv
  <2>3. BuildTypes'
    BY <2>2 DEF BuildInv, BuildTypes
  <2>4. PairInv' /\ EntryInv'
    BY <2>2 DEF BuildInv, PairInv, EntryInv, Built, Phases
  <2>5. KeysInv'
    <3> SUFFICES ASSUME ~marks'.keyFailed, ~marks'.regen PROVE KeysInv'
      BY <2>2 DEF BuildInv, KeysInv
    <3>1. /\ keys'["vk_soroban"] = keys["vk_soroban"] /\ keys'["vk_json"] = keys["vk_json"]
          /\ keys'["proving_key"] = keys["proving_key"]
      BY <1>3, KeyFileNames
    <3> QED BY <2>2, <3>1 DEF BuildInv, KeysInv
  <2> QED BY <2>3, <2>4, <2>5 DEF BuildInv
<1> QED BY <1>1, <1>2, <1>3

LEMMA BuildStep == BuildInv /\ [BuildNext]_buildVars => BuildInv'
<1> SUFFICES ASSUME BuildInv, [BuildNext]_buildVars PROVE BuildInv'
  OBVIOUS
<1>1. /\ marks \in Marks /\ pub \in [r1cs : Files, wasm : Files]
      /\ keys \in [ToSet(KeyFiles) -> Nat]
      /\ "ok" \in Results /\ "failed" \in Results /\ "crashed" \in Results
  BY DEF BuildInv, BuildTypes, Results
<1>2. CASE UNCHANGED buildVars
  BY <1>2 DEF buildVars, BuildInv, BuildTypes, PairInv, KeysInv, EntryInv, Built
<1>3. CASE BumpLock
  BY <1>3 DEF BumpLock, BuildInv, BuildTypes, PairInv, KeysInv, EntryInv, Built
<1>4. CASE CircomlibFails
  <2>1. /\ Fault({}) /\ Stop("failed") /\ build.pc = "idle"
        /\ UNCHANGED <<src, lock, newer, out, pub, keys, setups>>
    BY <1>4 DEF CircomlibFails, Running
  <2>2. /\ marks' \in Marks
        /\ marks.torn => marks'.torn
        /\ marks.unpublished => marks'.unpublished
        /\ marks.keyFailed => marks'.keyFailed
        /\ marks.regen => marks'.regen
        /\ marks.raced => marks'.raced
    BY <1>1, <2>1, FaultKeeps
  <2> QED BY <1>1, <2>1, <2>2, StopsKeep
<1>5. CASE SkipKeys
  <2>1. /\ build.pc = "check_keys" /\ Stop("ok")
        /\ UNCHANGED <<src, lock, newer, out, pub, keys, setups, marks>>
    BY <1>5 DEF SkipKeys, NoFault
  <2> QED BY <1>1, <2>1, StopsKeep
<1>6. CASE GenerateKeysFails
  <2>1. /\ build.pc = "check_keys" /\ (Fault({}) \/ marks' = marks) /\ Stop("ok")
        /\ UNCHANGED <<src, lock, newer, out, pub, keys, setups>>
    BY <1>6 DEF GenerateKeysFails, NoFault
  <2>2. /\ marks' \in Marks
        /\ marks.torn => marks'.torn
        /\ marks.unpublished => marks'.unpublished
        /\ marks.keyFailed => marks'.keyFailed
        /\ marks.regen => marks'.regen
        /\ marks.raced => marks'.raced
    BY <1>1, <2>1, FaultKeeps
  <2> QED BY <1>1, <2>1, <2>2, StopsKeep
<1>7. CASE WriteKey
  <2>1. /\ build.pc = "write_keys" /\ NextKeyFile
        /\ keys' = [keys EXCEPT ![KeyFiles[build.next]] = build.setup]
        /\ UNCHANGED <<src, lock, newer, out, pub, setups, marks>>
    BY <1>7 DEF WriteKey, KeyWritten, NoFault
  <2>2. build.setup \in Nat
    BY <2>1, RunningType DEF BuildInv, RunningBuilds
  <2>3. keys' \in [ToSet(KeyFiles) -> Nat]
    BY <1>1, <2>1, <2>2
  <2> QED BY <1>1, <2>1, <2>3, NextKeyFileKeeps
<1>8. CASE WriteKeyFails
  <2>1. /\ build.pc = "write_keys" /\ Fault({"keyFailed"}) /\ NextKeyFile
        /\ UNCHANGED <<src, lock, newer, out, pub, keys, setups>>
    BY <1>8 DEF WriteKeyFails
  <2>2. /\ marks' \in Marks
        /\ marks'.torn <=> marks.torn
        /\ marks'.unpublished <=> marks.unpublished
        /\ marks'.raced <=> marks.raced
        /\ marks'.keyFailed
        /\ marks.regen => marks'.regen
    BY <1>1, <2>1, FaultKeeps
  <2> QED BY <1>1, <2>1, <2>2, NextKeyFileKeeps
<1>9. CASE Crash
  <2>1. /\ build.pc \in {"parsed", "check_keys", "write_keys"} /\ Fault({}) /\ Stop("crashed")
        /\ UNCHANGED <<src, lock, newer, out, pub, keys, setups>>
    BY <1>9 DEF Crash
  <2>2. /\ marks' \in Marks
        /\ marks.torn => marks'.torn
        /\ marks.unpublished => marks'.unpublished
        /\ marks.keyFailed => marks'.keyFailed
        /\ marks.regen => marks'.regen
        /\ marks.raced => marks'.raced
    BY <1>1, <2>1, FaultKeeps
  <2> QED BY <1>1, <2>1, <2>2, StopsKeep
<1> QED
  BY <1>2, <1>3, <1>4, <1>5, <1>6, <1>7, <1>8, <1>9, EditKeeps, StartBuildKeeps, DecideKeeps,
     WriteR1csKeeps, WriteSymKeeps, CompileWasmKeeps, CompileWasmFailsKeeps, CrashWritingKeeps, PublishR1csKeeps,
     PublishWasmKeeps, PublishFailsKeeps, GenerateKeysKeeps DEF BuildNext

LEMMA ArtifactsFromBuildInv == BuildInv => ArtifactsAgree
<1> SUFFICES ASSUME BuildInv PROVE ArtifactsAgree
  OBVIOUS
<1>1. PublishedPairAgrees
  BY DEF BuildInv, PairInv, PublishedPairAgrees
<1>2. EssentialKeysAgree
  <2> SUFFICES ASSUME ~marks.keyFailed, ~marks.regen, \A k \in Essential : keys[k] # 0
               PROVE  Cardinality({keys[k] : k \in Essential}) = 1
    BY DEF EssentialKeysAgree
  <2>1. {keys[k] : k \in Essential} = {keys["vk_soroban"]}
    BY DEF BuildInv, KeysInv, Essential
  <2> QED BY <2>1, FS_Singleton
<1>3. EntryPointCompiled
  BY DEF BuildInv, EntryInv, EntryPointCompiled
<1> QED BY <1>1, <1>2, <1>3 DEF ArtifactsAgree

\* What the build script leaves on disk belongs together, for every number of
\* edits, setups and faults: the published R1CS and WASM, the essential keys,
\* and the entry point that was compiled, except after the faults the property
\* names.
THEOREM BuildArtifactsAgree == BuildSpec => []ArtifactsAgree
<1>1. BuildSpec => []BuildInv
  BY BuildStarts, BuildStep, PTL DEF BuildSpec
<1> QED
  BY <1>1, ArtifactsFromBuildInv, PTL
=============================================================================
