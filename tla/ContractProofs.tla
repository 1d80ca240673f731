--------------------------- MODULE ContractProofs ---------------------------
(***************************************************************************)
(* Proofs about the contracts beside the pool and the trees they share     *)
(* with it, for every depth: contract, prover and circuit compute the same *)
(* roots (PoolTree), every approval of the membership contract can be      *)
(* proved from its events (AspMembership), the sparse trees of the         *)
(* non-membership contract and of the prover are the one their contents    *)
(* determine and decide which keys are blocked (AspNonMembership,          *)
(* ProverSmt), the prediction market decides exactly (Market), and the     *)
(* address book shows the keys that are registered (Directory).            *)
(***************************************************************************)
EXTENDS PoolTree, AspMembership, ProverSmt, Market, Directory, Arithmetic, SequenceTheorems, TLAPS

-----------------------------------------------------------------------------
(* The Merkle trees.                                                       *)

LEMMA LevelsType == Levels \in Nat /\ Levels >= 1
BY TreeLevels

-----------------------------------------------------------------------------
(* The recursive definitions have solutions: each is built level by level. *)

TwoToStep(g, n) == IF n = 0 THEN 1 ELSE 2 * g[n - 1]

LEMMA TwoToUnfold == TwoTo = [n \in 0..Levels |-> TwoToStep(TwoTo, n)]
<1> DEFINE Solves(m, g) == g = [n \in 0..m |-> TwoToStep(g, n)]
           N == {m \in Nat : \E g : Solves(m, g)}
<1>1. 0 \in N
  <2> DEFINE g == [n \in 0..0 |-> 1]
  <2>1. \A n \in 0..0 : TwoToStep(g, n) = 1
    BY DEF TwoToStep
  <2>2. Solves(0, g)
    BY <2>1
  <2> QED BY <2>2
<1>2. ASSUME NEW m \in Nat, m \in N PROVE m + 1 \in N
  <2>1. PICK g : Solves(m, g)
    BY <1>2
  <2> DEFINE h == [n \in 0..(m + 1) |-> TwoToStep(g, n)]
  <2>2. ASSUME NEW n \in 0..(m + 1) PROVE TwoToStep(g, n) = TwoToStep(h, n)
    <3>1. CASE n = 0
      BY <3>1 DEF TwoToStep
    <3>2. CASE n # 0
      <4>1. n - 1 \in 0..m /\ n - 1 \in 0..(m + 1)
        BY <3>2
      <4>2. g[n - 1] = TwoToStep(g, n - 1)
        BY <2>1, <4>1
      <4>3. h[n - 1] = g[n - 1]
        BY <4>1, <4>2
      <4> QED BY <3>2, <4>3 DEF TwoToStep
    <3> QED BY <3>1, <3>2
  <2>3. Solves(m + 1, h)
    BY <2>2
  <2> HIDE DEF h, Solves
  <2> QED BY <2>3
<1> HIDE DEF N
<1>3. \E g : Solves(Levels, g)
  BY <1>1, <1>2, Induct, LevelsType DEF N
<1>4. TwoTo = CHOOSE g : g = [n \in 0..Levels |-> TwoToStep(g, n)]
  BY DEF TwoTo, TwoToStep
<1> QED BY <1>3, <1>4

LEMMA TwoToFacts ==
  /\ TwoTo[0] = 1
  /\ \A n \in 1..Levels : TwoTo[n] = 2 * TwoTo[n - 1]
  /\ \A n \in 0..Levels : TwoTo[n] \in Nat \ {0}
<1>1. TwoTo[0] = 1 /\ \A n \in 1..Levels : TwoTo[n] = 2 * TwoTo[n - 1]
  <2>1. \A n \in 0..Levels : TwoTo[n] = TwoToStep(TwoTo, n)
    BY TwoToUnfold
  <2> QED BY <2>1, LevelsType DEF TwoToStep
<1> DEFINE G == {n \in Nat : n \in 0..Levels => TwoTo[n] \in Nat \ {0}}
<1>2. 0 \in G
  BY <1>1
<1>3. ASSUME NEW n \in Nat, n \in G PROVE n + 1 \in G
  <2>1. n + 1 \in 0..Levels => n \in 0..Levels /\ n + 1 \in 1..Levels /\ (n + 1) - 1 = n
    BY LevelsType
  <2> QED BY <1>1, <1>3, <2>1
<1> HIDE DEF G
<1>4. Nat \subseteq G
  BY <1>2, <1>3, Induct
<1> QED BY <1>1, <1>4, LevelsType DEF G
ZeroesStep(g, l) == IF l = 0 THEN Zero ELSE Hash(g[l - 1], g[l - 1])

LEMMA ZeroesExist ==
  \E g : g = [l \in 0..Levels |-> ZeroesStep(g, l)]
<1> DEFINE Solves(m, g) == g = [l \in 0..m |-> ZeroesStep(g, l)]
           N == {m \in Nat : \E g : Solves(m, g)}
<1>1. 0 \in N
  <2> DEFINE g == [l \in 0..0 |-> Zero]
  <2>1. \A l \in 0..0 : ZeroesStep(g, l) = Zero
    BY DEF ZeroesStep
  <2>2. Solves(0, g)
    BY <2>1
  <2> QED BY <2>2
<1>2. ASSUME NEW m \in Nat, m \in N PROVE m + 1 \in N
  <2>1. PICK g : Solves(m, g)
    BY <1>2
  <2> DEFINE h == [l \in 0..(m + 1) |-> ZeroesStep(g, l)]
  <2>2. ASSUME NEW l \in 0..(m + 1) PROVE ZeroesStep(g, l) = ZeroesStep(h, l)
    <3>1. CASE l = 0
      BY <3>1 DEF ZeroesStep
    <3>2. CASE l # 0
      <4>1. l - 1 \in 0..m /\ l - 1 \in 0..(m + 1)
        BY <3>2
      <4>2. g[l - 1] = ZeroesStep(g, l - 1)
        BY <2>1, <4>1
      <4>3. h[l - 1] = g[l - 1]
        BY <4>1, <4>2
      <4> QED BY <3>2, <4>3 DEF ZeroesStep
    <3> QED BY <3>1, <3>2
  <2>3. Solves(m + 1, h)
    BY <2>2
  <2> HIDE DEF h, Solves
  <2> QED BY <2>3
<1> HIDE DEF N
<1> QED BY <1>1, <1>2, Induct, LevelsType DEF N

LEMMA ZeroesFacts ==
  /\ DOMAIN Zeroes = 0..Levels
  /\ Zeroes[0] = Zero
  /\ \A l \in 0..(Levels - 1) : Zeroes[l + 1] = Hash(Zeroes[l], Zeroes[l])
<1>1. Zeroes = CHOOSE g : g = [l \in 0..Levels |-> ZeroesStep(g, l)]
  BY DEF Zeroes, ZeroesStep
<1>2. Zeroes = [l \in 0..Levels |-> ZeroesStep(Zeroes, l)]
  BY <1>1, ZeroesExist
<1>3. DOMAIN Zeroes = 0..Levels /\ \A l \in 0..Levels : Zeroes[l] = ZeroesStep(Zeroes, l)
  BY <1>2
<1> QED BY <1>3, LevelsType DEF ZeroesStep

\* One level of the prefix tree.
NonEmpty(row, l) == IF row = <<>> THEN <<Zeroes[l]>> ELSE row
LevelStep(s, g, l) ==
  IF l = 0 THEN NonEmpty(s, 0) ELSE NonEmpty(Parents(g[l - 1], l - 1), l)

LEMMA LevelsExist ==
  ASSUME NEW s
  PROVE  \E g : g = [l \in 0..Levels |-> LevelStep(s, g, l)]
<1> DEFINE Solves(m, g) == g = [l \in 0..m |-> LevelStep(s, g, l)]
           N == {m \in Nat : \E g : Solves(m, g)}
<1>1. 0 \in N
  <2> DEFINE g == [l \in 0..0 |-> NonEmpty(s, 0)]
  <2>1. \A l \in 0..0 : LevelStep(s, g, l) = NonEmpty(s, 0)
    BY DEF LevelStep
  <2>2. Solves(0, g)
    BY <2>1
  <2> QED BY <2>2
<1>2. ASSUME NEW m \in Nat, m \in N PROVE m + 1 \in N
  <2>1. PICK g : Solves(m, g)
    BY <1>2
  <2> DEFINE h == [l \in 0..(m + 1) |-> LevelStep(s, g, l)]
  <2>2. ASSUME NEW l \in 0..(m + 1) PROVE LevelStep(s, g, l) = LevelStep(s, h, l)
    <3>1. CASE l = 0
      BY <3>1 DEF LevelStep
    <3>2. CASE l # 0
      <4>1. l - 1 \in 0..m /\ l - 1 \in 0..(m + 1)
        BY <3>2
      <4>2. g[l - 1] = LevelStep(s, g, l - 1)
        BY <2>1, <4>1
      <4>3. h[l - 1] = g[l - 1]
        BY <4>1, <4>2
      <4> QED BY <3>2, <4>3 DEF LevelStep
    <3> QED BY <3>1, <3>2
  <2>3. Solves(m + 1, h)
    BY <2>2
  <2> HIDE DEF h, Solves
  <2> QED BY <2>3
<1> HIDE DEF N
<1> QED BY <1>1, <1>2, Induct, LevelsType DEF N

LEMMA LevelsFacts ==
  ASSUME NEW s
  PROVE  /\ BuildLevels(s)[0] = NonEmpty(s, 0)
         /\ \A l \in 0..(Levels - 1) :
              BuildLevels(s)[l + 1] = NonEmpty(Parents(BuildLevels(s)[l], l), l + 1)
<1> DEFINE b == BuildLevels(s)
<1>1. b = CHOOSE g : g = [l \in 0..Levels |-> LevelStep(s, g, l)]
  BY DEF BuildLevels, LevelStep, NonEmpty
<1> HIDE DEF b
<1>2. b = [l \in 0..Levels |-> LevelStep(s, b, l)]
  BY <1>1, LevelsExist
<1>3. \A l \in 0..Levels : b[l] = LevelStep(s, b, l)
  BY <1>2
<1>4. /\ b[0] = NonEmpty(s, 0)
      /\ \A l \in 0..(Levels - 1) : b[l + 1] = NonEmpty(Parents(b[l], l), l + 1)
  BY <1>3, LevelsType DEF LevelStep
<1> QED BY <1>4 DEF b

\* One level of an insertion.
ClimbStart(filled, hash, index) == [hash |-> hash, index |-> index, filled |-> filled]
ClimbStep(start, from, g, l) == IF l = from THEN start ELSE ClimbLevel(g[l - 1], l - 1)

LEMMA ClimbsExist ==
  ASSUME NEW start, NEW from \in 0..1
  PROVE  \E g : g = [l \in from..Levels |-> ClimbStep(start, from, g, l)]
<1> DEFINE Solves(m, g) == g = [l \in from..(from + m) |-> ClimbStep(start, from, g, l)]
           N == {m \in Nat : \E g : Solves(m, g)}
<1>1. 0 \in N
  <2> DEFINE g == [l \in from..from |-> start]
  <2>1. \A l \in from..from : ClimbStep(start, from, g, l) = start
    BY DEF ClimbStep
  <2>2. Solves(0, g)
    BY <2>1
  <2> QED BY <2>2
<1>2. ASSUME NEW m \in Nat, m \in N PROVE m + 1 \in N
  <2>1. PICK g : Solves(m, g)
    BY <1>2
  <2> DEFINE h == [l \in from..(from + m + 1) |-> ClimbStep(start, from, g, l)]
  <2>2. ASSUME NEW l \in from..(from + m + 1) PROVE ClimbStep(start, from, g, l) = ClimbStep(start, from, h, l)
    <3>1. CASE l = from
      BY <3>1 DEF ClimbStep
    <3>2. CASE l # from
      <4>1. l - 1 \in from..(from + m) /\ l - 1 \in from..(from + m + 1)
        BY <3>2
      <4>2. g[l - 1] = ClimbStep(start, from, g, l - 1)
        BY <2>1, <4>1
      <4>3. h[l - 1] = g[l - 1]
        BY <4>1, <4>2
      <4> QED BY <3>2, <4>3 DEF ClimbStep
    <3> QED BY <3>1, <3>2
  <2>3. Solves(m + 1, h)
    BY <2>2
  <2> HIDE DEF h, Solves
  <2> QED BY <2>3
<1> HIDE DEF N
<1>3. Levels - from \in N
  BY <1>1, <1>2, Induct, LevelsType
<1>4. from..(from + (Levels - from)) = from..Levels
  BY LevelsType
<1> QED BY <1>3, <1>4 DEF N

Climbing(start, from) == CHOOSE g : g = [l \in from..Levels |-> ClimbStep(start, from, g, l)]

LEMMA ClimbFacts ==
  ASSUME NEW start, NEW from \in 0..1
  PROVE  /\ Climbing(start, from)[from] = start
         /\ \A l \in from..(Levels - 1) :
              Climbing(start, from)[l + 1] = ClimbLevel(Climbing(start, from)[l], l)
<1> DEFINE c == Climbing(start, from)
<1>1. c = [l \in from..Levels |-> ClimbStep(start, from, c, l)]
  BY ClimbsExist DEF Climbing
<1> HIDE DEF c
<1>2. \A l \in from..Levels : c[l] = ClimbStep(start, from, c, l)
  BY <1>1
<1>3. /\ c[from] = start
      /\ \A l \in from..(Levels - 1) : c[l + 1] = ClimbLevel(c[l], l)
  BY <1>2, LevelsType DEF ClimbStep
<1> QED BY <1>3 DEF c

LEMMA ClimbIsClimbing ==
  ASSUME NEW filled, NEW hash, NEW index, NEW from
  PROVE  Climb(filled, hash, index, from) = Climbing(ClimbStart(filled, hash, index), from)[Levels]
BY DEF Climb, Climbing, ClimbStep, ClimbStart

\* The position of a path at a level.
PosStep(i, g, l) == IF l = 0 THEN i ELSE g[l - 1] \div 2

LEMMA PosExist ==
  ASSUME NEW i
  PROVE  \E g : g = [l \in 0..Levels |-> PosStep(i, g, l)]
<1> DEFINE Solves(m, g) == g = [l \in 0..m |-> PosStep(i, g, l)]
           N == {m \in Nat : \E g : Solves(m, g)}
<1>1. 0 \in N
  <2> DEFINE g == [l \in 0..0 |-> i]
  <2>1. \A l \in 0..0 : PosStep(i, g, l) = i
    BY DEF PosStep
  <2>2. Solves(0, g)
    BY <2>1
  <2> QED BY <2>2
<1>2. ASSUME NEW m \in Nat, m \in N PROVE m + 1 \in N
  <2>1. PICK g : Solves(m, g)
    BY <1>2
  <2> DEFINE h == [l \in 0..(m + 1) |-> PosStep(i, g, l)]
  <2>2. ASSUME NEW l \in 0..(m + 1) PROVE PosStep(i, g, l) = PosStep(i, h, l)
    <3>1. CASE l = 0
      BY <3>1 DEF PosStep
    <3>2. CASE l # 0
      <4>1. l - 1 \in 0..m /\ l - 1 \in 0..(m + 1)
        BY <3>2
      <4>2. g[l - 1] = PosStep(i, g, l - 1)
        BY <2>1, <4>1
      <4>3. h[l - 1] = g[l - 1]
        BY <4>1, <4>2
      <4> QED BY <3>2, <4>3 DEF PosStep
    <3> QED BY <3>1, <3>2
  <2>3. Solves(m + 1, h)
    BY <2>2
  <2> HIDE DEF h, Solves
  <2> QED BY <2>3
<1> HIDE DEF N
<1> QED BY <1>1, <1>2, Induct, LevelsType DEF N

PosOf(i) == CHOOSE g : g = [l \in 0..Levels |-> PosStep(i, g, l)]

LEMMA PosFacts ==
  ASSUME NEW i
  PROVE  /\ PosOf(i)[0] = i
         /\ \A l \in 0..(Levels - 1) : PosOf(i)[l + 1] = PosOf(i)[l] \div 2
<1> DEFINE c == PosOf(i)
<1>1. c = [l \in 0..Levels |-> PosStep(i, c, l)]
  BY PosExist DEF PosOf
<1> HIDE DEF c
<1>2. \A l \in 0..Levels : c[l] = PosStep(i, c, l)
  BY <1>1
<1>3. c[0] = i /\ \A l \in 0..(Levels - 1) : c[l + 1] = c[l] \div 2
  BY <1>2, LevelsType DEF PosStep
<1> QED BY <1>3 DEF c

LEMMA PathIsSiblings ==
  ASSUME NEW s, NEW i, NEW l \in 0..(Levels - 1)
  PROVE  PathElements(s, i)[l] = At(BuildLevels(s)[l], Sibling(PosOf(i)[l]), Zeroes[l])
BY DEF PathElements, PosOf, PosStep

\* One level of the circuit's path.
BitAt(i, l) == (i \div TwoTo[l]) % 2
NodeStep(leaf, path, i, g, l) ==
  IF l = 0 THEN leaf ELSE CircuitSwitch(BitAt(i, l - 1), g[l - 1], path[l - 1])

LEMMA NodesExist ==
  ASSUME NEW leaf, NEW path, NEW i
  PROVE  \E g : g = [l \in 0..Levels |-> NodeStep(leaf, path, i, g, l)]
<1> DEFINE Solves(m, g) == g = [l \in 0..m |-> NodeStep(leaf, path, i, g, l)]
           N == {m \in Nat : \E g : Solves(m, g)}
<1>1. 0 \in N
  <2> DEFINE g == [l \in 0..0 |-> leaf]
  <2>1. \A l \in 0..0 : NodeStep(leaf, path, i, g, l) = leaf
    BY DEF NodeStep
  <2>2. Solves(0, g)
    BY <2>1
  <2> QED BY <2>2
<1>2. ASSUME NEW m \in Nat, m \in N PROVE m + 1 \in N
  <2>1. PICK g : Solves(m, g)
    BY <1>2
  <2> DEFINE h == [l \in 0..(m + 1) |-> NodeStep(leaf, path, i, g, l)]
  <2>2. ASSUME NEW l \in 0..(m + 1) PROVE NodeStep(leaf, path, i, g, l) = NodeStep(leaf, path, i, h, l)
    <3>1. CASE l = 0
      BY <3>1 DEF NodeStep
    <3>2. CASE l # 0
      <4>1. l - 1 \in 0..m /\ l - 1 \in 0..(m + 1)
        BY <3>2
      <4>2. g[l - 1] = NodeStep(leaf, path, i, g, l - 1)
        BY <2>1, <4>1
      <4>3. h[l - 1] = g[l - 1]
        BY <4>1, <4>2
      <4> QED BY <3>2, <4>3 DEF NodeStep
    <3> QED BY <3>1, <3>2
  <2>3. Solves(m + 1, h)
    BY <2>2
  <2> HIDE DEF h, Solves
  <2> QED BY <2>3
<1> HIDE DEF N
<1> QED BY <1>1, <1>2, Induct, LevelsType DEF N

NodesOf(leaf, path, i) == CHOOSE g : g = [l \in 0..Levels |-> NodeStep(leaf, path, i, g, l)]

LEMMA NodesFacts ==
  ASSUME NEW leaf, NEW path, NEW i
  PROVE  /\ NodesOf(leaf, path, i)[0] = leaf
         /\ \A l \in 0..(Levels - 1) :
              NodesOf(leaf, path, i)[l + 1] =
                CircuitSwitch(BitAt(i, l), NodesOf(leaf, path, i)[l], path[l])
<1> DEFINE c == NodesOf(leaf, path, i)
<1>1. c = [l \in 0..Levels |-> NodeStep(leaf, path, i, c, l)]
  BY NodesExist, ZenonT(40) DEF NodesOf
<1> HIDE DEF c
<1>2. \A l \in 0..Levels : c[l] = NodeStep(leaf, path, i, c, l)
  BY <1>1
<1>3. /\ c[0] = leaf
      /\ \A l \in 0..(Levels - 1) : c[l + 1] = CircuitSwitch(BitAt(i, l), c[l], path[l])
  BY <1>2, LevelsType DEF NodeStep
<1> QED BY <1>3 DEF c

LEMMA CircuitRootIsNode ==
  ASSUME NEW leaf, NEW path, NEW i
  PROVE  CircuitRoot(leaf, path, i) = NodesOf(leaf, path, i)[Levels]
BY DEF CircuitRoot, NodesOf, NodeStep, BitAt
-----------------------------------------------------------------------------
(* The nodes of the tree over a sequence of leaves.                        *)

\* Node i of level l, empty subtrees included.
Node(s, l, i) == At(BuildLevels(s)[l], i, Zeroes[l])

LEMMA ParentsLen ==
  ASSUME NEW row, Len(row) \in Nat, NEW l
  PROVE  /\ Len(Parents(row, l)) = (Len(row) + 1) \div 2
         /\ \A i \in 0..(((Len(row) + 1) \div 2) - 1) :
              Parents(row, l)[i + 1] = Hash(At(row, 2 * i, Zeroes[l]), At(row, 2 * i + 1, Zeroes[l]))
<1> DEFINE n == (Len(row) + 1) \div 2
           P == Parents(row, l)
<1>1. n \in Nat
  OBVIOUS
<1> HIDE DEF n
<1>2. P = [i \in 1..n |-> Hash(At(row, 2 * i - 2, Zeroes[l]), At(row, 2 * i - 1, Zeroes[l]))]
  BY DEF Parents, n
<1> HIDE DEF P
<1>3. Len(P) = n
  BY <1>1, <1>2
<1>4. ASSUME NEW i \in 0..(n - 1)
      PROVE  P[i + 1] = Hash(At(row, 2 * i, Zeroes[l]), At(row, 2 * i + 1, Zeroes[l]))
  <2>1. i + 1 \in 1..n /\ 2 * (i + 1) - 2 = 2 * i /\ 2 * (i + 1) - 1 = 2 * i + 1
    BY <1>1
  <2> QED BY <1>2, <2>1
<1> QED BY <1>3, <1>4 DEF n, P

LEMMA LevelLen ==
  ASSUME NEW S, NEW s \in Seq(S)
  PROVE  \A l \in 0..Levels : Len(BuildLevels(s)[l]) \in Nat \ {0}
<1> DEFINE b == BuildLevels(s)
           G == {l \in Nat : l \in 0..Levels => Len(b[l]) \in Nat \ {0}}
<1>1. 0 \in G
  <2>1. CASE s = <<>>
    <3>1. b[0] = <<Zeroes[0]>>
      BY <2>1, LevelsFacts DEF NonEmpty
    <3> HIDE DEF b
    <3> QED BY <3>1
  <2>2. CASE s # <<>>
    <3>1. b[0] = s
      BY <2>2, LevelsFacts DEF NonEmpty
    <3> HIDE DEF b
    <3> QED BY <2>2, <3>1
  <2> QED BY <2>1, <2>2
<1>2. ASSUME NEW l \in Nat, l \in G PROVE l + 1 \in G
  <2> SUFFICES ASSUME l + 1 \in 0..Levels PROVE Len(b[l + 1]) \in Nat \ {0}
    OBVIOUS
  <2>1. l \in 0..(Levels - 1) /\ Len(b[l]) \in Nat \ {0}
    BY <1>2, LevelsType
  <2> DEFINE P == Parents(b[l], l)
  <2>2. b[l + 1] = NonEmpty(P, l + 1)
    BY <2>1, LevelsFacts
  <2>3. Len(P) = (Len(b[l]) + 1) \div 2
    BY <2>1, ParentsLen
  <2> HIDE DEF P, b
  <2>4. Len(P) \in Nat \ {0}
    <3> DEFINE n == Len(b[l])
    <3>1. n \in Nat \ {0} /\ Len(P) = (n + 1) \div 2
      BY <2>1, <2>3
    <3> HIDE DEF n
    <3> QED BY <3>1
  <2>5. P # <<>>
    BY <2>4
  <2> QED BY <2>2, <2>4, <2>5 DEF NonEmpty
<1> HIDE DEF G
<1>3. Nat \subseteq G
  BY <1>1, <1>2, Induct
<1> QED BY <1>3, LevelsType DEF G

\* The bottom level: the leaves, then zero.
LEMMA NodeLeaf ==
  ASSUME NEW S, NEW s \in Seq(S), NEW i \in Nat
  PROVE  Node(s, 0, i) = IF i < Len(s) THEN s[i + 1] ELSE Zero
<1>1. BuildLevels(s)[0] = NonEmpty(s, 0) /\ Zeroes[0] = Zero
  BY LevelsFacts, ZeroesFacts
<1>2. CASE s = <<>>
  <2>1. Node(s, 0, i) = At(<<Zero>>, i, Zero)
    BY <1>1, <1>2 DEF Node, NonEmpty
  <2> QED BY <1>2, <2>1 DEF At
<1>3. CASE s # <<>>
  BY <1>1, <1>3 DEF Node, NonEmpty, At
<1> QED BY <1>2, <1>3

\* A node is the hash of the two below it, also where the tree is empty.
LEMMA NodeParent ==
  ASSUME NEW S, NEW s \in Seq(S), NEW l \in 0..(Levels - 1), NEW i \in Nat
  PROVE  Node(s, l + 1, i) = Hash(Node(s, l, 2 * i), Node(s, l, 2 * i + 1))
<1> DEFINE b == BuildLevels(s)
           P == Parents(b[l], l)
           n == Len(b[l])
           m == (n + 1) \div 2
<1>1. n \in Nat \ {0} /\ l \in 0..Levels
  BY LevelLen, LevelsType
<1>2. b[l + 1] = NonEmpty(P, l + 1)
  BY LevelsFacts
<1>3. /\ Len(P) = m
      /\ \A j \in 0..(m - 1) : P[j + 1] = Hash(At(b[l], 2 * j, Zeroes[l]), At(b[l], 2 * j + 1, Zeroes[l]))
  BY <1>1, ParentsLen
<1> HIDE DEF P, b, n
<1>4. m \in Nat \ {0}
  BY <1>1
<1>5. P # <<>>
  BY <1>3, <1>4
<1>6. b[l + 1] = P
  BY <1>2, <1>5 DEF NonEmpty
<1>7. CASE i < m
  <2>1. Node(s, l + 1, i) = P[i + 1]
    BY <1>3, <1>6, <1>7 DEF Node, At, b
  <2>2. i \in 0..(m - 1)
    BY <1>4, <1>7
  <2> QED BY <1>3, <2>1, <2>2 DEF Node, b
<1>8. CASE ~(i < m)
  <2>1. Node(s, l + 1, i) = Zeroes[l + 1]
    BY <1>3, <1>6, <1>8 DEF Node, At, b
  <2>2. ~(2 * i < n) /\ ~(2 * i + 1 < n)
    BY <1>1, <1>8
  <2>3. Node(s, l, 2 * i) = Zeroes[l] /\ Node(s, l, 2 * i + 1) = Zeroes[l]
    BY <2>2 DEF Node, At, b, n
  <2> QED BY <2>1, <2>3, ZeroesFacts
<1> QED BY <1>7, <1>8

LEMMA RootIsNode ==
  ASSUME NEW S, NEW s \in Seq(S)
  PROVE  PrefixRoot(s) = Node(s, Levels, 0)
<1>0. Levels \in 0..Levels
  BY LevelsType
<1>1. Len(BuildLevels(s)[Levels]) \in Nat \ {0}
  BY <1>0, LevelLen
<1> QED BY <1>1 DEF PrefixRoot, Node, At

-----------------------------------------------------------------------------
(* Positions and the bits of an index.                                     *)

Pos(i, l) == PosOf(i)[l]

LEMMA PosRules ==
  ASSUME NEW i \in Nat
  PROVE  /\ Pos(i, 0) = i
         /\ \A l \in 0..(Levels - 1) : Pos(i, l + 1) = Pos(i, l) \div 2
         /\ \A l \in 0..Levels : Pos(i, l) \in Nat
<1>1. Pos(i, 0) = i /\ \A l \in 0..(Levels - 1) : Pos(i, l + 1) = Pos(i, l) \div 2
  BY PosFacts DEF Pos
<1> DEFINE G == {l \in Nat : l \in 0..Levels => Pos(i, l) \in Nat}
<1>2. 0 \in G
  BY <1>1
<1>3. ASSUME NEW l \in Nat, l \in G PROVE l + 1 \in G
  <2>1. l + 1 \in 0..Levels => l \in 0..Levels /\ l \in 0..(Levels - 1)
    BY LevelsType
  <2> QED BY <1>1, <1>3, <2>1
<1> HIDE DEF G
<1>4. Nat \subseteq G
  BY <1>2, <1>3, Induct
<1> QED BY <1>1, <1>4, LevelsType DEF G

LEMMA QuotientRemainder ==
  ASSUME NEW i \in Nat, NEW d \in Nat \ {0}
  PROVE  i \div d \in Nat /\ i % d \in Nat /\ i % d < d /\ i = d * (i \div d) + (i % d)
OBVIOUS

\* Halving twice is dividing by the product.
LEMMA HalfOfQuotient ==
  ASSUME NEW i \in Nat, NEW d \in Nat \ {0}
  PROVE  i \div (2 * d) = (i \div d) \div 2
<1> DEFINE q == i \div d
           r == i % d
           h == q \div 2
           b == q % 2
<1>1. q \in Nat /\ r \in Nat /\ r < d /\ i = d * q + r
  OBVIOUS
<1> HIDE DEF q, r
<1>2. h \in Nat /\ b \in 0..1 /\ q = 2 * h + b
  BY <1>1
<1> HIDE DEF h, b
<1>3. d * q = 2 * d * h + d * b
  BY <1>1, <1>2
<1>4. d * b + r < 2 * d /\ d * b + r >= 0
  BY <1>1, <1>2
<1>5. i = (2 * d) * h + (d * b + r)
  <2>1. (2 * d) * h \in Int /\ d * b \in Int /\ (2 * d) * h = 2 * d * h
    BY <1>2
  <2> QED BY <1>1, <1>3, <2>1
<1> DEFINE e == 2 * d
           x == d * b + r
<1>6. e \in Nat \ {0} /\ x \in Nat /\ x < e /\ i = e * h + x
  BY <1>1, <1>2, <1>4, <1>5
<1> HIDE DEF e, x
<1>7. i \div e = h
  <2> DEFINE k == i \div e
             y == i % e
  <2>1. k \in Nat /\ y \in Nat /\ y < e /\ i = e * k + y
    <3>1. e \in Nat \ {0}
      BY <1>6
    <3> QED BY <3>1, QuotientRemainder
  <2> HIDE DEF k, y
  <2>2. ~(k < h)
    <3> SUFFICES ASSUME k + 1 <= h PROVE FALSE
      BY <1>2, <2>1
    <3>1. e * (k + 1) <= e * h
      BY <1>2, <1>6, <2>1
    <3>2. e * (k + 1) = e * k + e
      BY <1>6, <2>1
    <3> QED BY <1>2, <1>6, <2>1, <3>1, <3>2
  <2>3. ~(h < k)
    <3> SUFFICES ASSUME h + 1 <= k PROVE FALSE
      BY <1>2, <2>1
    <3>1. e * (h + 1) <= e * k
      BY <1>2, <1>6, <2>1
    <3>2. e * (h + 1) = e * h + e
      BY <1>2, <1>6
    <3> QED BY <1>2, <1>6, <2>1, <3>1, <3>2
  <2> QED BY <1>2, <2>1, <2>2, <2>3 DEF k
<1> QED BY <1>7 DEF e, h, q

LEMMA PosIsQuotient ==
  ASSUME NEW i \in Nat
  PROVE  \A l \in 0..Levels : Pos(i, l) = i \div TwoTo[l]
<1> DEFINE G == {l \in Nat : l \in 0..Levels => Pos(i, l) = i \div TwoTo[l]}
<1>1. 0 \in G
  BY PosRules, TwoToFacts
<1>2. ASSUME NEW l \in Nat, l \in G PROVE l + 1 \in G
  <2> SUFFICES ASSUME l + 1 \in 0..Levels PROVE Pos(i, l + 1) = i \div TwoTo[l + 1]
    OBVIOUS
  <2>1. l \in 0..Levels /\ l \in 0..(Levels - 1) /\ l + 1 \in 1..Levels /\ (l + 1) - 1 = l
    BY LevelsType
  <2>2. TwoTo[l + 1] = 2 * TwoTo[l] /\ TwoTo[l] \in Nat \ {0}
    BY <2>1, TwoToFacts
  <2>3. Pos(i, l + 1) = (i \div TwoTo[l]) \div 2
    BY <1>2, <2>1, PosRules
  <2> QED BY <2>2, <2>3, HalfOfQuotient
<1> HIDE DEF G
<1>3. Nat \subseteq G
  BY <1>1, <1>2, Induct
<1> QED BY <1>3, LevelsType DEF G

\* The circuit's bit of a level says on which side the path is.
LEMMA BitIsSide ==
  ASSUME NEW i \in Nat, NEW l \in 0..(Levels - 1)
  PROVE  BitAt(i, l) = Pos(i, l) % 2
<1>1. l \in 0..Levels
  BY LevelsType
<1> QED BY <1>1, PosIsQuotient DEF BitAt

\* A path that starts below the capacity ends at the root.
LEMMA PosBelowRoot ==
  ASSUME NEW i \in Nat, i < TwoTo[Levels]
  PROVE  /\ \A l \in 0..Levels : Pos(i, l) < TwoTo[Levels - l]
         /\ Pos(i, Levels) = 0
<1> DEFINE G == {l \in Nat : l \in 0..Levels => Pos(i, l) < TwoTo[Levels - l]}
<1>1. 0 \in G
  BY PosRules, LevelsType
<1>2. ASSUME NEW l \in Nat, l \in G PROVE l + 1 \in G
  <2> SUFFICES ASSUME l + 1 \in 0..Levels PROVE Pos(i, l + 1) < TwoTo[Levels - (l + 1)]
    OBVIOUS
  <2> DEFINE k == Levels - l
  <2>1. /\ l \in 0..Levels /\ l \in 0..(Levels - 1)
        /\ k \in 1..Levels /\ k - 1 \in 0..Levels /\ Levels - (l + 1) = k - 1
    BY LevelsType
  <2>2. TwoTo[k] = 2 * TwoTo[k - 1] /\ TwoTo[k - 1] \in Nat
    BY <2>1, TwoToFacts
  <2>3. Pos(i, l) < TwoTo[k] /\ Pos(i, l + 1) = Pos(i, l) \div 2 /\ Pos(i, l) \in Nat
    BY <1>2, <2>1, PosRules
  <2>4. Pos(i, l + 1) < TwoTo[k - 1]
    BY <2>2, <2>3
  <2> QED BY <2>1, <2>4
<1> HIDE DEF G
<1>3. Nat \subseteq G
  BY <1>1, <1>2, Induct
<1>4. \A l \in 0..Levels : Pos(i, l) < TwoTo[Levels - l]
  BY <1>3, LevelsType DEF G
<1>5. Levels \in 0..Levels /\ Levels - Levels = 0
  BY LevelsType
<1>6. Pos(i, Levels) < 1 /\ Pos(i, Levels) \in Nat
  BY <1>4, <1>5, TwoToFacts, PosRules
<1> QED BY <1>4, <1>6
-----------------------------------------------------------------------------
(* Insertion.                                                              *)

\* Where the path of the next leaf goes right, the stored left sibling is the
\* node of the tree.
FilledFor(filled, s, n, from) ==
  /\ DOMAIN filled = 0..Levels
  /\ \A l \in from..(Levels - 1) : Pos(n, l) % 2 = 1 => filled[l] = Node(s, l, Pos(n, l) - 1)

\* t extends s at position p of level l: the nodes before are those of s, the
\* nodes after are empty.
ExtendsAt(s, t, l, p) ==
  /\ \A j \in Nat : j < p => Node(t, l, j) = Node(s, l, j)
  /\ \A j \in Nat : p < j => Node(t, l, j) = Zeroes[l]

LEMMA ExtendsUpwards ==
  ASSUME NEW S, NEW s \in Seq(S), NEW t \in Seq(S), NEW n \in Nat, NEW from \in 0..1,
         ExtendsAt(s, t, from, Pos(n, from))
  PROVE  \A l \in from..Levels : ExtendsAt(s, t, l, Pos(n, l))
<1> DEFINE G == {k \in Nat : from + k \in from..Levels => ExtendsAt(s, t, from + k, Pos(n, from + k))}
<1>1. 0 \in G
  OBVIOUS
<1>2. ASSUME NEW k \in Nat, k \in G PROVE k + 1 \in G
  <2> SUFFICES ASSUME from + (k + 1) \in from..Levels
               PROVE  ExtendsAt(s, t, from + (k + 1), Pos(n, from + (k + 1)))
    OBVIOUS
  <2> DEFINE l == from + k
             p == Pos(n, l)
             q == Pos(n, l + 1)
  <2>1. l \in from..Levels /\ l \in 0..(Levels - 1) /\ l \in 0..Levels /\ l + 1 = from + (k + 1)
    BY LevelsType
  <2>2. ExtendsAt(s, t, l, p)
    BY <1>2, <2>1
  <2>3. p \in Nat /\ q = p \div 2
    BY <2>1, PosRules
  <2> HIDE DEF l, p, q
  <2>4. ASSUME NEW j \in Nat, j < q PROVE Node(t, l + 1, j) = Node(s, l + 1, j)
    <3>1. 2 * j \in Nat /\ 2 * j + 1 \in Nat /\ 2 * j < p /\ 2 * j + 1 < p
      BY <2>3, <2>4
    <3>2. Node(t, l, 2 * j) = Node(s, l, 2 * j) /\ Node(t, l, 2 * j + 1) = Node(s, l, 2 * j + 1)
      BY <2>2, <3>1 DEF ExtendsAt
    <3> QED BY <2>1, <3>2, NodeParent
  <2>5. ASSUME NEW j \in Nat, q < j PROVE Node(t, l + 1, j) = Zeroes[l + 1]
    <3>1. 2 * j \in Nat /\ 2 * j + 1 \in Nat /\ p < 2 * j /\ p < 2 * j + 1
      BY <2>3, <2>5
    <3>2. Node(t, l, 2 * j) = Zeroes[l] /\ Node(t, l, 2 * j + 1) = Zeroes[l]
      BY <2>2, <3>1 DEF ExtendsAt
    <3> QED BY <2>1, <3>2, NodeParent, ZeroesFacts
  <2>6. ExtendsAt(s, t, l + 1, q)
    BY <2>4, <2>5 DEF ExtendsAt
  <2> QED BY <2>1, <2>6 DEF q
<1> HIDE DEF G
<1>3. Nat \subseteq G
  BY <1>1, <1>2, Induct
<1>4. ASSUME NEW l \in from..Levels PROVE ExtendsAt(s, t, l, Pos(n, l))
  <2>1. l - from \in Nat /\ from + (l - from) = l
    BY LevelsType
  <2>2. l - from \in G
    BY <1>3, <2>1
  <2> QED BY <2>1, <2>2 DEF G
<1> QED BY <1>4

\* What one level of the loop does to its three variables.
LoopVariables == {"hash", "index", "filled"}

Replaces(g, f, l, x) ==
  DOMAIN g = DOMAIN f /\ \A k \in DOMAIN f : g[k] = IF k = l THEN x ELSE f[k]

LEMMA ClimbLevelFields ==
  ASSUME NEW c, DOMAIN c = LoopVariables, NEW l, NEW r, r = ClimbLevel(c, l)
  PROVE  /\ DOMAIN r = LoopVariables
         /\ r.index = c.index \div 2
         /\ c.index % 2 = 1 => r.hash = Hash(c.filled[l], c.hash) /\ r.filled = c.filled
         /\ c.index % 2 # 1 => /\ r.hash = Hash(c.hash, Zeroes[l])
                               /\ Replaces(r.filled, c.filled, l, c.hash)
<1>1. CASE c.index % 2 = 1
  <2> DEFINE h == Hash(c.filled[l], c.hash)
             i == c.index \div 2
  <2>1. r = [c EXCEPT !.hash = h, !.index = i]
    BY <1>1 DEF ClimbLevel
  <2> HIDE DEF h, i
  <2>2. DOMAIN r = LoopVariables /\ r.hash = h /\ r.index = i /\ r.filled = c.filled
    BY <2>1 DEF LoopVariables
  <2> QED BY <1>1, <2>2 DEF h, i
<1>2. CASE c.index % 2 # 1
  <2> DEFINE h == Hash(c.hash, Zeroes[l])
             i == c.index \div 2
  <2>1. r = [c EXCEPT !.hash = h, !.index = i, !.filled[l] = c.hash]
    BY <1>2 DEF ClimbLevel
  <2> HIDE DEF h, i
  <2>2. /\ DOMAIN r = LoopVariables /\ r.hash = h /\ r.index = i
        /\ r.filled = [c.filled EXCEPT ![l] = c.hash]
    BY <2>1 DEF LoopVariables
  <2>3. Replaces(r.filled, c.filled, l, c.hash)
    BY <2>2 DEF Replaces
  <2> QED BY <1>2, <2>2, <2>3 DEF h, i
<1> QED BY <1>1, <1>2

LEMMA ClimbStartFields ==
  ASSUME NEW filled, NEW hash, NEW index, NEW c, c = ClimbStart(filled, hash, index)
  PROVE  DOMAIN c = LoopVariables /\ c.hash = hash /\ c.index = index /\ c.filled = filled
BY DEF ClimbStart, LoopVariables

\* The loop at level l: the hash is the node on the path, and below l the left
\* children on the path have been stored.
ClimbedTo(c, f, t, n, from, l) ==
  /\ DOMAIN c = LoopVariables
  /\ c.hash = Node(t, l, Pos(n, l))
  /\ c.index = Pos(n, l)
  /\ DOMAIN c.filled = 0..Levels
  /\ \A k \in from..(l - 1) :
       c.filled[k] = IF Pos(n, k) % 2 = 1 THEN f[k] ELSE Node(t, k, Pos(n, k))
  /\ \A k \in l..(Levels - 1) : c.filled[k] = f[k]

LEMMA ClimbFollowsNodes ==
  ASSUME NEW S, NEW s \in Seq(S), NEW t \in Seq(S), NEW n \in Nat, NEW from \in 0..1, NEW f,
         FilledFor(f, s, n, from), ExtendsAt(s, t, from, Pos(n, from))
  PROVE  LET start == ClimbStart(f, Node(t, from, Pos(n, from)), Pos(n, from))
         IN  \A l \in from..Levels : ClimbedTo(Climbing(start, from)[l], f, t, n, from, l)
<1> DEFINE start == ClimbStart(f, Node(t, from, Pos(n, from)), Pos(n, from))
           c == Climbing(start, from)
<1>a. /\ c[from] = start
      /\ \A l \in from..(Levels - 1) : c[l + 1] = ClimbLevel(c[l], l)
  BY ClimbFacts
<1>b. \A l \in from..Levels : ExtendsAt(s, t, l, Pos(n, l))
  BY ExtendsUpwards
<1> HIDE DEF c
<1> DEFINE G == {k \in Nat : from + k \in from..Levels => ClimbedTo(c[from + k], f, t, n, from, from + k)}
<1>1. 0 \in G
  <2>1. from..(from - 1) = {} /\ DOMAIN f = 0..Levels
    BY DEF FilledFor
  <2>2. /\ DOMAIN c[from] = LoopVariables
        /\ c[from].hash = Node(t, from, Pos(n, from))
        /\ c[from].index = Pos(n, from)
        /\ c[from].filled = f
    BY <1>a, ClimbStartFields
  <2>3. ClimbedTo(c[from], f, t, n, from, from)
    BY <2>1, <2>2 DEF ClimbedTo
  <2> QED BY <2>3
<1>2. ASSUME NEW k \in Nat, k \in G PROVE k + 1 \in G
  <2> SUFFICES ASSUME from + (k + 1) \in from..Levels
               PROVE  ClimbedTo(c[from + (k + 1)], f, t, n, from, from + (k + 1))
    OBVIOUS
  <2> DEFINE l == from + k
             p == Pos(n, l)
             q == Pos(n, l + 1)
  <2>1. /\ l \in from..Levels /\ l \in from..(Levels - 1) /\ l \in 0..(Levels - 1)
        /\ l \in 0..Levels /\ l + 1 = from + (k + 1)
    BY LevelsType
  <2>2. ClimbedTo(c[l], f, t, n, from, l)
    BY <1>2, <2>1
  <2>3. p \in Nat /\ q \in Nat /\ q = p \div 2
    BY <2>1, PosRules
  <2>4. ExtendsAt(s, t, l, p)
    BY <1>b, <2>1
  <2>5. p % 2 = 1 => f[l] = Node(s, l, p - 1)
    BY <2>1 DEF FilledFor
  <2> DEFINE filled == c[l].filled
             d == c[l + 1]
  <2> HIDE DEF l
  <2>6. /\ DOMAIN c[l] = LoopVariables /\ c[l].hash = Node(t, l, p) /\ c[l].index = p
        /\ DOMAIN filled = 0..Levels
        /\ \A i \in from..(l - 1) :
             filled[i] = IF Pos(n, i) % 2 = 1 THEN f[i] ELSE Node(t, i, Pos(n, i))
        /\ \A i \in l..(Levels - 1) : filled[i] = f[i]
    BY <2>2 DEF ClimbedTo
  <2>7. d = ClimbLevel(c[l], l)
    BY <1>a, <2>1
  <2> HIDE DEF p, q, filled, d
  <2>7a. /\ DOMAIN d = LoopVariables
         /\ d.index = p \div 2
         /\ p % 2 = 1 => d.hash = Hash(filled[l], Node(t, l, p)) /\ d.filled = filled
         /\ p % 2 # 1 => /\ d.hash = Hash(Node(t, l, p), Zeroes[l])
                         /\ Replaces(d.filled, filled, l, Node(t, l, p))
    <3> DEFINE e == c[l]
    <3>1. DOMAIN e = LoopVariables /\ d = ClimbLevel(e, l)
      BY <2>6, <2>7
    <3>2. e.hash = Node(t, l, p) /\ e.index = p /\ e.filled = filled
      BY <2>6 DEF filled
    <3> HIDE DEF e
    <3>3. /\ DOMAIN d = LoopVariables
          /\ d.index = e.index \div 2
          /\ e.index % 2 = 1 => d.hash = Hash(e.filled[l], e.hash) /\ d.filled = e.filled
          /\ e.index % 2 # 1 => /\ d.hash = Hash(e.hash, Zeroes[l])
                                /\ Replaces(d.filled, e.filled, l, e.hash)
      BY <3>1, ClimbLevelFields
    <3> QED BY <3>2, <3>3
  <2>8. Node(t, l + 1, q) = Hash(Node(t, l, 2 * q), Node(t, l, 2 * q + 1))
    BY <2>1, <2>3, NodeParent
  <2>9. CASE p % 2 = 1
    <3>1. p = 2 * q + 1 /\ p - 1 = 2 * q /\ 2 * q \in Nat /\ 2 * q < p
      BY <2>3, <2>9
    <3>2. filled[l] = Node(t, l, 2 * q)
      <4>1. l \in l..(Levels - 1)
        BY <2>1, LevelsType
      <4>2. filled[l] = f[l] /\ f[l] = Node(s, l, 2 * q)
        BY <2>5, <2>6, <2>9, <3>1, <4>1
      <4>3. Node(t, l, 2 * q) = Node(s, l, 2 * q)
        BY <2>4, <3>1 DEF ExtendsAt
      <4> QED BY <4>2, <4>3
    <3>3. d.hash = Node(t, l + 1, q) /\ d.filled = filled
      BY <2>7a, <2>8, <2>9, <3>1, <3>2
    <3>4. ASSUME NEW i \in from..((l + 1) - 1)
          PROVE  filled[i] = IF Pos(n, i) % 2 = 1 THEN f[i] ELSE Node(t, i, Pos(n, i))
      <4>1. CASE i = l
        BY <2>1, <2>6, <2>9, <4>1 DEF p
      <4>2. CASE i # l
        <5>1. i \in from..(l - 1)
          BY <2>1, <4>2
        <5> QED BY <2>6, <5>1
      <4> QED BY <4>1, <4>2
    <3>5. \A i \in (l + 1)..(Levels - 1) : filled[i] = f[i]
      BY <2>1, <2>6
    <3>6. ClimbedTo(c[l + 1], f, t, n, from, l + 1)
      BY <2>3, <2>6, <2>7a, <3>3, <3>4, <3>5 DEF ClimbedTo, q, d
    <3> QED BY <2>1, <3>6
  <2>10. CASE p % 2 # 1
    <3> DEFINE g == d.filled
    <3>1. p = 2 * q /\ 2 * q + 1 \in Nat /\ p < 2 * q + 1
      BY <2>3, <2>10
    <3>2. Node(t, l, 2 * q + 1) = Zeroes[l]
      BY <2>4, <3>1 DEF ExtendsAt
    <3>3. d.hash = Node(t, l + 1, q) /\ Replaces(g, filled, l, Node(t, l, p))
      BY <2>7a, <2>8, <2>10, <3>1, <3>2
    <3>4. DOMAIN g = 0..Levels /\ g[l] = Node(t, l, p)
          /\ \A i \in 0..Levels : i # l => g[i] = filled[i]
      BY <2>1, <2>6, <3>3 DEF Replaces
    <3> HIDE DEF g
    <3>5. ASSUME NEW i \in from..((l + 1) - 1)
          PROVE  g[i] = IF Pos(n, i) % 2 = 1 THEN f[i] ELSE Node(t, i, Pos(n, i))
      <4>1. CASE i = l
        BY <3>4, <2>10, <4>1 DEF p
      <4>2. CASE i # l
        <5>1. i \in from..(l - 1) /\ i \in 0..Levels
          BY <2>1, <4>2, LevelsType
        <5> QED BY <2>6, <3>4, <4>2, <5>1
      <4> QED BY <4>1, <4>2
    <3>6. ASSUME NEW i \in (l + 1)..(Levels - 1) PROVE g[i] = f[i]
      <4>1. i \in l..(Levels - 1) /\ i \in 0..Levels /\ i # l
        BY <2>1, LevelsType
      <4> QED BY <2>6, <3>4, <4>1
    <3>7. ClimbedTo(c[l + 1], f, t, n, from, l + 1)
      BY <2>3, <2>7a, <3>3, <3>4, <3>5, <3>6 DEF ClimbedTo, q, d, g
    <3> QED BY <2>1, <3>7
  <2> QED BY <2>9, <2>10
<1> HIDE DEF G
<1>3. Nat \subseteq G
  BY <1>1, <1>2, Induct
<1>4. ASSUME NEW l \in from..Levels PROVE ClimbedTo(c[l], f, t, n, from, l)
  <2>1. l - from \in Nat /\ from + (l - from) = l
    BY LevelsType
  <2>2. l - from \in G
    BY <1>3, <2>1
  <2> QED BY <2>1, <2>2 DEF G
<1> QED BY <1>4 DEF c

\* The next position is the same or one further at every level.
LEMMA NextPosition ==
  ASSUME NEW n \in Nat, NEW m \in Nat, NEW from \in 0..1, Pos(m, from) = Pos(n, from) + 1
  PROVE  \A l \in from..Levels : Pos(m, l) = Pos(n, l) \/ Pos(m, l) = Pos(n, l) + 1
<1> DEFINE Near(l) == Pos(m, l) = Pos(n, l) \/ Pos(m, l) = Pos(n, l) + 1
           G == {k \in Nat : from + k \in from..Levels => Near(from + k)}
<1>1. 0 \in G
  OBVIOUS
<1>2. ASSUME NEW k \in Nat, k \in G PROVE k + 1 \in G
  <2> SUFFICES ASSUME from + (k + 1) \in from..Levels PROVE Near(from + (k + 1))
    OBVIOUS
  <2> DEFINE l == from + k
  <2>1. l \in from..Levels /\ l \in 0..(Levels - 1) /\ l \in 0..Levels /\ l + 1 = from + (k + 1)
    BY LevelsType
  <2>2. Near(l)
    BY <1>2, <2>1
  <2>3. /\ Pos(n, l) \in Nat /\ Pos(m, l) \in Nat
        /\ Pos(n, l + 1) = Pos(n, l) \div 2 /\ Pos(m, l + 1) = Pos(m, l) \div 2
    BY <2>1, PosRules
  <2> HIDE DEF l
  <2>4. Near(l + 1)
    <3> DEFINE p == Pos(n, l)
               q == Pos(m, l)
    <3>1. p \in Nat /\ q \in Nat /\ (q = p \/ q = p + 1)
      BY <2>2, <2>3
    <3>2. Pos(n, l + 1) = p \div 2 /\ Pos(m, l + 1) = q \div 2
      BY <2>3
    <3> HIDE DEF p, q
    <3>3. q \div 2 = p \div 2 \/ q \div 2 = (p \div 2) + 1
      BY <3>1
    <3> QED BY <3>2, <3>3
  <2> QED BY <2>1, <2>4
<1> HIDE DEF G
<1>3. Nat \subseteq G
  BY <1>1, <1>2, Induct
<1>4. ASSUME NEW l \in from..Levels PROVE Near(l)
  <2>1. l - from \in Nat /\ from + (l - from) = l
    BY LevelsType
  <2>2. l - from \in G
    BY <1>3, <2>1
  <2> QED BY <2>1, <2>2 DEF G
<1> QED BY <1>4

\* An insertion below the capacity ends with the root of the longer sequence
\* and the siblings for the next one.
LEMMA ClimbIsInsertion ==
  ASSUME NEW S, NEW s \in Seq(S), NEW t \in Seq(S), NEW n \in Nat, NEW m \in Nat,
         NEW from \in 0..1, NEW f, n < TwoTo[Levels],
         FilledFor(f, s, n, from), ExtendsAt(s, t, from, Pos(n, from)),
         Pos(m, from) = Pos(n, from) + 1
  PROVE  LET top == Climb(f, Node(t, from, Pos(n, from)), Pos(n, from), from)
         IN  top.hash = PrefixRoot(t) /\ FilledFor(top.filled, t, m, from)
<1> DEFINE start == ClimbStart(f, Node(t, from, Pos(n, from)), Pos(n, from))
           top == Climb(f, Node(t, from, Pos(n, from)), Pos(n, from), from)
<1>1. top = Climbing(start, from)[Levels]
  BY ClimbIsClimbing
<1>2. Levels \in from..Levels
  BY LevelsType
<1>3. ClimbedTo(top, f, t, n, from, Levels)
  BY <1>1, <1>2, ClimbFollowsNodes
<1> HIDE DEF top
<1> DEFINE filled == top.filled
<1>4. /\ DOMAIN filled = 0..Levels
      /\ \A k \in from..(Levels - 1) :
           filled[k] = IF Pos(n, k) % 2 = 1 THEN f[k] ELSE Node(t, k, Pos(n, k))
  BY <1>3 DEF ClimbedTo
<1>5. top.hash = Node(t, Levels, Pos(n, Levels))
  BY <1>3 DEF ClimbedTo
<1> HIDE DEF filled
<1>6. top.hash = PrefixRoot(t)
  BY <1>5, PosBelowRoot, RootIsNode
<1>7. ASSUME NEW l \in from..(Levels - 1), Pos(m, l) % 2 = 1
      PROVE  filled[l] = Node(t, l, Pos(m, l) - 1)
  <2>0. l \in from..Levels /\ l \in 0..Levels
    BY LevelsType
  <2>1. Pos(n, l) \in Nat /\ Pos(m, l) \in Nat
    BY <2>0, PosRules
  <2>2. Pos(m, l) = Pos(n, l) \/ Pos(m, l) = Pos(n, l) + 1
    BY <2>0, NextPosition
  <2>3. CASE Pos(m, l) = Pos(n, l)
    <3>1. filled[l] = f[l] /\ f[l] = Node(s, l, Pos(n, l) - 1)
      BY <1>4, <1>7, <2>3 DEF FilledFor
    <3>2. Pos(n, l) - 1 \in Nat /\ Pos(n, l) - 1 < Pos(n, l)
      BY <1>7, <2>1, <2>3
    <3>3. Node(t, l, Pos(n, l) - 1) = Node(s, l, Pos(n, l) - 1)
      <4>1. ExtendsAt(s, t, l, Pos(n, l))
        BY <2>0, ExtendsUpwards
      <4> QED BY <3>2, <4>1 DEF ExtendsAt
    <3> QED BY <2>3, <3>1, <3>3
  <2>4. CASE Pos(m, l) = Pos(n, l) + 1
    <3>1. Pos(n, l) % 2 # 1 /\ Pos(m, l) - 1 = Pos(n, l)
      BY <1>7, <2>1, <2>4, SMTT(30)
    <3> QED BY <1>4, <3>1
  <2> QED BY <2>2, <2>3, <2>4
<1>8. FilledFor(top.filled, t, m, from)
  BY <1>4, <1>7 DEF FilledFor, filled
<1> QED BY <1>6, <1>8 DEF top

-----------------------------------------------------------------------------
(* The circuit's path.                                                     *)

\* The path of a leaf leads the circuit to the prover's root.
LEMMA PathReachesRoot ==
  ASSUME NEW S, NEW t \in Seq(S), NEW i \in Nat, i < Len(t), Len(t) <= TwoTo[Levels]
  PROVE  CircuitRoot(t[i + 1], PathElements(t, i), i) = PrefixRoot(t)
<1> DEFINE path == PathElements(t, i)
           c == NodesOf(t[i + 1], path, i)
<1>a. /\ c[0] = t[i + 1]
      /\ \A l \in 0..(Levels - 1) : c[l + 1] = CircuitSwitch(BitAt(i, l), c[l], path[l])
  BY NodesFacts
<1>b. \A l \in 0..(Levels - 1) : path[l] = Node(t, l, Sibling(Pos(i, l)))
  BY PathIsSiblings DEF Node, Pos
<1> HIDE DEF c, path
<1> DEFINE G == {l \in Nat : l \in 0..Levels => c[l] = Node(t, l, Pos(i, l))}
<1>1. 0 \in G
  BY <1>a, PosRules, NodeLeaf
<1>2. ASSUME NEW l \in Nat, l \in G PROVE l + 1 \in G
  <2> SUFFICES ASSUME l + 1 \in 0..Levels PROVE c[l + 1] = Node(t, l + 1, Pos(i, l + 1))
    OBVIOUS
  <2> DEFINE p == Pos(i, l)
             q == Pos(i, l + 1)
  <2>1. l \in 0..Levels /\ l \in 0..(Levels - 1)
    BY LevelsType
  <2>2. p \in Nat /\ q \in Nat /\ q = p \div 2
    BY <2>1, PosRules
  <2>3. c[l + 1] = CircuitSwitch(p % 2, Node(t, l, p), Node(t, l, Sibling(p)))
    BY <1>2, <1>a, <1>b, <2>1, BitIsSide
  <2> HIDE DEF p, q
  <2>4. Node(t, l + 1, q) = Hash(Node(t, l, 2 * q), Node(t, l, 2 * q + 1))
    BY <2>1, <2>2, NodeParent
  <2>5. CASE p % 2 = 0
    <3>1. p = 2 * q /\ Sibling(p) = 2 * q + 1
      BY <2>2, <2>5 DEF Sibling
    <3> QED BY <2>3, <2>4, <2>5, <3>1 DEF CircuitSwitch, q
  <2>6. CASE p % 2 = 1
    <3>1. p = 2 * q + 1 /\ Sibling(p) = 2 * q
      BY <2>2, <2>6 DEF Sibling
    <3> QED BY <2>3, <2>4, <2>6, <3>1 DEF CircuitSwitch, q
  <2> QED BY <2>2, <2>5, <2>6
<1> HIDE DEF G
<1>3. Nat \subseteq G
  BY <1>1, <1>2, Induct
<1>4. Levels \in Nat /\ Levels \in 0..Levels
  BY LevelsType
<1>5. c[Levels] = Node(t, Levels, Pos(i, Levels))
  BY <1>3, <1>4 DEF G
<1>6. i < TwoTo[Levels]
  <2>1. TwoTo[Levels] \in Nat
    BY <1>4, TwoToFacts
  <2> QED BY <2>1
<1>7. c[Levels] = PrefixRoot(t)
  BY <1>5, <1>6, PosBelowRoot, RootIsNode
<1> QED BY <1>7, CircuitRootIsNode DEF c, path

-----------------------------------------------------------------------------
(* Different trees have different roots.                                   *)

LEMMA HashInjective ==
  ASSUME NEW a, NEW b, NEW c, NEW d, Hash(a, b) = Hash(c, d)
  PROVE  a = c /\ b = d
BY DEF Hash

\* Equal roots mean equal nodes, down to the leaves.
LEMMA RootDeterminesNodes ==
  ASSUME NEW S, NEW s \in Seq(S), NEW t \in Seq(S), PrefixRoot(s) = PrefixRoot(t)
  PROVE  \A j \in 0..(TwoTo[Levels] - 1) : Node(s, 0, j) = Node(t, 0, j)
<1> DEFINE Same(k) == \A j \in 0..(TwoTo[k] - 1) : Node(s, Levels - k, j) = Node(t, Levels - k, j)
           G == {k \in Nat : k \in 0..Levels => Same(k)}
<1>1. 0 \in G
  <2>1. Levels - 0 = Levels /\ TwoTo[0] - 1 = 0
    BY LevelsType, TwoToFacts
  <2>2. \A j \in 0..0 : j = 0
    OBVIOUS
  <2> QED BY <2>1, <2>2, RootIsNode
<1>2. ASSUME NEW k \in Nat, k \in G PROVE k + 1 \in G
  <2> SUFFICES ASSUME k + 1 \in 0..Levels, NEW j \in 0..(TwoTo[k + 1] - 1)
               PROVE  Node(s, Levels - (k + 1), j) = Node(t, Levels - (k + 1), j)
    OBVIOUS
  <2> DEFINE l == Levels - (k + 1)
             i == j \div 2
  <2>1. /\ k \in 0..Levels /\ k + 1 \in 1..Levels /\ (k + 1) - 1 = k
        /\ l \in 0..(Levels - 1) /\ l + 1 = Levels - k
    BY LevelsType
  <2>2. TwoTo[k + 1] = 2 * TwoTo[k] /\ TwoTo[k] \in Nat
    BY <2>1, TwoToFacts
  <2>3. i \in Nat /\ i \in 0..(TwoTo[k] - 1) /\ (j = 2 * i \/ j = 2 * i + 1)
    BY <2>2, SMTT(30)
  <2> HIDE DEF l, i
  <2>4. Node(s, l + 1, i) = Node(t, l + 1, i)
    BY <1>2, <2>1, <2>3
  <2>5. Hash(Node(s, l, 2 * i), Node(s, l, 2 * i + 1)) = Hash(Node(t, l, 2 * i), Node(t, l, 2 * i + 1))
    BY <2>1, <2>3, <2>4, NodeParent
  <2>6. Node(s, l, 2 * i) = Node(t, l, 2 * i) /\ Node(s, l, 2 * i + 1) = Node(t, l, 2 * i + 1)
    BY <2>5, HashInjective
  <2> QED BY <2>3, <2>6 DEF l
<1> HIDE DEF G
<1>3. Nat \subseteq G
  BY <1>1, <1>2, Induct
<1>4. Levels \in Nat /\ Levels \in 0..Levels /\ Levels - Levels = 0
  BY LevelsType
<1> QED BY <1>3, <1>4 DEF G

\* No commitment is zero, so a longer sequence has another root.
LEMMA LongerTreeDiffers ==
  ASSUME NEW s \in Seq(Commitment), NEW t \in Seq(Commitment),
         Len(s) < Len(t), Len(t) <= TwoTo[Levels]
  PROVE  PrefixRoot(s) # PrefixRoot(t)
<1> SUFFICES ASSUME PrefixRoot(s) = PrefixRoot(t) PROVE FALSE
  OBVIOUS
<1>1. Levels \in 0..Levels
  BY LevelsType
<1>2. TwoTo[Levels] \in Nat /\ Len(s) \in Nat /\ Len(t) \in Nat
  BY <1>1, TwoToFacts
<1>3. Len(s) \in 0..(TwoTo[Levels] - 1) /\ Len(s) + 1 \in 1..Len(t)
  BY <1>2
<1>4. Node(s, 0, Len(s)) = Node(t, 0, Len(s))
  BY <1>3, RootDeterminesNodes
<1>5. Node(s, 0, Len(s)) = Zero /\ Node(t, 0, Len(s)) = t[Len(s) + 1]
  BY <1>2, NodeLeaf
<1>6. t[Len(s) + 1] \in Commitment
  BY <1>3
<1> QED BY <1>4, <1>5, <1>6, LeafAssumption
-----------------------------------------------------------------------------
(* The empty tree.                                                         *)

LEMMA EmptyTree ==
  /\ PrefixRoot(<<>>) = Zeroes[Levels]
  /\ \A from \in 0..1 : FilledFor(Zeroes, <<>>, 0, from)
<1> DEFINE S == {Zero}
           G == {l \in Nat : l \in 0..Levels => \A i \in Nat : Node(<<>>, l, i) = Zeroes[l]}
<1>0. <<>> \in Seq(S) /\ Len(<<>>) = 0
  OBVIOUS
<1>1. 0 \in G
  <2>1. ASSUME NEW i \in Nat PROVE Node(<<>>, 0, i) = Zeroes[0]
    <3>1. Node(<<>>, 0, i) = IF i < Len(<<>>) THEN (<<>>)[i + 1] ELSE Zero
      BY <1>0, NodeLeaf
    <3>2. ~(i < Len(<<>>))
      BY <1>0
    <3> QED BY <3>1, <3>2, ZeroesFacts
  <2> QED BY <2>1
<1>2. ASSUME NEW l \in Nat, l \in G PROVE l + 1 \in G
  <2> SUFFICES ASSUME l + 1 \in 0..Levels, NEW i \in Nat PROVE Node(<<>>, l + 1, i) = Zeroes[l + 1]
    OBVIOUS
  <2>1. l \in 0..Levels /\ l \in 0..(Levels - 1)
    BY LevelsType
  <2>2. 2 * i \in Nat /\ 2 * i + 1 \in Nat
    OBVIOUS
  <2>3. Node(<<>>, l, 2 * i) = Zeroes[l] /\ Node(<<>>, l, 2 * i + 1) = Zeroes[l]
    BY <1>2, <2>1, <2>2
  <2>4. Node(<<>>, l + 1, i) = Hash(Node(<<>>, l, 2 * i), Node(<<>>, l, 2 * i + 1))
    BY <1>0, <2>1, NodeParent
  <2> QED BY <2>1, <2>3, <2>4, ZeroesFacts
<1> HIDE DEF G
<1>3. Nat \subseteq G
  BY <1>1, <1>2, Induct
<1>4. PrefixRoot(<<>>) = Zeroes[Levels]
  <2>1. Levels \in Nat /\ Levels \in 0..Levels
    BY LevelsType
  <2>2. Node(<<>>, Levels, 0) = Zeroes[Levels]
    BY <1>3, <2>1 DEF G
  <2> QED BY <1>0, <2>2, RootIsNode
<1>5. ASSUME NEW from \in 0..1 PROVE FilledFor(Zeroes, <<>>, 0, from)
  <2>1. ASSUME NEW l \in from..(Levels - 1) PROVE Pos(0, l) % 2 # 1
    <3>1. l \in 0..Levels
      BY LevelsType
    <3>2. Pos(0, l) = 0 \div TwoTo[l] /\ TwoTo[l] \in Nat \ {0}
      BY <3>1, PosIsQuotient, TwoToFacts
    <3>3. 0 \div TwoTo[l] = 0
      <4> DEFINE d == TwoTo[l]
      <4>1. d \in Nat \ {0}
        BY <3>2
      <4> HIDE DEF d
      <4>2. 0 \div d = 0
        BY <4>1
      <4> QED BY <4>2 DEF d
    <3>4. Pos(0, l) = 0
      BY <3>2, <3>3
    <3> QED BY <3>4
  <2> QED BY <2>1, ZeroesFacts DEF FilledFor
<1> QED BY <1>4, <1>5

-----------------------------------------------------------------------------
(* The pool's commitment tree.                                             *)

\* The slot that was written d insertions ago.
RingSlot(d) ==
  IF d <= currentRootIndex THEN currentRootIndex - d
                           ELSE currentRootIndex - d + RootHistorySize

\* After t insertions, going back d slots gives the root of d insertions ago.
RingAt(t) ==
  /\ Len(leaves) = 2 * t
  /\ \A d \in 0..(RootHistorySize - 1) :
       roots[RingSlot(d)] = IF d <= t THEN PrefixRoot(TreeAfter(t - d)) ELSE NoRoot

TreeInv ==
  /\ leaves \in Seq(Commitment)
  /\ treeNextIndex = Len(leaves)
  /\ Len(leaves) <= TwoTo[Levels]
  /\ FilledFor(filledSubtree, leaves, Len(leaves), 1)
  /\ currentRootIndex \in 0..(RootHistorySize - 1)
  /\ DOMAIN roots = 0..(RootHistorySize - 1)
  /\ \E t \in Nat : RingAt(t)

LEMMA TreeStarts == TreeInit => TreeInv
<1> SUFFICES ASSUME TreeInit PROVE TreeInv
  OBVIOUS
<1>1. leaves = <<>> /\ leaves \in Seq(Commitment) /\ Len(leaves) = 0 /\ treeNextIndex = 0
  BY DEF TreeInit
<1>2. FilledFor(filledSubtree, leaves, Len(leaves), 1)
  BY <1>1, EmptyTree DEF TreeInit
<1>3. currentRootIndex = 0 /\ 0 \in 0..(RootHistorySize - 1) /\ DOMAIN roots = 0..(RootHistorySize - 1)
  BY HistorySize DEF TreeInit
<1>4. Len(leaves) <= TwoTo[Levels]
  <2>1. Levels \in 0..Levels
    BY LevelsType
  <2>2. TwoTo[Levels] \in Nat
    BY <2>1, TwoToFacts
  <2> QED BY <1>1, <2>2
<1>5. ASSUME NEW d \in 0..(RootHistorySize - 1)
      PROVE  roots[RingSlot(d)] = IF d <= 0 THEN PrefixRoot(TreeAfter(0 - d)) ELSE NoRoot
  <2>1. CASE d = 0
    <3>1. RingSlot(d) = 0
      BY <1>3, <2>1 DEF RingSlot
    <3>2. roots[0] = PrefixRoot(<<>>)
      BY <1>3, EmptyTree DEF TreeInit
    <3>3. TreeAfter(0 - d) = <<>>
      BY <1>1, <2>1 DEF TreeAfter
    <3> QED BY <2>1, <3>1, <3>2, <3>3
  <2>2. CASE d # 0
    <3>1. RingSlot(d) \in 0..(RootHistorySize - 1) /\ RingSlot(d) # 0 /\ ~(d <= 0)
      BY <1>3, <2>2, HistorySize DEF RingSlot
    <3>2. roots[RingSlot(d)] = NoRoot
      BY <3>1 DEF TreeInit
    <3> QED BY <3>1, <3>2
  <2> QED BY <2>1, <2>2
<1>6. RingAt(0)
  BY <1>1, <1>5 DEF RingAt
<1> QED BY <1>1, <1>2, <1>3, <1>4, <1>6 DEF TreeInv

\* Two leaves appended to an even number of them extend the tree at one node of
\* the first level.
LEMMA PairExtends ==
  ASSUME NEW S, NEW s \in Seq(S), NEW a \in S, NEW b \in S, NEW h \in Nat, Len(s) = 2 * h
  PROVE  LET t == s \o <<a, b>>
         IN  /\ t \in Seq(S) /\ Len(t) = Len(s) + 2
             /\ Pos(Len(s), 1) = h /\ Pos(Len(t), 1) = h + 1
             /\ Node(t, 1, h) = Hash(a, b)
             /\ ExtendsAt(s, t, 1, h)
<1> DEFINE t == s \o <<a, b>>
           n == Len(s)
<1>1. /\ t \in Seq(S) /\ Len(t) = n + 2
      /\ \A i \in 1..n : t[i] = s[i]
      /\ t[n + 1] = a /\ t[n + 2] = b
  OBVIOUS
<1>2. n \in Nat /\ n = 2 * h /\ n + 2 \in Nat /\ 0 \in 0..(Levels - 1)
  BY LevelsType
<1> HIDE DEF t, n
<1>3. Pos(n, 1) = h /\ Pos(n + 2, 1) = h + 1
  <2>1. Pos(n, 0 + 1) = n \div 2 /\ Pos(n + 2, 0 + 1) = (n + 2) \div 2
    BY <1>2, PosRules
  <2>2. n \div 2 = h /\ (n + 2) \div 2 = h + 1
    BY <1>2
  <2> QED BY <2>1, <2>2
<1>4. \A u \in Seq(S) : \A j \in Nat : Node(u, 1, j) = Hash(Node(u, 0, 2 * j), Node(u, 0, 2 * j + 1))
  <2>1. 0 + 1 = 1
    OBVIOUS
  <2> QED BY <1>2, <2>1, NodeParent
<1>5. \A j \in Nat : Node(t, 0, j) = IF j < n + 2 THEN t[j + 1] ELSE Zero
  BY <1>1, NodeLeaf
<1>6. \A j \in Nat : Node(s, 0, j) = IF j < n THEN s[j + 1] ELSE Zero
  BY NodeLeaf DEF n
<1>7. Node(t, 1, h) = Hash(a, b)
  <2>1. 2 * h \in Nat /\ 2 * h + 1 \in Nat /\ 2 * h = n /\ 2 * h < n + 2 /\ 2 * h + 1 < n + 2
        /\ (2 * h + 1) + 1 = n + 2
    BY <1>2
  <2>2. Node(t, 0, 2 * h) = a /\ Node(t, 0, 2 * h + 1) = b
    BY <1>1, <1>5, <2>1
  <2> QED BY <1>1, <1>4, <2>2
<1>8. ASSUME NEW j \in Nat, j < h PROVE Node(t, 1, j) = Node(s, 1, j)
  <2>1. /\ 2 * j \in Nat /\ 2 * j + 1 \in Nat /\ 2 * j < n /\ 2 * j + 1 < n
        /\ 2 * j < n + 2 /\ 2 * j + 1 < n + 2
        /\ 2 * j + 1 \in 1..n /\ (2 * j + 1) + 1 \in 1..n
    BY <1>2, <1>8
  <2>2. Node(t, 0, 2 * j) = Node(s, 0, 2 * j) /\ Node(t, 0, 2 * j + 1) = Node(s, 0, 2 * j + 1)
    BY <1>1, <1>5, <1>6, <2>1
  <2> QED BY <1>1, <1>4, <2>2
<1>9. ASSUME NEW j \in Nat, h < j PROVE Node(t, 1, j) = Zeroes[1]
  <2>1. 2 * j \in Nat /\ 2 * j + 1 \in Nat /\ ~(2 * j < n + 2) /\ ~(2 * j + 1 < n + 2)
    BY <1>2, <1>9
  <2>2. Node(t, 0, 2 * j) = Zero /\ Node(t, 0, 2 * j + 1) = Zero
    BY <1>5, <2>1
  <2>3. Zeroes[0 + 1] = Hash(Zero, Zero) /\ 0 + 1 = 1
    BY <1>2, ZeroesFacts
  <2> QED BY <1>1, <1>4, <2>2, <2>3
<1> QED BY <1>1, <1>3, <1>7, <1>8, <1>9 DEF ExtendsAt, t, n

\* A prefix of a sequence is a prefix of every extension of it.
LEMMA PrefixOfPair ==
  ASSUME NEW S, NEW s \in Seq(S), NEW a \in S, NEW b \in S, NEW m \in 0..Len(s)
  PROVE  SubSeq(s \o <<a, b>>, 1, m) = SubSeq(s, 1, m)
OBVIOUS

LEMMA WholePrefix ==
  ASSUME NEW S, NEW s \in Seq(S)
  PROVE  SubSeq(s, 1, Len(s)) = s
OBVIOUS

\* A number below twice the modulus wraps at most once.
LEMMA WrapOnce ==
  ASSUME NEW H \in Nat \ {0}, NEW x \in 0..(2 * H - 1)
  PROVE  x % H = IF x < H THEN x ELSE x - H
<1> DEFINE q == x \div H
           r == x % H
<1>1. q \in Nat /\ r \in Nat /\ r < H /\ x = H * q + r
  BY QuotientRemainder
<1> HIDE DEF q, r
<1>2. q < 2
  <2> SUFFICES ASSUME 2 <= q PROVE FALSE
    BY <1>1
  <2>1. H * 2 <= H * q
    BY <1>1
  <2> QED BY <1>1, <2>1
<1>3. CASE q = 0
  BY <1>1, <1>3 DEF r
<1>4. CASE q = 1
  BY <1>1, <1>4 DEF r
<1> QED BY <1>1, <1>2, <1>3, <1>4

LEMMA InsertKeeps ==
  ASSUME TreeInv, NEW a \in Commitment, NEW b \in Commitment, InsertTwoLeaves(a, b)
  PROVE  TreeInv'
<1> DEFINE H == RootHistorySize
           next == NextSlot(currentRootIndex)
           n == Len(leaves)
           top == Climb(filledSubtree, Hash(a, b), treeNextIndex \div 2, 1)
<1>0. H \in Nat \ {0} /\ currentRootIndex \in 0..(H - 1) /\ DOMAIN roots = 0..(H - 1)
  BY HistorySize DEF TreeInv
<1>1. PICK t \in Nat : RingAt(t)
  BY DEF TreeInv
<1>2. n = 2 * t /\ n \in Nat /\ treeNextIndex = n /\ leaves \in Seq(Commitment)
  BY <1>1 DEF TreeInv, RingAt
<1>3. next = IF currentRootIndex + 1 = H THEN 0 ELSE currentRootIndex + 1
  <2> DEFINE x == currentRootIndex + 1
             size == H
  <2>1. x \in 0..(2 * size - 1) /\ size \in Nat \ {0}
    BY <1>0
  <2> HIDE DEF x, size
  <2>2. x % size = IF x < size THEN x ELSE x - size
    BY <2>1, WrapOnce
  <2> QED BY <1>0, <2>2 DEF NextSlot, x, size
<1>4. /\ n + 2 <= TwoTo[Levels]
      /\ filledSubtree' = top.filled
      /\ roots' = [roots EXCEPT ![next] = top.hash]
      /\ currentRootIndex' = next
      /\ treeNextIndex' = n + 2
      /\ leaves' = leaves \o <<a, b>>
  BY <1>2 DEF InsertTwoLeaves, HasRoom
<1>5. /\ leaves' \in Seq(Commitment) /\ Len(leaves') = n + 2
      /\ Pos(n, 1) = t /\ Pos(n + 2, 1) = t + 1
      /\ Node(leaves', 1, t) = Hash(a, b)
      /\ ExtendsAt(leaves, leaves', 1, t)
  <2> DEFINE u == leaves \o <<a, b>>
  <2>1. /\ u \in Seq(Commitment) /\ Len(u) = Len(leaves) + 2
        /\ Pos(Len(leaves), 1) = t /\ Pos(Len(u), 1) = t + 1
        /\ Node(u, 1, t) = Hash(a, b)
        /\ ExtendsAt(leaves, u, 1, t)
    BY <1>2, PairExtends
  <2>2. leaves' = u
    BY <1>4
  <2> HIDE DEF u
  <2> QED BY <2>1, <2>2
<1>6. treeNextIndex \div 2 = t
  BY <1>2
<1>7. top.hash = PrefixRoot(leaves') /\ FilledFor(top.filled, leaves', n + 2, 1)
  <2> DEFINE m == n + 2
             f == filledSubtree
             u == leaves'
  <2>1. top = Climb(f, Node(u, 1, Pos(n, 1)), Pos(n, 1), 1)
    BY <1>5, <1>6
  <2>2. FilledFor(f, leaves, n, 1)
    BY DEF TreeInv
  <2>3. m \in Nat /\ 1 \in 0..1
    BY <1>2
  <2>4. n < TwoTo[Levels]
    <3>1. Levels \in 0..Levels
      BY LevelsType
    <3>2. TwoTo[Levels] \in Nat
      BY <3>1, TwoToFacts
    <3> QED BY <1>2, <1>4, <3>2
  <2>5. ExtendsAt(leaves, u, 1, Pos(n, 1)) /\ Pos(m, 1) = Pos(n, 1) + 1
    BY <1>5
  <2> HIDE DEF top, n, m, f, u
  <2>6. LET c == Climb(f, Node(u, 1, Pos(n, 1)), Pos(n, 1), 1)
        IN  c.hash = PrefixRoot(u) /\ FilledFor(c.filled, u, m, 1)
    <3>1. u \in Seq(Commitment)
      BY <1>5 DEF u
    <3> QED BY <1>2, <2>2, <2>3, <2>4, <2>5, <3>1, ClimbIsInsertion
  <2> QED BY <2>1, <2>6 DEF u, m
<1> HIDE DEF top, next, H
<1>8. ASSUME NEW d \in 0..(H - 1)
      PROVE  roots'[RingSlot(d)'] = IF d <= t + 1 THEN PrefixRoot(TreeAfter(t + 1 - d)') ELSE NoRoot
  <2>1. CASE d = 0
    <3>1. RingSlot(d)' = next
      BY <2>1, <1>0, <1>3, <1>4 DEF RingSlot
    <3>2. roots'[next] = PrefixRoot(leaves')
      BY <1>0, <1>3, <1>4, <1>7
    <3>3. TreeAfter(t + 1 - d)' = leaves'
      <4>1. 2 * (t + 1 - d) = Len(leaves')
        BY <2>1, <1>2, <1>5
      <4> QED BY <4>1, <1>5, WholePrefix DEF TreeAfter
    <3>4. d <= t + 1
      BY <2>1
    <3> QED BY <3>1, <3>2, <3>3, <3>4
  <2>2. CASE d # 0
    <3>1. (d - 1) \in 0..(H - 1) /\ RingSlot(d)' = RingSlot(d - 1)
      BY <2>2, <1>0, <1>3, <1>4 DEF RingSlot, H
    <3>2. RingSlot(d - 1) \in 0..(H - 1) /\ RingSlot(d - 1) # next
      BY <2>2, <1>0, <1>3 DEF RingSlot, H
    <3>3. roots'[RingSlot(d)'] = roots[RingSlot(d - 1)]
      BY <1>0, <1>4, <3>1, <3>2
    <3>4. roots[RingSlot(d - 1)] = IF d - 1 <= t THEN PrefixRoot(TreeAfter(t - (d - 1))) ELSE NoRoot
      BY <1>1, <3>1 DEF RingAt, H
    <3>5. CASE d <= t + 1
      <4>1. 2 * (t + 1 - d) \in 0..Len(leaves) /\ t - (d - 1) = t + 1 - d
        BY <3>5, <2>2, <1>0, <1>2
      <4>2. TreeAfter(t + 1 - d)' = SubSeq(leaves, 1, 2 * (t + 1 - d))
        BY <4>1, <1>2, <1>4, PrefixOfPair DEF TreeAfter
      <4>3. TreeAfter(t - (d - 1)) = SubSeq(leaves, 1, 2 * (t + 1 - d))
        BY <4>1 DEF TreeAfter
      <4>4. d - 1 <= t
        BY <3>5, <1>0
      <4> QED BY <3>3, <3>4, <3>5, <4>2, <4>3, <4>4
    <3>6. CASE ~(d <= t + 1)
      BY <3>3, <3>4, <3>6, <1>0
    <3> QED BY <3>5, <3>6
  <2> QED BY <2>1, <2>2
<1>9. RingAt(t + 1)'
  <2>1. Len(leaves') = 2 * (t + 1)
    BY <1>2, <1>5
  <2> QED BY <1>8, <2>1 DEF RingAt, H
<1>10. currentRootIndex' \in 0..(H - 1) /\ DOMAIN roots' = 0..(H - 1)
  BY <1>0, <1>3, <1>4
<1> QED BY <1>4, <1>5, <1>7, <1>9, <1>10 DEF TreeInv, H, n

LEMMA TreeSteps == TreeInv /\ [TreeNext]_treeVars => TreeInv'
<1> SUFFICES ASSUME TreeInv, [TreeNext]_treeVars PROVE TreeInv'
  OBVIOUS
<1>1. CASE TreeNext
  BY <1>1, InsertKeeps DEF TreeNext
<1>2. CASE UNCHANGED treeVars
  BY <1>2 DEF treeVars, TreeInv, RingAt, RingSlot, TreeAfter, FilledFor
<1> QED BY <1>1, <1>2

\* is_known_root visits every slot: each is written some insertions ago.
LEMMA VisitsEverySlot ==
  ASSUME TreeInv, NEW known
  PROVE  IsKnownRoot(known) <=> \E d \in 0..(RootHistorySize - 1) : roots[RingSlot(d)] = known
<1> DEFINE H == RootHistorySize
<1>0. H \in Nat \ {0} /\ currentRootIndex \in 0..(H - 1)
  BY HistorySize DEF TreeInv
<1>1. ASSUME NEW k \in 0..(H - 1), NEW d \in 0..(H - 1), d = IF k = 0 THEN 0 ELSE H - k
      PROVE  RingSlot(d) = (currentRootIndex + k) % H
  <2> DEFINE x == currentRootIndex + k
             size == H
  <2>1. x \in 0..(2 * size - 1) /\ size \in Nat \ {0}
    BY <1>0
  <2> HIDE DEF x, size
  <2>2. x % size = IF x < size THEN x ELSE x - size
    BY <2>1, WrapOnce
  <2> QED BY <1>0, <1>1, <2>2 DEF RingSlot, x, size
<1>2. ASSUME NEW k \in 0..(H - 1), roots[(currentRootIndex + k) % H] = known
      PROVE  \E d \in 0..(H - 1) : roots[RingSlot(d)] = known
  <2> DEFINE d == IF k = 0 THEN 0 ELSE H - k
  <2>1. d \in 0..(H - 1)
    BY <1>0
  <2> QED BY <1>1, <1>2, <2>1
<1>3. ASSUME NEW d \in 0..(H - 1), roots[RingSlot(d)] = known
      PROVE  \E k \in 0..(H - 1) : roots[(currentRootIndex + k) % H] = known
  <2> DEFINE k == IF d = 0 THEN 0 ELSE H - d
  <2>1. k \in 0..(H - 1) /\ d = IF k = 0 THEN 0 ELSE H - k
    BY <1>0
  <2> QED BY <1>1, <1>3, <2>1
<1> QED BY <1>2, <1>3 DEF IsKnownRoot

LEMMA TreeInvSuffices == TreeInv => TreesAgree
<1> SUFFICES ASSUME TreeInv PROVE TreesAgree
  OBVIOUS
<1> DEFINE H == RootHistorySize
<1>0. /\ H \in Nat \ {0} /\ leaves \in Seq(Commitment) /\ Len(leaves) \in Nat
      /\ currentRootIndex \in 0..(H - 1) /\ Len(leaves) <= TwoTo[Levels]
  BY HistorySize DEF TreeInv
<1>a. TwoTo[Levels] \in Nat
  <2>1. Levels \in 0..Levels
    BY LevelsType
  <2> QED BY <2>1, TwoToFacts
<1>1. PICK t \in Nat : RingAt(t)
  BY DEF TreeInv
<1>2. Len(leaves) = 2 * t /\ Len(leaves) \div 2 = t
  <2>1. Len(leaves) = 2 * t
    BY <1>1 DEF RingAt
  <2> QED BY <2>1
<1>3. \A d \in 0..(H - 1) : d <= t => roots[RingSlot(d)] = PrefixRoot(TreeAfter(t - d))
  BY <1>1 DEF RingAt
<1>4. ASSUME NEW k \in 0..t
      PROVE  /\ TreeAfter(k) \in Seq(Commitment) /\ Len(TreeAfter(k)) = 2 * k
             /\ \A i \in 1..(2 * k) : TreeAfter(k)[i] = leaves[i]
  <2>1. 2 * k \in 0..Len(leaves)
    BY <1>2
  <2> QED BY <1>0, <2>1 DEF TreeAfter
<1>5. ProverRootAgrees
  <2>1. 0 \in 0..(H - 1) /\ 0 <= t /\ RingSlot(0) = currentRootIndex /\ t - 0 = t
    BY <1>0 DEF RingSlot
  <2>2. TreeAfter(t) = leaves
    BY <1>0, <1>2, WholePrefix DEF TreeAfter
  <2>3. roots[RingSlot(0)] = PrefixRoot(TreeAfter(t - 0))
    BY <1>3, <2>1
  <2> QED BY <2>1, <2>2, <2>3 DEF ProverRootAgrees, GetLastRoot
<1>6. ASSUME NEW k \in 0..t, t - k < H PROVE IsKnownRoot(PrefixRoot(TreeAfter(k)))
  <2>1. t - k \in 0..(H - 1) /\ t - k <= t /\ t - (t - k) = k
    BY <1>0, <1>6
  <2>2. roots[RingSlot(t - k)] = PrefixRoot(TreeAfter(k))
    BY <1>3, <2>1
  <2> QED BY <2>1, <2>2, VisitsEverySlot
<1>7. ASSUME NEW k \in 0..t, IsKnownRoot(PrefixRoot(TreeAfter(k))) PROVE t - k < H
  <2> SUFFICES ASSUME t - k >= H PROVE FALSE
    BY <1>0
  <2>1. PICK d \in 0..(H - 1) : roots[RingSlot(d)] = PrefixRoot(TreeAfter(k))
    BY <1>7, VisitsEverySlot
  <2>2. d <= t /\ t - d \in 0..t /\ k < t - d
    BY <1>0
  <2>3. PrefixRoot(TreeAfter(t - d)) = PrefixRoot(TreeAfter(k))
    BY <1>3, <2>1, <2>2
  <2>4. /\ TreeAfter(k) \in Seq(Commitment) /\ Len(TreeAfter(k)) = 2 * k
        /\ TreeAfter(t - d) \in Seq(Commitment) /\ Len(TreeAfter(t - d)) = 2 * (t - d)
    BY <1>4, <2>2
  <2>5. 2 * k < 2 * (t - d) /\ 2 * (t - d) <= TwoTo[Levels]
    BY <1>0, <1>2, <1>a, <2>2
  <2>6. Len(TreeAfter(k)) < Len(TreeAfter(t - d)) /\ Len(TreeAfter(t - d)) <= TwoTo[Levels]
    BY <2>4, <2>5
  <2> QED BY <2>3, <2>4, <2>6, LongerTreeDiffers
<1>8. KnownRootsExact
  BY <1>2, <1>6, <1>7 DEF KnownRootsExact
<1>9. ASSUME NEW k \in 0..t, t - k < H, NEW i \in 0..(2 * k - 1)
      PROVE  IsKnownRoot(CircuitRoot(leaves[i + 1], PathElements(TreeAfter(k), i), i))
  <2>1. i \in Nat /\ i < 2 * k /\ i + 1 \in 1..(2 * k)
    OBVIOUS
  <2>2. TreeAfter(k) \in Seq(Commitment) /\ Len(TreeAfter(k)) = 2 * k /\ TreeAfter(k)[i + 1] = leaves[i + 1]
    BY <1>4, <2>1
  <2>3. 2 * k <= TwoTo[Levels]
    BY <1>0, <1>2, <1>a
  <2>4. i < Len(TreeAfter(k)) /\ Len(TreeAfter(k)) <= TwoTo[Levels]
    BY <2>1, <2>2, <2>3
  <2>5. CircuitRoot(TreeAfter(k)[i + 1], PathElements(TreeAfter(k), i), i) = PrefixRoot(TreeAfter(k))
    BY <2>1, <2>2, <2>4, PathReachesRoot
  <2> QED BY <1>6, <1>9, <2>2, <2>5
<1>10. PathsVerify
  BY <1>2, <1>9 DEF PathsVerify
<1> QED BY <1>5, <1>8, <1>10 DEF TreesAgree

\* For every depth, history size and set of commitments: the root that the
\* contract keeps by insert_two_leaves is the one the prover computes from the
\* leaves, the prover's paths lead the circuit to it, and is_known_root knows
\* exactly the roots of the last ROOT_HISTORY_SIZE trees.
THEOREM CommitmentTreesAgree == TreeSpec => []TreesAgree
<1> QED BY TreeStarts, TreeSteps, TreeInvSuffices, PTL DEF TreeSpec

-----------------------------------------------------------------------------
(* The membership tree.                                                    *)

MembershipRoots == {PrefixRoot(s) : s \in Seq(MembershipLeaf)}
LeafAddedEvent == [leaf : MembershipLeaf, index : Nat, root : MembershipRoots]

MembershipInv ==
  /\ membershipEvents \in Seq(LeafAddedEvent)
  /\ Len(membershipEvents) <= TwoTo[Levels]
  /\ FilledFor(filledSubtrees, ApprovedLeaves, Len(membershipEvents), 0)
  /\ EventRootsAgree

LEMMA ApprovedLeavesType ==
  ASSUME membershipEvents \in Seq(LeafAddedEvent)
  PROVE  ApprovedLeaves \in Seq(MembershipLeaf) /\ Len(ApprovedLeaves) = Len(membershipEvents)
<1> DEFINE n == Len(membershipEvents)
<1>1. n \in Nat /\ \A i \in 1..n : membershipEvents[i].leaf \in MembershipLeaf
  <2>1. n \in Nat /\ \A i \in 1..n : membershipEvents[i] \in LeafAddedEvent
    OBVIOUS
  <2>2. \A e \in LeafAddedEvent : e.leaf \in MembershipLeaf
    BY DEF LeafAddedEvent
  <2> QED BY <2>1, <2>2
<1> HIDE DEF n
<1>2. ApprovedLeaves = [i \in 1..n |-> membershipEvents[i].leaf]
  BY DEF ApprovedLeaves, n
<1>3. ApprovedLeaves \in [1..n -> MembershipLeaf]
  BY <1>1, <1>2
<1> QED BY <1>1, <1>3 DEF n

LEMMA MembershipStarts == MembershipInit => MembershipInv
<1> SUFFICES ASSUME MembershipInit PROVE MembershipInv
  OBVIOUS
<1>1. membershipEvents = <<>> /\ membershipEvents \in Seq(LeafAddedEvent) /\ Len(membershipEvents) = 0
  BY DEF MembershipInit
<1>2. ApprovedLeaves = <<>>
  BY <1>1 DEF ApprovedLeaves
<1>3. FilledFor(filledSubtrees, ApprovedLeaves, Len(membershipEvents), 0)
  BY <1>1, <1>2, EmptyTree DEF MembershipInit
<1>4. EventRootsAgree
  BY <1>1, <1>2, EmptyTree DEF EventRootsAgree, MembershipInit
<1>5. Len(membershipEvents) <= TwoTo[Levels]
  <2>1. Levels \in 0..Levels
    BY LevelsType
  <2>2. TwoTo[Levels] \in Nat
    BY <2>1, TwoToFacts
  <2> QED BY <1>1, <2>2
<1> QED BY <1>1, <1>3, <1>4, <1>5 DEF MembershipInv

\* A leaf appended extends the tree at one node of the bottom level.
LEMMA LeafExtends ==
  ASSUME NEW S, NEW s \in Seq(S), NEW a \in S
  PROVE  LET t == Append(s, a)
         IN  /\ t \in Seq(S) /\ Len(t) = Len(s) + 1
             /\ Node(t, 0, Len(s)) = a
             /\ ExtendsAt(s, t, 0, Len(s))
<1> DEFINE t == Append(s, a)
           n == Len(s)
<1>1. t \in Seq(S) /\ Len(t) = n + 1 /\ (\A i \in 1..n : t[i] = s[i]) /\ t[n + 1] = a /\ n \in Nat
  OBVIOUS
<1> HIDE DEF t, n
<1>2. \A j \in Nat : Node(t, 0, j) = IF j < n + 1 THEN t[j + 1] ELSE Zero
  BY <1>1, NodeLeaf
<1>3. \A j \in Nat : Node(s, 0, j) = IF j < n THEN s[j + 1] ELSE Zero
  BY NodeLeaf DEF n
<1>4. Node(t, 0, n) = a
  BY <1>1, <1>2
<1>5. ASSUME NEW j \in Nat, j < n PROVE Node(t, 0, j) = Node(s, 0, j)
  <2>1. j + 1 \in 1..n /\ j < n + 1
    BY <1>1, <1>5
  <2> QED BY <1>1, <1>2, <1>3, <1>5, <2>1
<1>6. ASSUME NEW j \in Nat, n < j PROVE Node(t, 0, j) = Zeroes[0]
  <2>1. ~(j < n + 1)
    BY <1>1, <1>6
  <2> QED BY <1>2, <2>1, ZeroesFacts
<1> QED BY <1>1, <1>4, <1>5, <1>6 DEF ExtendsAt, t, n

LEMMA InsertLeafKeeps ==
  ASSUME MembershipInv, NEW caller, NEW leaf \in MembershipLeaf, InsertMembershipLeaf(caller, leaf)
  PROVE  MembershipInv'
<1> DEFINE n == Len(membershipEvents)
           s == ApprovedLeaves
           f == filledSubtrees
           u == Append(s, leaf)
           top == Climb(f, leaf, n, 0)
           event == [leaf |-> leaf, index |-> n, root |-> top.hash]
<1>1. /\ membershipEvents \in Seq(LeafAddedEvent) /\ n \in Nat
      /\ membershipNextIndex = n /\ FilledFor(f, s, n, 0)
  BY DEF MembershipInv, EventRootsAgree
<1>2. s \in Seq(MembershipLeaf) /\ Len(s) = n
  BY <1>1, ApprovedLeavesType
<1>3. /\ n < TwoTo[Levels]
      /\ filledSubtrees' = top.filled
      /\ membershipRoot' = top.hash
      /\ membershipEvents' = Append(membershipEvents, event)
      /\ membershipNextIndex' = n + 1
  BY <1>1 DEF InsertMembershipLeaf, LeafAdded
<1>4. u \in Seq(MembershipLeaf) /\ Len(u) = n + 1 /\ Node(u, 0, n) = leaf /\ ExtendsAt(s, u, 0, n)
  BY <1>2, LeafExtends
<1>5. top.hash = PrefixRoot(u) /\ FilledFor(top.filled, u, n + 1, 0)
  <2> DEFINE m == n + 1
  <2>1. Pos(n, 0) = n /\ Pos(m, 0) = Pos(n, 0) + 1 /\ m \in Nat /\ 0 \in 0..1
    BY <1>1, PosRules
  <2>2. top = Climb(f, Node(u, 0, Pos(n, 0)), Pos(n, 0), 0)
    BY <1>4, <2>1
  <2>3. ExtendsAt(s, u, 0, Pos(n, 0))
    BY <1>4, <2>1
  <2> HIDE DEF top, n, m, f, u, s
  <2>4. LET c == Climb(f, Node(u, 0, Pos(n, 0)), Pos(n, 0), 0)
        IN  c.hash = PrefixRoot(u) /\ FilledFor(c.filled, u, m, 0)
    BY <1>1, <1>2, <1>3, <1>4, <2>1, <2>3, ClimbIsInsertion
  <2> QED BY <2>2, <2>4 DEF m
<1> HIDE DEF top
<1>6. event \in LeafAddedEvent
  <2>1. top.hash \in MembershipRoots
    BY <1>4, <1>5 DEF MembershipRoots
  <2> QED BY <1>1, <2>1 DEF LeafAddedEvent
<1> HIDE DEF event, n
<1>7. /\ membershipEvents' \in Seq(LeafAddedEvent) /\ Len(membershipEvents') = n + 1
      /\ membershipEvents'[n + 1] = event
      /\ \A i \in 1..n : membershipEvents'[i] = membershipEvents[i]
  BY <1>1, <1>3, <1>6 DEF n
<1>8. ApprovedLeaves' = u
  <2>1. ApprovedLeaves' = [i \in 1..(n + 1) |-> membershipEvents'[i].leaf]
    BY <1>7 DEF ApprovedLeaves
  <2>2. \A i \in 1..n : s[i] = membershipEvents[i].leaf
    BY DEF ApprovedLeaves, n
  <2>3. event.leaf = leaf
    BY DEF event
  <2> HIDE DEF s
  <2>4. \A i \in 1..(n + 1) : membershipEvents'[i].leaf = u[i]
    <3>1. ASSUME NEW i \in 1..n PROVE membershipEvents'[i].leaf = u[i]
      BY <1>2, <1>7, <2>2
    <3>2. membershipEvents'[n + 1].leaf = u[n + 1]
      BY <1>2, <1>7, <2>3
    <3> HIDE DEF u
    <3>3. \A i \in 1..(n + 1) : i \in 1..n \/ i = n + 1
      BY <1>1
    <3> QED BY <3>1, <3>2, <3>3
  <2>5. u = [i \in 1..(n + 1) |-> u[i]]
    <3> HIDE DEF u
    <3> QED BY <1>4
  <2> HIDE DEF u
  <2> QED BY <2>1, <2>4, <2>5
<1>9. EventRootsAgree'
  <2>1. ASSUME NEW k \in 1..(n + 1)
        PROVE  /\ membershipEvents'[k].index = k - 1
               /\ membershipEvents'[k].root = PrefixRoot(SubSeq(u, 1, k))
    <3>1. CASE k = n + 1
      <4>1. event.index = n /\ event.root = top.hash
        BY DEF event
      <4>2. SubSeq(u, 1, n + 1) = u
        <5> HIDE DEF u
        <5> QED BY <1>4, WholePrefix
      <4>3. membershipEvents'[k] = event /\ k - 1 = n
        BY <1>1, <1>7, <3>1
      <4> HIDE DEF u
      <4>4. membershipEvents'[k].index = k - 1
        BY <4>1, <4>3
      <4>5. membershipEvents'[k].root = PrefixRoot(SubSeq(u, 1, k))
        BY <1>5, <3>1, <4>1, <4>2, <4>3
      <4> QED BY <4>4, <4>5
    <3>2. CASE k # n + 1
      <4>1. k \in 1..n
        BY <1>1, <3>2
      <4>2. membershipEvents[k].index = k - 1 /\ membershipEvents[k].root = PrefixRoot(SubSeq(s, 1, k))
        BY <4>1 DEF MembershipInv, EventRootsAgree, n
      <4>3. SubSeq(u, 1, k) = SubSeq(s, 1, k)
        <5> HIDE DEF s
        <5> QED BY <1>2, <4>1
      <4> QED BY <1>7, <4>1, <4>2, <4>3
    <3> QED BY <3>1, <3>2
  <2>2. membershipRoot' = PrefixRoot(u)
    BY <1>3, <1>5
  <2> HIDE DEF u
  <2> QED BY <1>3, <1>7, <1>8, <2>1, <2>2 DEF EventRootsAgree
<1>10. n + 1 <= TwoTo[Levels]
  <2>1. Levels \in 0..Levels
    BY LevelsType
  <2>2. TwoTo[Levels] \in Nat
    BY <2>1, TwoToFacts
  <2> QED BY <1>1, <1>3, <2>2
<1>11. FilledFor(filledSubtrees', ApprovedLeaves', Len(membershipEvents'), 0)
  <2> HIDE DEF u
  <2> QED BY <1>3, <1>5, <1>7, <1>8
<1> QED BY <1>7, <1>9, <1>10, <1>11 DEF MembershipInv

LEMMA MembershipSteps == MembershipInv /\ [MembershipNext]_membershipVars => MembershipInv'
<1> SUFFICES ASSUME MembershipInv, [MembershipNext]_membershipVars PROVE MembershipInv'
  OBVIOUS
<1>1. CASE \E a \in MembershipAddress, leaf \in MembershipLeaf : InsertMembershipLeaf(a, leaf)
  BY <1>1, InsertLeafKeeps
<1>2. CASE \/ \E a, b \in MembershipAddress : UpdateMembershipAdmin(a, b)
           \/ \E a \in MembershipAddress, flag \in BOOLEAN : SetAdminInsertOnly(a, flag)
           \/ UNCHANGED membershipVars
  <2>1. UNCHANGED <<filledSubtrees, membershipNextIndex, membershipRoot, membershipEvents>>
    BY <1>2 DEF UpdateMembershipAdmin, SetAdminInsertOnly, membershipVars
  <2> QED BY <2>1 DEF MembershipInv, EventRootsAgree, ApprovedLeaves, FilledFor
<1> QED BY <1>1, <1>2 DEF MembershipNext

\* For every depth: each event of the membership contract carries the root of
\* the leaves announced so far, and the path a prover derives from the events
\* proves every approved leaf against the current root.
THEOREM ApprovalsAreProvable == MembershipSpec => []ApprovalsProvable
<1>1. MembershipInv => ApprovalsProvable
  <2> SUFFICES ASSUME MembershipInv PROVE ApprovalsProvable
    OBVIOUS
  <2>1. ApprovedLeaves \in Seq(MembershipLeaf) /\ Len(ApprovedLeaves) = Len(membershipEvents)
    BY ApprovedLeavesType DEF MembershipInv
  <2>2. membershipNextIndex = Len(membershipEvents) /\ membershipRoot = PrefixRoot(ApprovedLeaves)
    BY DEF MembershipInv, EventRootsAgree
  <2>3. ASSUME NEW i \in 0..(membershipNextIndex - 1)
        PROVE  CircuitRoot(ApprovedLeaves[i + 1], PathElements(ApprovedLeaves, i), i) = membershipRoot
    <3> DEFINE s == ApprovedLeaves
    <3>1. s \in Seq(MembershipLeaf) /\ Len(s) = membershipNextIndex /\ Len(s) <= TwoTo[Levels]
      BY <2>1, <2>2 DEF MembershipInv
    <3> HIDE DEF s
    <3>2. i \in Nat /\ i < Len(s)
      BY <3>1
    <3>3. CircuitRoot(s[i + 1], PathElements(s, i), i) = PrefixRoot(s)
      BY <3>1, <3>2, PathReachesRoot
    <3> QED BY <2>2, <3>3 DEF s
  <2> QED BY <2>3 DEF ApprovalsProvable, ApprovalProvable, MembershipInv
<1> QED BY <1>1, MembershipStarts, MembershipSteps, PTL DEF MembershipSpec

-----------------------------------------------------------------------------
(* The sparse trees.  Subtrees are addressed by a key and a level: the      *)
(* entries whose keys agree with it on the bits above.                      *)

\* Every key there can be.
Cube == [1..Bits -> {0, 1}]

\* E is a set of pairs of a key and a value.
IsEntries(E) == \A x \in E : x[1] \in Cube /\ x = <<x[1], x[2]>>

\* C is a set of entries of E with one value for each key.
Fits(E, C) ==
  /\ IsEntries(E) /\ C \in SUBSET E
  /\ \A x, y \in C : x[1] = y[1] => x = y

\* The entries below level l on the path of key k.
Under(C, k, l) == {x \in C : \A i \in 1..l : x[1][i] = k[i]}

\* Several of them.
Many(S) == \E x, y \in S : x # y

\* The key that leaves the path of k at bit l.
Flip(k, l) == [k EXCEPT ![l] = 1 - k[l]]

\* The recursion of CanonicalTree, and its solution.
TreeLevel(E, g, h) ==
  [s \in SUBSET E |->
     IF s = {} THEN ZeroHash
     ELSE IF h = 0 \/ \E kv \in s : s = {kv}
     THEN LET kv == CHOOSE x \in s : TRUE IN HashLeaf(kv[1], kv[2])
     ELSE LET Side(b) == {kv \in s : Bit(kv[1], Bits - h) = b}
          IN  HashInternal(g[h - 1][Side(0)], g[h - 1][Side(1)])]
Trees(E) == CHOOSE g : g = [h \in 0..Bits |-> TreeLevel(E, g, h)]

\* The subtree at level l on the path of key k.
SubTree(E, C, k, l) == Trees(E)[Bits - l][Under(C, k, l)]

\* The number of bits is a natural number.
LEMMA BitsType == Bits \in Nat
BY BitsAssumption

\* Keys are the same if their bits are.
LEMMA SameBits ==
  ASSUME NEW a \in Cube, NEW b \in Cube, \A i \in 1..Bits : a[i] = b[i]
  PROVE  a = b
<1>1. a = [i \in 1..Bits |-> a[i]] /\ b = [i \in 1..Bits |-> b[i]]
  BY DEF Cube
<1> QED BY <1>1

\* A level of the trees uses the level below only.
LEMMA TreeLevelAgrees ==
  ASSUME NEW E, NEW g, NEW g2, NEW h, h = 0 \/ g[h - 1] = g2[h - 1]
  PROVE  TreeLevel(E, g, h) = TreeLevel(E, g2, h)
<1>1. CASE h = 0
  BY <1>1 DEF TreeLevel
<1>2. CASE g[h - 1] = g2[h - 1]
  BY <1>2 DEF TreeLevel
<1> QED BY <1>1, <1>2

\* The trees are built level by level.
LEMMA TreesUnfold ==
  ASSUME NEW E
  PROVE  Trees(E) = [h \in 0..Bits |-> TreeLevel(E, Trees(E), h)]
<1> DEFINE Solves(m, g) == g = [h \in 0..m |-> TreeLevel(E, g, h)]
           N == {m \in Nat : \E g : Solves(m, g)}
<1>1. 0 \in N
  <2> DEFINE g == [h \in 0..0 |-> TreeLevel(E, <<>>, h)]
  <2>1. \A h \in 0..0 : TreeLevel(E, g, h) = TreeLevel(E, <<>>, h)
    BY TreeLevelAgrees
  <2> HIDE DEF g
  <2>2. g = [h \in 0..0 |-> TreeLevel(E, g, h)]
    BY <2>1 DEF g
  <2> QED BY <2>2
<1>2. ASSUME NEW m \in Nat, m \in N PROVE m + 1 \in N
  <2>1. PICK g : Solves(m, g)
    BY <1>2
  <2> DEFINE f == [h \in 0..(m + 1) |-> TreeLevel(E, g, h)]
  <2>2. ASSUME NEW h \in 0..(m + 1) PROVE TreeLevel(E, g, h) = TreeLevel(E, f, h)
    <3>1. CASE h = 0
      BY <3>1, TreeLevelAgrees
    <3>2. CASE h # 0
      <4>1. h - 1 \in 0..m /\ h - 1 \in 0..(m + 1)
        BY <3>2
      <4>2. g[h - 1] = TreeLevel(E, g, h - 1)
        BY <2>1, <4>1
      <4>3. f[h - 1] = g[h - 1]
        BY <4>1, <4>2
      <4> HIDE DEF f
      <4> QED BY <4>3, TreeLevelAgrees
    <3> QED BY <3>1, <3>2
  <2>3. Solves(m + 1, f)
    BY <2>2
  <2> HIDE DEF f, Solves
  <2> QED BY <2>3
<1> HIDE DEF N
<1>3. \E g : Solves(Bits, g)
  BY <1>1, <1>2, Induct, BitsType DEF N
<1> QED BY <1>3 DEF Trees

\* CanonicalTree is the whole of them.
LEMMA CanonicalIsTree ==
  ASSUME NEW E, NEW C
  PROVE  CanonicalTree(E, C) = Trees(E)[Bits][C]
BY DEF CanonicalTree, Trees, TreeLevel

\* The entries on a path, one bit after the other.
LEMMA UnderFacts ==
  ASSUME NEW E, NEW C, Fits(E, C), NEW k \in Cube
  PROVE  /\ Under(C, k, 0) = C
         /\ \A l \in 0..Bits : Under(C, k, l) \in SUBSET E
         /\ \A l \in 0..Bits : \A j \in 0..l : Under(C, k, l) \subseteq Under(C, k, j)
         /\ \A l \in 1..Bits : /\ Flip(k, l) \in Cube
                               /\ Under(C, k, l) = {x \in Under(C, k, l - 1) : x[1][l] = k[l]}
                               /\ Under(C, Flip(k, l), l) = {x \in Under(C, k, l - 1) : x[1][l] # k[l]}
         /\ \A x, y \in Under(C, k, Bits) : x = y
<1>1. Under(C, k, 0) = C
  BY DEF Under
<1>2. \A l \in 0..Bits : Under(C, k, l) \in SUBSET E
  BY DEF Under, Fits
<1>3. \A l \in 0..Bits : \A j \in 0..l : Under(C, k, l) \subseteq Under(C, k, j)
  BY BitsType DEF Under
<1>4. ASSUME NEW l \in 1..Bits
      PROVE  /\ Flip(k, l) \in Cube
             /\ Under(C, k, l) = {x \in Under(C, k, l - 1) : x[1][l] = k[l]}
             /\ Under(C, Flip(k, l), l) = {x \in Under(C, k, l - 1) : x[1][l] # k[l]}
  <2>1. k[l] \in {0, 1} /\ 1 - k[l] \in {0, 1} /\ 1 - k[l] # k[l]
    BY DEF Cube
  <2>2. Flip(k, l) \in Cube /\ Flip(k, l)[l] = 1 - k[l] /\ \A i \in 1..(l - 1) : Flip(k, l)[i] = k[i]
    BY <2>1, BitsType DEF Flip, Cube
  <2>3. \A i : i \in 1..l <=> i \in 1..(l - 1) \/ i = l
    BY BitsType
  <2>4. \A x \in C : x[1][l] \in {0, 1}
    BY DEF Fits, IsEntries, Cube
  <2>5. \A x \in C : x[1][l] # k[l] <=> x[1][l] = 1 - k[l]
    BY <2>1, <2>4
  <2>6. Under(C, k, l) = {x \in Under(C, k, l - 1) : x[1][l] = k[l]}
    BY <2>3 DEF Under
  <2> HIDE DEF Flip
  <2>7. Under(C, Flip(k, l), l) = {x \in Under(C, k, l - 1) : x[1][l] # k[l]}
    BY <2>2, <2>3, <2>5 DEF Under
  <2> QED BY <2>2, <2>6, <2>7
<1>5. ASSUME NEW x \in Under(C, k, Bits), NEW y \in Under(C, k, Bits) PROVE x = y
  <2>1. x \in C /\ y \in C /\ x[1] \in Cube /\ y[1] \in Cube /\ \A i \in 1..Bits : x[1][i] = y[1][i]
    BY DEF Under, Fits, IsEntries
  <2>2. x[1] = y[1]
    BY <2>1, SameBits
  <2> QED BY <2>1, <2>2 DEF Fits
<1> QED BY <1>1, <1>2, <1>3, <1>4, <1>5

\* A set of entries is empty, a single entry or more.
LEMMA Sizes ==
  ASSUME NEW S
  PROVE  /\ S = {} \/ (\E x \in S : S = {x}) \/ Many(S)
         /\ Many(S) => S # {} /\ ~\E x \in S : S = {x}
BY DEF Many

\* The subtree at a level is zero, a leaf, or joins the two below.
LEMMA SubTreeFacts ==
  ASSUME NEW E, NEW C, Fits(E, C), NEW k \in Cube, NEW l \in 0..Bits
  PROVE  LET U == Under(C, k, l)
             T == SubTree(E, C, k, l)
         IN  /\ U = {} => T = ZeroHash
             /\ \A x : U = {x} => T = HashLeaf(x[1], x[2])
             /\ Many(U) => /\ l < Bits /\ l + 1 \in 1..Bits
                           /\ T = Join(k[l + 1], SubTree(E, C, k, l + 1),
                                       SubTree(E, C, Flip(k, l + 1), l + 1))
<1> DEFINE U == Under(C, k, l)
           T == SubTree(E, C, k, l)
           h == Bits - l
           S(b) == {kv \in U : kv[1][l + 1] = b}
<1>0. /\ h \in 0..Bits /\ Bits \in Nat /\ Bits - h = l /\ l \in Nat /\ (l < Bits <=> h # 0)
      /\ h - 1 = Bits - (l + 1)
  BY BitsType
<1>1. U \in SUBSET E
  BY UnderFacts
<1>2. T = TreeLevel(E, Trees(E), h)[U]
  <2>1. \A i \in 0..Bits : Trees(E)[i] = TreeLevel(E, Trees(E), i)
    BY TreesUnfold
  <2> QED BY <1>0, <2>1 DEF SubTree
<1>3. T = IF U = {} THEN ZeroHash
          ELSE IF h = 0 \/ \E kv \in U : U = {kv}
          THEN HashLeaf((CHOOSE x \in U : TRUE)[1], (CHOOSE x \in U : TRUE)[2])
          ELSE HashInternal(Trees(E)[h - 1][S(0)], Trees(E)[h - 1][S(1)])
  BY <1>0, <1>1, <1>2 DEF TreeLevel, Bit
<1> HIDE DEF T, h, U
<1>4. U = {} => T = ZeroHash
  BY <1>3
<1>5. ASSUME NEW x, U = {x} PROVE T = HashLeaf(x[1], x[2])
  <2>1. (CHOOSE y \in U : TRUE) = x /\ U # {} /\ \E kv \in U : U = {kv}
    BY <1>5
  <2> QED BY <1>3, <2>1
<1>6. ASSUME Many(U)
      PROVE  /\ l < Bits /\ l + 1 \in 1..Bits
             /\ T = Join(k[l + 1], SubTree(E, C, k, l + 1), SubTree(E, C, Flip(k, l + 1), l + 1))
  <2>1. U # {} /\ ~\E x \in U : U = {x}
    BY <1>6, Sizes
  <2>2. l # Bits
    <3> SUFFICES ASSUME l = Bits PROVE FALSE
      OBVIOUS
    <3>1. \A x, y \in U : x = y
      BY UnderFacts DEF U
    <3> QED BY <1>6, <3>1 DEF Many
  <2>3. l < Bits /\ l + 1 \in 1..Bits /\ h # 0 /\ (l + 1) - 1 = l
    BY <1>0, <2>2
  <2>4. T = HashInternal(Trees(E)[h - 1][S(0)], Trees(E)[h - 1][S(1)])
    BY <1>3, <2>1, <2>3
  <2>5. /\ Under(C, k, l + 1) = {x \in U : x[1][l + 1] = k[l + 1]}
        /\ Under(C, Flip(k, l + 1), l + 1) = {x \in U : x[1][l + 1] # k[l + 1]}
    BY <2>3, UnderFacts DEF U
  <2>6. k[l + 1] \in {0, 1} /\ \A x \in U : x[1][l + 1] \in {0, 1}
    BY <1>1, <2>3 DEF Fits, IsEntries, Cube
  <2>7. /\ SubTree(E, C, k, l + 1) = Trees(E)[h - 1][Under(C, k, l + 1)]
        /\ SubTree(E, C, Flip(k, l + 1), l + 1) = Trees(E)[h - 1][Under(C, Flip(k, l + 1), l + 1)]
    BY <1>0 DEF SubTree
  <2>8. CASE k[l + 1] = 0
    <3>1. Under(C, k, l + 1) = S(0) /\ Under(C, Flip(k, l + 1), l + 1) = S(1)
      BY <2>5, <2>6, <2>8
    <3>2. k[l + 1] # 1
      BY <2>8
    <3> HIDE DEF S
    <3> QED BY <2>3, <2>4, <2>7, <3>1, <3>2 DEF Join
  <2>9. CASE k[l + 1] = 1
    <3>1. Under(C, k, l + 1) = S(1) /\ Under(C, Flip(k, l + 1), l + 1) = S(0)
      BY <2>5, <2>6, <2>9
    <3> HIDE DEF S
    <3> QED BY <2>3, <2>4, <2>7, <2>9, <3>1 DEF Join
  <2> QED BY <2>6, <2>8, <2>9
<1> QED BY <1>4, <1>5, <1>6 DEF U, T

-----------------------------------------------------------------------------
(* Hashes are terms.                                                        *)

\* The three kinds of nodes are told apart, and so are their parts.
LEMMA Terms ==
  /\ ~IsInternal(ZeroHash) /\ ~IsLeaf(ZeroHash)
  /\ \A k, v : /\ IsLeaf(HashLeaf(k, v)) /\ ~IsInternal(HashLeaf(k, v)) /\ HashLeaf(k, v) # ZeroHash
               /\ LeafKey(HashLeaf(k, v)) = k /\ LeafValue(HashLeaf(k, v)) = v
  /\ \A a, b : IsInternal(HashInternal(a, b)) /\ ~IsLeaf(HashInternal(a, b)) /\ HashInternal(a, b) # ZeroHash
BY DEF IsInternal, IsLeaf, ZeroHash, HashLeaf, HashInternal, LeafKey, LeafValue

\* Equal leaves have the same key and the same value.
LEMMA SameLeaf ==
  ASSUME NEW k, NEW v, NEW k2, NEW v2, HashLeaf(k, v) = HashLeaf(k2, v2)
  PROVE  k = k2 /\ v = v2
<1>1. HashLeaf(k, v)[2] = k /\ HashLeaf(k, v)[3] = v /\ HashLeaf(k2, v2)[2] = k2 /\ HashLeaf(k2, v2)[3] = v2
  BY DEF HashLeaf
<1> QED BY <1>1

\* Equal inner nodes have the same children.
LEMMA SameInternal ==
  ASSUME NEW a, NEW b, NEW a2, NEW b2, HashInternal(a, b) = HashInternal(a2, b2)
  PROVE  a = a2 /\ b = b2
<1>1. /\ HashInternal(a, b)[2] = a /\ HashInternal(a, b)[3] = b
      /\ HashInternal(a2, b2)[2] = a2 /\ HashInternal(a2, b2)[3] = b2
  BY DEF HashInternal
<1> QED BY <1>1

\* A join has the two nodes on their sides.
LEMMA JoinFacts ==
  ASSUME NEW b \in {0, 1}, NEW n, NEW s
  PROVE  /\ IsInternal(Join(b, n, s)) /\ ~IsLeaf(Join(b, n, s)) /\ Join(b, n, s) # ZeroHash
         /\ Child(Join(b, n, s), b) = n /\ Other(Join(b, n, s), b) = s
<1>1. CASE b = 1
  <2>1. Join(b, n, s) = HashInternal(s, n) /\ 2 + b = 3 /\ 3 - b = 2
    BY <1>1 DEF Join
  <2>2. HashInternal(s, n)[2] = s /\ HashInternal(s, n)[3] = n
    BY DEF HashInternal
  <2> QED BY <2>1, <2>2, Terms DEF Child, Other
<1>2. CASE b = 0
  <2>1. Join(b, n, s) = HashInternal(n, s) /\ 2 + b = 2 /\ 3 - b = 3
    BY <1>2 DEF Join
  <2>2. HashInternal(n, s)[2] = n /\ HashInternal(n, s)[3] = s
    BY DEF HashInternal
  <2> QED BY <2>1, <2>2, Terms DEF Child, Other
<1> QED BY <1>1, <1>2

\* What kind of node a subtree is says how many entries it has.
LEMMA Kinds ==
  ASSUME NEW E, NEW C, Fits(E, C), NEW k \in Cube, NEW l \in 0..Bits
  PROVE  LET U == Under(C, k, l)
             T == SubTree(E, C, k, l)
         IN  /\ T = ZeroHash <=> U = {}
             /\ IsLeaf(T) <=> \E x \in U : U = {x}
             /\ IsInternal(T) <=> Many(U)
             /\ \A a, v : T = HashLeaf(a, v) => U = {<<a, v>>}
<1> DEFINE U == Under(C, k, l)
           T == SubTree(E, C, k, l)
<1>1. /\ U = {} => T = ZeroHash
      /\ \A x : U = {x} => T = HashLeaf(x[1], x[2])
      /\ Many(U) => l + 1 \in 1..Bits
                    /\ T = Join(k[l + 1], SubTree(E, C, k, l + 1), SubTree(E, C, Flip(k, l + 1), l + 1))
  BY SubTreeFacts
<1>2. Many(U) => IsInternal(T) /\ ~IsLeaf(T) /\ T # ZeroHash
  <2>1. Many(U) => k[l + 1] \in {0, 1}
    BY <1>1 DEF Cube
  <2> QED BY <1>1, <2>1, JoinFacts
<1>3. \A x \in U : x = <<x[1], x[2]>>
  BY UnderFacts DEF Fits, IsEntries
<1> HIDE DEF U, T
<1>4. CASE U = {}
  <2>1. T = ZeroHash /\ ~Many(U) /\ ~\E x \in U : U = {x}
    BY <1>1, <1>4 DEF Many
  <2>2. ~IsLeaf(T) /\ ~IsInternal(T) /\ \A a, v : T # HashLeaf(a, v)
    BY <2>1, Terms
  <2> QED BY <1>4, <2>1, <2>2 DEF U, T
<1>5. CASE \E x \in U : U = {x}
  <2>1. PICK x \in U : U = {x}
    BY <1>5
  <2>2. T = HashLeaf(x[1], x[2])
    BY <1>1, <2>1
  <2>3. ~Many(U) /\ U # {}
    BY <2>1 DEF Many
  <2>4. \A a, v : T = HashLeaf(a, v) => U = {<<a, v>>}
    <3> SUFFICES ASSUME NEW a, NEW v, T = HashLeaf(a, v) PROVE U = {<<a, v>>}
      OBVIOUS
    <3>1. HashLeaf(x[1], x[2]) = HashLeaf(a, v)
      BY <2>2
    <3>2. x[1] = a /\ x[2] = v
      BY <3>1, SameLeaf
    <3> QED BY <1>3, <2>1, <3>2
  <2> QED BY <1>5, <2>2, <2>3, <2>4, Terms DEF U, T
<1>6. CASE Many(U)
  <2>1. U # {} /\ ~\E x \in U : U = {x}
    BY <1>6, Sizes
  <2>2. \A a, v : T # HashLeaf(a, v)
    BY <1>2, <1>6, Terms
  <2> QED BY <1>2, <1>6, <2>1, <2>2 DEF U, T
<1> QED BY <1>4, <1>5, <1>6, Sizes DEF U, T

\* A subtree that is a leaf holds one entry.
LEMMA LeafKind ==
  ASSUME NEW E, NEW C, Fits(E, C), NEW k \in Cube, NEW l \in 0..Bits,
         NEW a, NEW v, SubTree(E, C, k, l) = HashLeaf(a, v)
  PROVE  Under(C, k, l) = {<<a, v>>}
BY Kinds

\* A subtree with several entries is made of the two halves.
LEMMA Halves ==
  ASSUME NEW E, NEW C, Fits(E, C), NEW k \in Cube, NEW l \in 0..Bits, Many(Under(C, k, l))
  PROVE  /\ l + 1 \in 0..Bits
         /\ \E k0, k1 \in Cube :
              /\ SubTree(E, C, k, l) = HashInternal(SubTree(E, C, k0, l + 1), SubTree(E, C, k1, l + 1))
              /\ Under(C, k0, l + 1) = {x \in Under(C, k, l) : x[1][l + 1] = 0}
              /\ Under(C, k1, l + 1) = {x \in Under(C, k, l) : x[1][l + 1] = 1}
<1> DEFINE U == Under(C, k, l)
           f == Flip(k, l + 1)
<1>1. /\ l + 1 \in 1..Bits /\ (l + 1) - 1 = l
      /\ SubTree(E, C, k, l) = Join(k[l + 1], SubTree(E, C, k, l + 1), SubTree(E, C, f, l + 1))
  BY SubTreeFacts, BitsType
<1>2. /\ f \in Cube
      /\ Under(C, k, l + 1) = {x \in U : x[1][l + 1] = k[l + 1]}
      /\ Under(C, f, l + 1) = {x \in U : x[1][l + 1] # k[l + 1]}
  BY <1>1, UnderFacts
<1>3. k[l + 1] \in {0, 1} /\ \A x \in U : x[1][l + 1] \in {0, 1}
  <2>1. U \in SUBSET E
    BY UnderFacts
  <2> QED BY <1>1, <2>1 DEF Fits, IsEntries, Cube
<1> HIDE DEF f, U
<1>4. CASE k[l + 1] = 0
  <2>1. {x \in U : x[1][l + 1] # k[l + 1]} = {x \in U : x[1][l + 1] = 1}
    BY <1>3, <1>4
  <2>2. k[l + 1] # 1
    BY <1>4
  <2> QED BY <1>1, <1>2, <1>4, <2>1, <2>2 DEF Join, U
<1>5. CASE k[l + 1] = 1
  <2>1. {x \in U : x[1][l + 1] # k[l + 1]} = {x \in U : x[1][l + 1] = 0}
    BY <1>3, <1>5
  <2> QED BY <1>1, <1>2, <1>5, <2>1 DEF Join, U
<1> QED BY <1>3, <1>4, <1>5

\* Two entries of a subtree that differ in the next bit.
LEMMA Parts ==
  ASSUME NEW U, Many(U), NEW i, \A x \in U : x[1][i] \in {0, 1},
         ~Many({x \in U : x[1][i] = 0}), ~Many({x \in U : x[1][i] = 1})
  PROVE  \E x, y \in U : x[1][i] = 0 /\ y[1][i] = 1
<1>1. PICK x, y \in U : x # y
  BY DEF Many
<1> QED BY <1>1 DEF Many

\* A node has one place in a tree: equal subtrees have the same entries, and
\* are at the same level if there are several.
LEMMA SameSubTree ==
  ASSUME NEW E, NEW C, Fits(E, C), NEW C2, Fits(E, C2),
         NEW k \in Cube, NEW k2 \in Cube, NEW l \in 0..Bits, NEW l2 \in 0..Bits,
         SubTree(E, C, k, l) = SubTree(E, C2, k2, l2)
  PROVE  Under(C, k, l) = Under(C2, k2, l2) /\ (Many(Under(C, k, l)) => l = l2)
<1> DEFINE Same(p, p2, m, m2) == /\ Under(C, p, m) = Under(C2, p2, m2)
                                 /\ Many(Under(C, p, m)) => m = m2
           G == {h \in Nat : \A p, p2 \in Cube, m, m2 \in 0..Bits :
                   m + h = Bits /\ SubTree(E, C, p, m) = SubTree(E, C2, p2, m2) => Same(p, p2, m, m2)}
<1>1. ASSUME NEW p \in Cube, NEW p2 \in Cube, NEW m \in 0..Bits, NEW m2 \in 0..Bits,
             SubTree(E, C, p, m) = SubTree(E, C2, p2, m2), ~Many(Under(C, p, m))
      PROVE  Same(p, p2, m, m2)
  <2>1. CASE Under(C, p, m) = {}
    <3>1. SubTree(E, C, p, m) = ZeroHash
      BY <2>1, Kinds
    <3>2. Under(C2, p2, m2) = {}
      BY <1>1, <3>1, Kinds
    <3> QED BY <1>1, <2>1, <3>2
  <2>2. CASE \E x \in Under(C, p, m) : Under(C, p, m) = {x}
    <3>1. PICK x \in Under(C, p, m) : Under(C, p, m) = {x}
      BY <2>2
    <3>2. SubTree(E, C, p, m) = HashLeaf(x[1], x[2])
      BY <3>1, SubTreeFacts
    <3>3. Under(C2, p2, m2) = {<<x[1], x[2]>>} /\ Under(C, p, m) = {<<x[1], x[2]>>}
      <4>1. SubTree(E, C2, p2, m2) = HashLeaf(x[1], x[2])
        BY <1>1, <3>2
      <4> QED BY <3>2, <4>1, LeafKind
    <3> QED BY <1>1, <3>3
  <2> QED BY <1>1, <2>1, <2>2, Sizes
<1>2. 0 \in G
  <2>1. ASSUME NEW p \in Cube, NEW p2 \in Cube, NEW m \in 0..Bits, NEW m2 \in 0..Bits,
               m + 0 = Bits, SubTree(E, C, p, m) = SubTree(E, C2, p2, m2)
        PROVE  Same(p, p2, m, m2)
    <3>1. ~Many(Under(C, p, m))
      BY <2>1, SubTreeFacts, BitsType
    <3> QED BY <1>1, <2>1, <3>1
  <2> QED BY <2>1
<1>3. ASSUME NEW h \in Nat, h \in G PROVE h + 1 \in G
  <2>1. ASSUME NEW p \in Cube, NEW p2 \in Cube, NEW m \in 0..Bits, NEW m2 \in 0..Bits,
               m + (h + 1) = Bits, SubTree(E, C, p, m) = SubTree(E, C2, p2, m2)
        PROVE  Same(p, p2, m, m2)
    <3> SUFFICES ASSUME Many(Under(C, p, m)) PROVE Same(p, p2, m, m2)
      BY <1>1, <2>1
    <3> DEFINE U == Under(C, p, m)
               U2 == Under(C2, p2, m2)
    <3>1. Many(U2)
      BY <2>1, Kinds
    <3>2. PICK a0, a1 \in Cube :
            /\ SubTree(E, C, p, m) = HashInternal(SubTree(E, C, a0, m + 1), SubTree(E, C, a1, m + 1))
            /\ Under(C, a0, m + 1) = {x \in U : x[1][m + 1] = 0}
            /\ Under(C, a1, m + 1) = {x \in U : x[1][m + 1] = 1}
      BY Halves
    <3>3. PICK b0, b1 \in Cube :
            /\ SubTree(E, C2, p2, m2) = HashInternal(SubTree(E, C2, b0, m2 + 1), SubTree(E, C2, b1, m2 + 1))
            /\ Under(C2, b0, m2 + 1) = {x \in U2 : x[1][m2 + 1] = 0}
            /\ Under(C2, b1, m2 + 1) = {x \in U2 : x[1][m2 + 1] = 1}
      BY <3>1, Halves
    <3>4. m + 1 \in 0..Bits /\ m2 + 1 \in 0..Bits /\ (m + 1) + h = Bits
      BY <2>1, <3>1, Halves, BitsType
    <3>5. /\ SubTree(E, C, a0, m + 1) = SubTree(E, C2, b0, m2 + 1)
          /\ SubTree(E, C, a1, m + 1) = SubTree(E, C2, b1, m2 + 1)
      <4>1. HashInternal(SubTree(E, C, a0, m + 1), SubTree(E, C, a1, m + 1))
              = HashInternal(SubTree(E, C2, b0, m2 + 1), SubTree(E, C2, b1, m2 + 1))
        BY <2>1, <3>2, <3>3
      <4> QED BY <4>1, SameInternal
    <3>6. Same(a0, b0, m + 1, m2 + 1) /\ Same(a1, b1, m + 1, m2 + 1)
      BY <1>3, <3>4, <3>5
    <3>7. /\ \A x \in U : x[1][m + 1] \in {0, 1} /\ \A i \in 1..m : x[1][i] = p[i]
          /\ \A x \in U2 : x[1][m2 + 1] \in {0, 1} /\ \A i \in 1..m2 : x[1][i] = p2[i]
      <4>1. m + 1 \in 1..Bits /\ m2 + 1 \in 1..Bits
        BY <3>4, BitsType
      <4>2. \A x \in U : x[1] \in Cube /\ \A i \in 1..m : x[1][i] = p[i]
        BY DEF Under, Fits, IsEntries
      <4>3. \A x \in U2 : x[1] \in Cube /\ \A i \in 1..m2 : x[1][i] = p2[i]
        BY DEF Under, Fits, IsEntries
      <4> QED BY <4>1, <4>2, <4>3 DEF Cube
    <3>8. U = U2
      <4>1. /\ {x \in U : x[1][m + 1] = 0} = {x \in U2 : x[1][m2 + 1] = 0}
            /\ {x \in U : x[1][m + 1] = 1} = {x \in U2 : x[1][m2 + 1] = 1}
        BY <3>2, <3>3, <3>6
      <4> HIDE DEF U, U2
      <4>2. /\ U = {x \in U : x[1][m + 1] = 0} \cup {x \in U : x[1][m + 1] = 1}
            /\ U2 = {x \in U2 : x[1][m2 + 1] = 0} \cup {x \in U2 : x[1][m2 + 1] = 1}
        BY <3>7
      <4> QED BY <4>1, <4>2
    <3>9. m = m2
      <4>1. CASE Many(Under(C, a0, m + 1)) \/ Many(Under(C, a1, m + 1))
        BY <3>6, <4>1, BitsType
      <4>2. CASE ~Many(Under(C, a0, m + 1)) /\ ~Many(Under(C, a1, m + 1))
        <5>1. PICK x, y \in U : x[1][m + 1] = 0 /\ y[1][m + 1] = 1
          BY <3>2, <3>7, <4>2, Parts
        <5>2. x \in U2 /\ y \in U2 /\ x[1][m2 + 1] = 0 /\ y[1][m2 + 1] = 1
          BY <3>2, <3>3, <3>6, <3>8, <5>1
        <5>3. /\ \A i \in 1..m : x[1][i] = y[1][i]
              /\ \A i \in 1..m2 : x[1][i] = y[1][i]
          BY <3>7, <5>1, <5>2
        <5>4. ~(m < m2)
          <6>1. m < m2 => m + 1 \in 1..m2
            BY BitsType
          <6> QED BY <5>1, <5>3, <6>1
        <5>5. ~(m2 < m)
          <6>1. m2 < m => m2 + 1 \in 1..m
            BY BitsType
          <6> QED BY <5>2, <5>3, <6>1
        <5> QED BY <5>4, <5>5, BitsType
      <4> QED BY <4>1, <4>2
    <3> QED BY <3>8, <3>9
  <2> QED BY <2>1
<1>4. l + (Bits - l) = Bits /\ Bits - l \in Nat
  BY BitsType
<1> HIDE DEF G, Same
<1>5. Bits - l \in G
  BY <1>2, <1>3, <1>4, Induct
<1> QED BY <1>4, <1>5 DEF G, Same

-----------------------------------------------------------------------------
(* Looking a key up.                                                        *)

\* The descent along k ends at level d.
EndsAt(C, k, d) ==
  /\ d \in 0..Bits /\ ~Many(Under(C, k, d))
  /\ \A l \in 0..(d - 1) : Many(Under(C, k, l))

\* The nodes visited.
PathOf(E, C, k) ==
  [l \in 0..Bits |-> IF l = 0 \/ Many(Under(C, k, l - 1)) THEN SubTree(E, C, k, l) ELSE ZeroHash]

\* The siblings passed on the first d levels.
SiblingsOf(E, C, k, d) == [l \in 1..d |-> SubTree(E, C, Flip(k, l), l)]

\* The descent ends.
LEMMA EndExists ==
  ASSUME NEW E, NEW C, Fits(E, C), NEW k \in Cube
  PROVE  \E d : EndsAt(C, k, d)
<1> DEFINE W == {d \in 0..Bits : ~Many(Under(C, k, d))}
<1>1. Bits \in W
  <2>1. \A x, y \in Under(C, k, Bits) : x = y
    BY UnderFacts
  <2> QED BY <2>1, BitsType DEF Many
<1>2. PICK d \in W : \A y \in W : d <= y
  <2>1. W \subseteq Nat /\ W # {}
    BY <1>1, BitsType
  <2> HIDE DEF W
  <2> QED BY <2>1, LeastNumber
<1>3. \A l \in 0..(d - 1) : l \notin W /\ l \in 0..Bits
  BY <1>2, BitsType
<1> QED BY <1>2, <1>3 DEF EndsAt

\* A descent ends at one level only.
LEMMA EndUnique ==
  ASSUME NEW C, NEW k, NEW d, NEW e, EndsAt(C, k, d), EndsAt(C, k, e)
  PROVE  d = e
<1>1. d \in Int /\ e \in Int /\ d >= 0 /\ e >= 0
  BY BitsType DEF EndsAt
<1>2. ~(d < e)
  <2>1. d < e => d \in 0..(e - 1)
    BY <1>1
  <2> QED BY <2>1 DEF EndsAt
<1>3. ~(e < d)
  <2>1. e < d => e \in 0..(d - 1)
    BY <1>1
  <2> QED BY <2>1 DEF EndsAt
<1> QED BY <1>1, <1>2, <1>3

\* Several entries at a level means several above.
LEMMA ManyAbove ==
  ASSUME NEW E, NEW C, Fits(E, C), NEW k \in Cube, NEW l \in 0..Bits, NEW j \in 0..l,
         Many(Under(C, k, l))
  PROVE  Many(Under(C, k, j))
BY UnderFacts DEF Many

\* The path from one level to the next.
LEMMA PathFacts ==
  ASSUME NEW E, NEW C, Fits(E, C), NEW k \in Cube
  PROVE  /\ PathOf(E, C, k)[0] = SubTree(E, C, k, 0)
         /\ \A l \in 1..Bits :
              LET p == PathOf(E, C, k)[l - 1]
              IN  /\ IsInternal(p) <=> Many(Under(C, k, l - 1))
                  /\ PathOf(E, C, k)[l] = IF IsInternal(p) THEN Child(p, Bit(k, l - 1)) ELSE ZeroHash
                  /\ IsInternal(p) => /\ PathOf(E, C, k)[l] = SubTree(E, C, k, l)
                                      /\ Other(p, Bit(k, l - 1)) = SubTree(E, C, Flip(k, l), l)
<1>1. PathOf(E, C, k)[0] = SubTree(E, C, k, 0)
  BY BitsType DEF PathOf
<1>2. ASSUME NEW l \in 1..Bits
      PROVE  LET p == PathOf(E, C, k)[l - 1]
             IN  /\ IsInternal(p) <=> Many(Under(C, k, l - 1))
                 /\ PathOf(E, C, k)[l] = IF IsInternal(p) THEN Child(p, Bit(k, l - 1)) ELSE ZeroHash
                 /\ IsInternal(p) => /\ PathOf(E, C, k)[l] = SubTree(E, C, k, l)
                                     /\ Other(p, Bit(k, l - 1)) = SubTree(E, C, Flip(k, l), l)
  <2> DEFINE p == PathOf(E, C, k)[l - 1]
             M == Many(Under(C, k, l - 1))
  <2>1. l - 1 \in 0..Bits /\ l \in 0..Bits /\ l # 0 /\ (l - 1) + 1 = l /\ l \in Nat
    BY BitsType
  <2>2. k[l] \in {0, 1} /\ Bit(k, l - 1) = k[l]
    BY <2>1 DEF Cube, Bit
  <2>3. PathOf(E, C, k)[l] = IF M THEN SubTree(E, C, k, l) ELSE ZeroHash
    BY <2>1 DEF PathOf
  <2>4. CASE M
    <3>1. p = SubTree(E, C, k, l - 1)
      <4>1. CASE l - 1 = 0
        BY <2>1, <4>1 DEF PathOf
      <4>2. CASE l - 1 # 0
        <5>1. Many(Under(C, k, (l - 1) - 1))
          <6>1. (l - 1) - 1 \in 0..(l - 1)
            BY <2>1, <4>2
          <6> QED BY <2>1, <2>4, <6>1, ManyAbove
        <5> QED BY <2>1, <5>1 DEF PathOf
      <4> QED BY <4>1, <4>2
    <3>2. p = Join(k[l], SubTree(E, C, k, l), SubTree(E, C, Flip(k, l), l))
      BY <2>1, <2>4, <3>1, SubTreeFacts
    <3> HIDE DEF p
    <3>3. IsInternal(p) /\ Child(p, k[l]) = SubTree(E, C, k, l) /\ Other(p, k[l]) = SubTree(E, C, Flip(k, l), l)
      BY <2>2, <3>2, JoinFacts
    <3> QED BY <2>2, <2>3, <2>4, <3>3 DEF p
  <2>5. CASE ~M
    <3>1. ~IsInternal(p)
      <4>1. CASE l - 1 # 0 /\ ~Many(Under(C, k, (l - 1) - 1))
        <5>1. p = ZeroHash
          BY <2>1, <4>1 DEF PathOf
        <5> QED BY <5>1, Terms
      <4>2. CASE l - 1 = 0 \/ Many(Under(C, k, (l - 1) - 1))
        <5>1. p = SubTree(E, C, k, l - 1)
          BY <2>1, <4>2 DEF PathOf
        <5> QED BY <2>1, <2>5, <5>1, Kinds
      <4> QED BY <4>1, <4>2
    <3> QED BY <2>3, <2>5, <3>1
  <2> QED BY <2>4, <2>5
<1> QED BY <1>1, <1>2

\* Where the path ends.
LEMMA PathEnd ==
  ASSUME NEW E, NEW C, Fits(E, C), NEW k \in Cube, NEW d, EndsAt(C, k, d)
  PROVE  /\ PathOf(E, C, k)[d] = SubTree(E, C, k, d) /\ ~IsInternal(PathOf(E, C, k)[d])
         /\ \A l \in 0..(d - 1) : IsInternal(PathOf(E, C, k)[l])
         /\ \A e \in 0..Bits : /\ ~IsInternal(PathOf(E, C, k)[e])
                               /\ \A l \in 0..(e - 1) : IsInternal(PathOf(E, C, k)[l])
                               => e = d
<1> DEFINE at == PathOf(E, C, k)
<1>0. d \in 0..Bits /\ d \in Nat /\ ~Many(Under(C, k, d)) /\ \A l \in 0..(d - 1) : Many(Under(C, k, l))
  BY BitsType DEF EndsAt
<1>1. at[d] = SubTree(E, C, k, d)
  <2>1. d = 0 \/ Many(Under(C, k, d - 1))
    <3>1. d # 0 => d - 1 \in 0..(d - 1)
      BY <1>0
    <3> QED BY <1>0, <3>1
  <2> QED BY <1>0, <2>1 DEF PathOf
<1>2. ~IsInternal(at[d])
  BY <1>0, <1>1, Kinds
<1>3. ASSUME NEW l \in 0..(d - 1) PROVE IsInternal(at[l])
  <2>1. l + 1 \in 1..Bits /\ (l + 1) - 1 = l
    BY <1>0, BitsType
  <2>2. IsInternal(at[(l + 1) - 1]) <=> Many(Under(C, k, (l + 1) - 1))
    BY <2>1, PathFacts
  <2> QED BY <1>0, <2>1, <2>2
<1> HIDE DEF at
<1>4. ASSUME NEW e \in 0..Bits, ~IsInternal(at[e]), \A l \in 0..(e - 1) : IsInternal(at[l])
      PROVE  e = d
  <2>1. e \in Nat
    BY BitsType
  <2>2. e < d => e \in 0..(d - 1)
    BY <1>0, <2>1
  <2>3. d < e => d \in 0..(e - 1)
    BY <1>0, <2>1
  <2> QED BY <1>0, <1>2, <1>3, <1>4, <2>1, <2>2, <2>3
<1> QED BY <1>1, <1>2, <1>3, <1>4 DEF at

\* find_key_internal of the contract goes along this path.
LEMMA DescentIsPath ==
  ASSUME NEW E, NEW C, Fits(E, C), NEW k \in Cube, root = SubTree(E, C, k, 0)
  PROVE  Descent(k) = PathOf(E, C, k)
<1> DEFINE Body(g) == [l \in 0..Bits |->
                         IF l = 0 THEN root
                         ELSE IF IsInternal(g[l - 1]) THEN Child(g[l - 1], Bit(k, l - 1)) ELSE ZeroHash]
           at == PathOf(E, C, k)
           f == CHOOSE g : g = Body(g)
<1>1. Descent(k) = f
  BY DEF Descent
<1>2. at = Body(at)
  <2>1. \A l \in 0..Bits : at[l] = Body(at)[l]
    <3> TAKE l \in 0..Bits
    <3>1. CASE l = 0
      BY <3>1, PathFacts
    <3>2. CASE l # 0
      <4>1. l \in 1..Bits
        BY <3>2, BitsType
      <4> QED BY <3>2, <4>1, PathFacts
    <3> QED BY <3>1, <3>2
  <2>2. at = [l \in 0..Bits |-> at[l]]
    BY DEF PathOf
  <2>3. Body(at) = [l \in 0..Bits |-> Body(at)[l]]
    OBVIOUS
  <2> HIDE DEF at, Body
  <2> QED BY <2>1, <2>2, <2>3
<1> HIDE DEF Body
<1>3. f = Body(f)
  BY <1>2
<1> HIDE DEF f
<1> DEFINE G == {l \in Nat : l \in 0..Bits => f[l] = at[l]}
<1>4. \A l \in 0..Bits : f[l] = Body(f)[l] /\ at[l] = Body(at)[l]
  BY <1>2, <1>3
<1>5. 0 \in G
  BY <1>4 DEF Body
<1>6. ASSUME NEW l \in Nat, l \in G PROVE l + 1 \in G
  <2> SUFFICES ASSUME l + 1 \in 0..Bits PROVE f[l + 1] = at[l + 1]
    OBVIOUS
  <2>1. l \in 0..Bits /\ (l + 1) - 1 = l /\ l + 1 # 0
    BY BitsType
  <2>2. f[l] = at[l]
    BY <1>6, <2>1
  <2>3. Body(f)[l + 1] = Body(at)[l + 1]
    BY <2>1, <2>2 DEF Body
  <2> QED BY <1>4, <2>3
<1> HIDE DEF G, at
<1>7. \A l \in 0..Bits : f[l] = at[l]
  <2>1. Nat \subseteq G
    BY <1>5, <1>6, Induct
  <2> QED BY <2>1, BitsType DEF G
<1>8. f = [l \in 0..Bits |-> f[l]] /\ at = [l \in 0..Bits |-> at[l]]
  BY <1>2, <1>3 DEF Body
<1> QED BY <1>1, <1>7, <1>8 DEF at

\* A key is found where its descent ends, if it is among the entries at all.
LEMMA KeyAtEnd ==
  ASSUME NEW E, NEW C, Fits(E, C), NEW k \in Cube, NEW d, EndsAt(C, k, d)
  PROVE  LET T == SubTree(E, C, k, d)
         IN  /\ (IsLeaf(T) /\ LeafKey(T) = k) <=> \E x \in C : x[1] = k
             /\ \A x \in C : x[1] = k => T = HashLeaf(k, x[2]) /\ Under(C, k, d) = {x}
             /\ T = ZeroHash \/ \E x \in C : T = HashLeaf(x[1], x[2]) /\ Under(C, k, d) = {x}
             /\ T = ZeroHash <=> Under(C, k, d) = {}
<1> DEFINE T == SubTree(E, C, k, d)
           U == Under(C, k, d)
<1>0. d \in 0..Bits /\ ~Many(U)
  BY DEF EndsAt
<1>1. U \subseteq C
  BY DEF Under
<1>2. ASSUME NEW x \in C, x[1] = k PROVE x \in U /\ U = {x} /\ T = HashLeaf(k, x[2])
  <2>1. x \in U
    BY <1>2 DEF Under
  <2>2. U = {x}
    BY <1>0, <2>1 DEF Many
  <2> QED BY <1>0, <1>2, <2>1, <2>2, SubTreeFacts
<1>3. ASSUME IsLeaf(T), LeafKey(T) = k PROVE \E x \in C : x[1] = k
  <2>1. PICK x \in U : U = {x}
    BY <1>0, <1>3, Kinds
  <2>2. T = HashLeaf(x[1], x[2])
    BY <1>0, <2>1, SubTreeFacts
  <2> QED BY <1>1, <1>3, <2>2, Terms
<1>4. (T = ZeroHash <=> U = {}) /\ (T = ZeroHash \/ \E x \in C : T = HashLeaf(x[1], x[2]) /\ U = {x})
  <2>1. T = ZeroHash <=> U = {}
    BY <1>0, Kinds
  <2>2. ASSUME U # {} PROVE \E x \in C : T = HashLeaf(x[1], x[2]) /\ U = {x}
    <3>1. PICK x \in U : U = {x}
      BY <1>0, <2>2, Sizes
    <3>2. T = HashLeaf(x[1], x[2])
      BY <1>0, <3>1, SubTreeFacts
    <3> QED BY <1>1, <3>1, <3>2
  <2> QED BY <2>1, <2>2
<1>5. ASSUME NEW x \in C, x[1] = k PROVE IsLeaf(T) /\ LeafKey(T) = k
  BY <1>2, <1>5, Terms
<1> QED BY <1>2, <1>3, <1>4, <1>5

\* The last sibling passed is not zero, and if the descent ends at nothing it
\* is not a leaf either.
LEMMA LastSibling ==
  ASSUME NEW E, NEW C, Fits(E, C), NEW k \in Cube, NEW d, EndsAt(C, k, d), d # 0
  PROVE  /\ d \in 1..Bits /\ SubTree(E, C, Flip(k, d), d) # ZeroHash
         /\ Under(C, k, d) = {} => Many(Under(C, Flip(k, d), d))
<1>0. d \in 1..Bits /\ d - 1 \in 0..(d - 1) /\ d \in 0..Bits
  BY BitsType DEF EndsAt
<1>1. Many(Under(C, k, d - 1)) /\ ~Many(Under(C, k, d))
  BY <1>0 DEF EndsAt
<1>2. /\ Flip(k, d) \in Cube
      /\ Under(C, k, d) = {x \in Under(C, k, d - 1) : x[1][d] = k[d]}
      /\ Under(C, Flip(k, d), d) = {x \in Under(C, k, d - 1) : x[1][d] # k[d]}
  BY <1>0, UnderFacts
<1>3. Under(C, Flip(k, d), d) # {}
  BY <1>1, <1>2 DEF Many
<1>4. Under(C, k, d) = {} => Under(C, Flip(k, d), d) = Under(C, k, d - 1)
  BY <1>2
<1> QED BY <1>0, <1>1, <1>2, <1>3, <1>4, Kinds

\* What find_key_internal returns.
LEMMA FindIs ==
  ASSUME NEW E, NEW C, Fits(E, C), NEW k \in Cube, root = SubTree(E, C, k, 0),
         NEW d, EndsAt(C, k, d)
  PROVE  /\ Depth(k) = d
         /\ FindResult(k).found <=> \E x \in C : x[1] = k
         /\ FindResult(k).siblings = SiblingsOf(E, C, k, d)
         /\ FindResult(k).end = SubTree(E, C, k, d)
         /\ FindResult(k).is_old0 <=> Under(C, k, d) = {}
         /\ FindSucceeds(k) <=> \A l \in 0..d : SubTree(E, C, k, l) # ZeroHash => SubTree(E, C, k, l) \in nodes
<1> DEFINE at == PathOf(E, C, k)
<1>0. d \in 0..Bits /\ d \in Nat /\ Bits \in Nat
  BY BitsType DEF EndsAt
<1>1. Descent(k) = at
  BY DescentIsPath
<1>2. /\ at[d] = SubTree(E, C, k, d) /\ ~IsInternal(at[d])
      /\ \A l \in 0..(d - 1) : IsInternal(at[l])
      /\ \A e \in 0..Bits : ~IsInternal(at[e]) /\ (\A l \in 0..(e - 1) : IsInternal(at[l])) => e = d
  BY PathEnd
<1>3. \A l \in 1..d : /\ IsInternal(at[l - 1]) /\ at[l] = SubTree(E, C, k, l)
                      /\ Other(at[l - 1], Bit(k, l - 1)) = SubTree(E, C, Flip(k, l), l)
  <2> TAKE l \in 1..d
  <2>1. l \in 1..Bits /\ l - 1 \in 0..(d - 1)
    BY <1>0
  <2> QED BY <1>2, <2>1, PathFacts
<1>4. at[0] = SubTree(E, C, k, 0)
  BY PathFacts
<1>5. \A l \in 0..d : at[l] = SubTree(E, C, k, l)
  <2> TAKE l \in 0..d
  <2>1. l = 0 \/ l \in 1..d
    BY <1>0
  <2> QED BY <1>3, <1>4, <2>1
<1> HIDE DEF at
<1>6. Depth(k) = d
  <2> DEFINE P(e) == ~IsInternal(at[e]) /\ \A l \in 0..(e - 1) : IsInternal(at[l])
  <2>1. Depth(k) = CHOOSE e \in 0..Bits : P(e)
    BY <1>1 DEF Depth
  <2>2. P(d) /\ \A e \in 0..Bits : P(e) => e = d
    BY <1>2
  <2> HIDE DEF P
  <2> QED BY <1>0, <2>1, <2>2
<1>7. FindResult(k).siblings = SiblingsOf(E, C, k, d)
  <2>1. FindResult(k).siblings = [l \in 1..d |-> Other(at[l - 1], Bit(k, l - 1))]
    BY <1>1, <1>6 DEF FindResult
  <2> QED BY <1>3, <2>1 DEF SiblingsOf
<1>8. FindResult(k).end = SubTree(E, C, k, d)
  BY <1>1, <1>2, <1>6 DEF FindResult
<1>9. FindResult(k).found <=> \E x \in C : x[1] = k
  <2>1. FindResult(k).found <=> IsLeaf(at[d]) /\ LeafKey(at[d]) = k
    BY <1>1, <1>6 DEF FindResult
  <2> QED BY <1>2, <2>1, KeyAtEnd
<1>10. FindResult(k).is_old0 <=> Under(C, k, d) = {}
  <2>1. FindResult(k).is_old0 <=> at[d] = ZeroHash
    BY <1>1, <1>6 DEF FindResult
  <2> QED BY <1>2, <2>1, KeyAtEnd
<1>11. FindSucceeds(k) <=> \A l \in 0..d : SubTree(E, C, k, l) # ZeroHash => SubTree(E, C, k, l) \in nodes
  BY <1>1, <1>5, <1>6 DEF FindSucceeds
<1> QED BY <1>6, <1>7, <1>8, <1>9, <1>10, <1>11

-----------------------------------------------------------------------------
(* From a node up to the root.                                              *)

\* The nodes from start up, along n siblings.
Climbed(k, start, s, n) ==
  CHOOSE g : g = [j \in 0..n |-> IF j = 0 THEN start
                                 ELSE Join(Bit(k, n - j), g[j - 1], s[n - j + 1])]

\* The recursion has a solution.
LEMMA ClimbedUnfold ==
  ASSUME NEW k, NEW start, NEW s, NEW n \in Nat
  PROVE  LET g == Climbed(k, start, s, n)
         IN  /\ g[0] = start
             /\ \A j \in 1..n : g[j] = Join(k[n - j + 1], g[j - 1], s[n - j + 1])
<1> DEFINE Step(g, j) == IF j = 0 THEN start ELSE Join(Bit(k, n - j), g[j - 1], s[n - j + 1])
           Solves(m, g) == g = [j \in 0..m |-> Step(g, j)]
           N == {m \in Nat : \E g : Solves(m, g)}
<1>1. 0 \in N
  <2> DEFINE g == [j \in 0..0 |-> start]
  <2>1. \A j \in 0..0 : Step(g, j) = start
    OBVIOUS
  <2>2. Solves(0, g)
    BY <2>1
  <2> QED BY <2>2
<1>2. ASSUME NEW m \in Nat, m \in N PROVE m + 1 \in N
  <2>1. PICK g : Solves(m, g)
    BY <1>2
  <2> DEFINE h == [j \in 0..(m + 1) |-> Step(g, j)]
  <2>2. ASSUME NEW j \in 0..(m + 1) PROVE Step(g, j) = Step(h, j)
    <3>1. CASE j = 0
      BY <3>1
    <3>2. CASE j # 0
      <4>1. j - 1 \in 0..m /\ j - 1 \in 0..(m + 1)
        BY <3>2
      <4>2. g[j - 1] = Step(g, j - 1)
        BY <2>1, <4>1
      <4>3. h[j - 1] = g[j - 1]
        BY <4>1, <4>2
      <4> HIDE DEF h
      <4> QED BY <3>2, <4>3
    <3> QED BY <3>1, <3>2
  <2> HIDE DEF Step
  <2>3. Solves(m + 1, h)
    BY <2>2
  <2> HIDE DEF h, Solves
  <2> QED BY <2>3
<1> HIDE DEF N
<1>3. \E g : Solves(n, g)
  BY <1>1, <1>2, Induct DEF N
<1> DEFINE c == Climbed(k, start, s, n)
<1>4. c = [j \in 0..n |-> Step(c, j)]
  BY <1>3 DEF Climbed
<1> HIDE DEF c
<1>5. \A j \in 0..n : c[j] = Step(c, j)
  BY <1>4
<1>6. c[0] = start
  BY <1>5
<1>7. \A j \in 1..n : c[j] = Join(k[n - j + 1], c[j - 1], s[n - j + 1])
  <2> TAKE j \in 1..n
  <2>1. j \in 0..n /\ j # 0
    OBVIOUS
  <2> QED BY <1>5, <2>1 DEF Bit
<1> QED BY <1>6, <1>7 DEF c

\* s are the siblings of the path of k on its first n levels.
Along(E, C, k, n, s) ==
  /\ Fits(E, C) /\ k \in Cube /\ n \in 0..Bits
  /\ \A l \in 0..(n - 1) : Many(Under(C, k, l))
  /\ \A l \in 1..n : s[l] = SubTree(E, C, Flip(k, l), l)

\* Along the siblings of a path only the node of the path leads to the root.
LEMMA ClimbIsPath ==
  ASSUME NEW E, NEW C, NEW k, NEW n, NEW s, Along(E, C, k, n, s), NEW start
  PROVE  Climbed(k, start, s, n)[n] = SubTree(E, C, k, 0) <=> start = SubTree(E, C, k, n)
<1> /\ Fits(E, C) /\ k \in Cube /\ n \in 0..Bits
    /\ \A l \in 0..(n - 1) : Many(Under(C, k, l))
    /\ \A l \in 1..n : s[l] = SubTree(E, C, Flip(k, l), l)
  BY DEF Along
<1> DEFINE g == Climbed(k, start, s, n)
           G == {j \in Nat : j \in 0..n => (g[j] = SubTree(E, C, k, n - j) <=> start = SubTree(E, C, k, n))}
<1>0. n \in Nat /\ n - 0 = n /\ n - n = 0
  BY BitsType
<1>1. g[0] = start /\ \A j \in 1..n : g[j] = Join(k[n - j + 1], g[j - 1], s[n - j + 1])
  BY <1>0, ClimbedUnfold
<1> HIDE DEF g
<1>2. 0 \in G
  BY <1>0, <1>1
<1>3. ASSUME NEW j \in Nat, j \in G PROVE j + 1 \in G
  <2> SUFFICES ASSUME j + 1 \in 0..n
               PROVE  g[j + 1] = SubTree(E, C, k, n - (j + 1)) <=> start = SubTree(E, C, k, n)
    OBVIOUS
  <2> DEFINE l == n - (j + 1)
  <2>1. /\ j \in 0..n /\ j + 1 \in 1..n /\ (j + 1) - 1 = j /\ n - (j + 1) + 1 = l + 1 /\ n - j = l + 1
        /\ l \in 0..(n - 1) /\ l \in 0..Bits /\ l + 1 \in 1..n /\ l + 1 \in 1..Bits
    BY <1>0, BitsType
  <2> HIDE DEF l
  <2>2. g[j + 1] = Join(k[l + 1], g[j], SubTree(E, C, Flip(k, l + 1), l + 1))
    BY <1>1, <2>1
  <2>3. SubTree(E, C, k, l) = Join(k[l + 1], SubTree(E, C, k, l + 1), SubTree(E, C, Flip(k, l + 1), l + 1))
    BY <2>1, SubTreeFacts
  <2>4. k[l + 1] \in {0, 1}
    BY <2>1 DEF Cube
  <2>5. g[j + 1] = SubTree(E, C, k, l) <=> g[j] = SubTree(E, C, k, l + 1)
    BY <2>2, <2>3, <2>4, JoinFacts
  <2>6. g[j] = SubTree(E, C, k, l + 1) <=> start = SubTree(E, C, k, n)
    BY <1>3, <2>1
  <2> QED BY <2>5, <2>6 DEF l
<1> HIDE DEF G
<1>4. n \in G
  BY <1>0, <1>2, <1>3, Induct
<1> QED BY <1>0, <1>4 DEF G, g

\* The two climbs of the model.
LEMMA ClimbsAre ==
  ASSUME NEW k
  PROVE  /\ \A start, s : RootFromProof(k, start, s) = Climbed(k, start, s, Len(s))[Len(s)]
         /\ \A p : VerifierRoot(k, p)
                     = Climbed(k, IF p.is_old0 THEN ZeroHash ELSE HashLeaf(p.old_key, p.old_value),
                               p.siblings, LevIns(p.siblings))[LevIns(p.siblings)]
BY DEF RootFromProof, VerifierRoot, Climbed

-----------------------------------------------------------------------------
(* Trees that differ at one key.                                            *)

\* C and C2 hold the same entries of all keys but q.
Agree(C, C2, q) == \A x \in C \cup C2 : x[1] # q => (x \in C <=> x \in C2)

\* The paths of k and q are one down to level l.
OnPath(k, q, l) == \A i \in 1..l : k[i] = q[i]

\* Every node of the tree is in N.
Complete(E, C, N) ==
  \A k \in Cube : \A l \in 0..Bits : SubTree(E, C, k, l) # ZeroHash => SubTree(E, C, k, l) \in N

\* Away from the path of the key the trees are the same.
LEMMA OffPath ==
  ASSUME NEW E, NEW C, NEW C2, NEW q, Agree(C, C2, q), NEW k, NEW l, ~OnPath(k, q, l)
  PROVE  Under(C, k, l) = Under(C2, k, l) /\ SubTree(E, C, k, l) = SubTree(E, C2, k, l)
<1>1. Under(C, k, l) = Under(C2, k, l)
  BY DEF Agree, OnPath, Under
<1> QED BY <1>1 DEF SubTree

\* On it only the key matters.
LEMMA AlongPath ==
  ASSUME NEW E, NEW C, NEW q, NEW k, NEW l, OnPath(k, q, l)
  PROVE  Under(C, k, l) = Under(C, q, l) /\ SubTree(E, C, k, l) = SubTree(E, C, q, l)
<1>1. Under(C, k, l) = Under(C, q, l)
  BY DEF OnPath, Under
<1> QED BY <1>1 DEF SubTree

\* The siblings of the path are off it.
LEMMA BesidePath ==
  ASSUME NEW E, NEW C, NEW C2, NEW q \in Cube, Agree(C, C2, q), NEW l \in 1..Bits
  PROVE  /\ Under(C, Flip(q, l), l) = Under(C2, Flip(q, l), l)
         /\ SubTree(E, C, Flip(q, l), l) = SubTree(E, C2, Flip(q, l), l)
<1>1. q[l] \in {0, 1} /\ Flip(q, l)[l] = 1 - q[l] /\ l \in 1..l
  BY BitsType DEF Flip, Cube
<1>2. ~OnPath(Flip(q, l), q, l)
  BY <1>1 DEF OnPath
<1> QED BY <1>2, OffPath

\* A store with every node of the old tree, less none of the new one, that has
\* the nodes of the key's path, has every node of the new tree.
LEMMA CompleteAfter ==
  ASSUME NEW E, NEW C, Fits(E, C), NEW C2, Fits(E, C2), NEW q \in Cube, Agree(C, C2, q),
         NEW D \in 0..Bits, ~Many(Under(C2, q, D)), NEW N, Complete(E, C, N), NEW N2,
         \A k \in Cube : \A l \in 0..Bits : SubTree(E, C2, k, l) \in N => SubTree(E, C2, k, l) \in N2,
         \A l \in 0..D : SubTree(E, C2, q, l) # ZeroHash => SubTree(E, C2, q, l) \in N2
  PROVE  Complete(E, C2, N2)
<1> SUFFICES ASSUME NEW k \in Cube, NEW l \in 0..Bits, SubTree(E, C2, k, l) # ZeroHash
             PROVE  SubTree(E, C2, k, l) \in N2
  BY DEF Complete
<1>1. CASE ~OnPath(k, q, l)
  <2>1. SubTree(E, C2, k, l) = SubTree(E, C, k, l)
    BY <1>1, OffPath
  <2>2. SubTree(E, C, k, l) \in N
    BY <2>1 DEF Complete
  <2> QED BY <2>1, <2>2
<1>2. CASE OnPath(k, q, l)
  <2>1. SubTree(E, C2, k, l) = SubTree(E, C2, q, l)
    BY <1>2, AlongPath
  <2>2. CASE l \in 0..D
    BY <2>1, <2>2
  <2>3. CASE l \notin 0..D
    <3>1. D \in 0..l /\ D \in 0..D
      BY <2>3, BitsType
    <3>2. Under(C2, q, l) \subseteq Under(C2, q, D)
      BY <3>1, UnderFacts
    <3>3. Under(C2, q, l) # {}
      BY <2>1, Kinds
    <3>4. PICK x : Under(C2, q, l) = {x} /\ Under(C2, q, D) = {x}
      BY <3>2, <3>3 DEF Many
    <3>5. SubTree(E, C2, q, l) = HashLeaf(x[1], x[2]) /\ SubTree(E, C2, q, D) = HashLeaf(x[1], x[2])
      BY <3>4, SubTreeFacts
    <3> QED BY <2>1, <3>1, <3>5
  <2> QED BY <2>2, <2>3
<1> QED BY <1>1, <1>2

\* Where two keys part.
LEMMA CommonPrefixFacts ==
  ASSUME NEW a \in Cube, NEW b \in Cube, a # b
  PROVE  LET c == CommonPrefix(a, b)
         IN  /\ c \in 0..(Bits - 1) /\ a[c + 1] # b[c + 1]
             /\ \A i \in 1..c : a[i] = b[i]
<1> DEFINE W == {n \in 0..(Bits - 1) : a[n + 1] # b[n + 1]}
           P(n) == a[n + 1] # b[n + 1] /\ \A l \in 0..(n - 1) : a[l + 1] = b[l + 1]
<1>1. PICK i \in 1..Bits : a[i] # b[i]
  BY SameBits
<1>2. i - 1 \in 0..(Bits - 1) /\ (i - 1) + 1 = i
  BY BitsType
<1>3. W # {} /\ W \subseteq Nat
  BY <1>1, <1>2
<1>4. PICK n \in W : \A y \in W : n <= y
  BY <1>3, LeastNumber
<1>5. n \in 0..(Bits - 1) /\ P(n)
  <2>1. \A l \in 0..(n - 1) : l \in 0..(Bits - 1) /\ ~(n <= l)
    BY BitsType
  <2> QED BY <1>4, <2>1
<1> DEFINE c == CHOOSE m \in 0..(Bits - 1) : P(m)
<1>6. CommonPrefix(a, b) = c
  BY DEF CommonPrefix, Bit
<1> HIDE DEF P
<1>7. c \in 0..(Bits - 1) /\ P(c)
  BY <1>5
<1> HIDE DEF c
<1>8. \A j \in 1..c : j - 1 \in 0..(c - 1) /\ (j - 1) + 1 = j
  BY <1>7
<1>9. \A j \in 1..c : a[j] = b[j]
  BY <1>7, <1>8 DEF P
<1> QED BY <1>6, <1>7, <1>9 DEF P

\* The entries with q added.
With(C, q, v) == C \cup {<<q, v>>}

\* The key q, at which nothing is found below level d, comes in with v.
Comes(E, C, q, v, d) ==
  /\ Fits(E, C) /\ q \in Cube /\ <<q, v>> \in E
  /\ \A x \in C : x[1] # q
  /\ EndsAt(C, q, d)

\* It comes in where the leaf of o was.
Collides(E, C, q, v, d, o) == Comes(E, C, q, v, d) /\ Under(C, q, d) = {o}

\* A new key is one more entry along its own path.
LEMMA Grown ==
  ASSUME NEW E, NEW C, NEW q, NEW v, NEW d, Comes(E, C, q, v, d)
  PROVE  Fits(E, With(C, q, v)) /\ Agree(C, With(C, q, v), q) /\ <<q, v>> \notin C
<1> /\ Fits(E, C) /\ q \in Cube /\ <<q, v>> \in E /\ EndsAt(C, q, d)
    /\ \A x \in C : x[1] # q
  BY DEF Comes
<1> DEFINE e == <<q, v>>
           C2 == With(C, q, v)
<1>1. e[1] = q /\ C2 = C \cup {e}
  BY DEF With
<1> HIDE DEF e, C2
<1>2. Fits(E, C2)
  BY <1>1 DEF Fits, e
<1>3. Agree(C, C2, q)
  BY <1>1 DEF Agree
<1> QED BY <1>1, <1>2, <1>3 DEF e, C2

\* The new entry is below every node of its path.
LEMMA GrownUnder ==
  ASSUME NEW C, NEW q, NEW v, NEW l
  PROVE  Under(With(C, q, v), q, l) = Under(C, q, l) \cup {<<q, v>>}
<1>1. <<q, v>>[1] = q
  OBVIOUS
<1> QED BY <1>1 DEF Under, With

\* Where there was nothing, the key's leaf ends the path.
LEMMA GrownAlone ==
  ASSUME NEW E, NEW C, NEW q, NEW v, NEW d, Comes(E, C, q, v, d), Under(C, q, d) = {}
  PROVE  LET C2 == With(C, q, v)
         IN  EndsAt(C2, q, d) /\ Under(C2, q, d) = {<<q, v>>}
<1> /\ Fits(E, C) /\ q \in Cube /\ <<q, v>> \in E /\ EndsAt(C, q, d)
    /\ \A x \in C : x[1] # q
  BY DEF Comes
<1> DEFINE e == <<q, v>>
           C2 == With(C, q, v)
<1>1. \A l : Under(C2, q, l) = Under(C, q, l) \cup {e}
  BY GrownUnder
<1>2. d \in 0..Bits /\ \A l \in 0..(d - 1) : l \in 0..Bits /\ Many(Under(C, q, l))
  BY BitsType DEF EndsAt
<1> HIDE DEF e, C2
<1>3. Under(C2, q, d) = {e}
  BY <1>1, <1>2
<1>4. \A l \in 0..(d - 1) : Many(Under(C2, q, l))
  BY <1>1, <1>2 DEF Many
<1>5. ~Many(Under(C2, q, d))
  BY <1>3 DEF Many
<1>6. EndsAt(C2, q, d)
  BY <1>2, <1>4, <1>5 DEF EndsAt
<1> QED BY <1>3, <1>6 DEF e, C2

\* Where there was another leaf, the path goes on to where the keys part.
LEMMA GrownBeside ==
  ASSUME NEW E, NEW C, NEW q, NEW v, NEW d, NEW o, Collides(E, C, q, v, d, o)
  PROVE  LET C2 == With(C, q, v)
             c == CommonPrefix(q, o[1])
         IN  /\ c \in d..(Bits - 1) /\ d \in Nat
             /\ EndsAt(C2, q, c + 1) /\ Under(C2, q, c + 1) = {<<q, v>>}
             /\ \A l \in (d + 1)..c : SubTree(E, C, Flip(q, l), l) = ZeroHash
             /\ SubTree(E, C, Flip(q, c + 1), c + 1) = HashLeaf(o[1], o[2])
<1> DEFINE e == <<q, v>>
           C2 == With(C, q, v)
           c == CommonPrefix(q, o[1])
<1>c. Comes(E, C, q, v, d) /\ Under(C, q, d) = {o}
  BY DEF Collides
<1>1. \A l : Under(C2, q, l) = Under(C, q, l) \cup {e}
  BY GrownUnder
<1> /\ Fits(E, C) /\ q \in Cube /\ <<q, v>> \in E /\ EndsAt(C, q, d)
    /\ (\A x \in C : x[1] # q) /\ Under(C, q, d) = {o}
  BY <1>c DEF Comes
<1>0. d \in 0..Bits /\ d \in Nat /\ \A l \in 0..(d - 1) : l \in 0..Bits /\ Many(Under(C, q, l))
  BY BitsType DEF EndsAt
<1>2. o \in C /\ o[1] \in Cube /\ o[1] # q /\ \A i \in 1..d : o[1][i] = q[i]
  BY DEF Under, Fits, IsEntries
<1>3. c \in 0..(Bits - 1) /\ q[c + 1] # o[1][c + 1] /\ \A i \in 1..c : q[i] = o[1][i]
  BY <1>2, CommonPrefixFacts
<1>e. e[1] = q /\ e # o
  BY <1>2
<1> HIDE DEF c, e, C2
<1>4. c \in d..(Bits - 1) /\ c + 1 \in 1..Bits /\ c \in 0..Bits /\ (c + 1) - 1 = c /\ d \in 0..c
  <2>1. c < d => c + 1 \in 1..d
    BY <1>0, <1>3
  <2>2. ~(c < d)
    BY <1>2, <1>3, <2>1
  <2> QED BY <1>0, <1>3, <2>2, BitsType
<1>5. ASSUME NEW l \in d..c PROVE l \in 0..Bits /\ Under(C, q, l) = {o}
  <2>1. l \in 0..Bits /\ d \in 0..l /\ \A i \in 1..l : i \in 1..c
    BY <1>0, <1>4, BitsType
  <2>2. Under(C, q, l) \subseteq {o}
    BY <2>1, UnderFacts
  <2>3. o \in Under(C, q, l)
    BY <1>2, <1>3, <2>1 DEF Under
  <2> QED BY <2>1, <2>2, <2>3
<1>6. \A l \in 1..Bits : /\ Under(C, q, l) = {x \in Under(C, q, l - 1) : x[1][l] = q[l]}
                         /\ Under(C, Flip(q, l), l) = {x \in Under(C, q, l - 1) : x[1][l] # q[l]}
                         /\ Flip(q, l) \in Cube
  BY UnderFacts
<1>7. /\ Under(C, q, c + 1) = {} /\ Under(C, Flip(q, c + 1), c + 1) = {o}
  <2>1. Under(C, q, (c + 1) - 1) = {o}
    BY <1>0, <1>4, <1>5
  <2> QED BY <1>3, <1>4, <1>6, <2>1
<1>8. SubTree(E, C, Flip(q, c + 1), c + 1) = HashLeaf(o[1], o[2])
  <2>1. c + 1 \in 0..Bits /\ Flip(q, c + 1) \in Cube
    BY <1>4, <1>6
  <2> QED BY <1>7, <2>1, SubTreeFacts
<1>9. ASSUME NEW l \in (d + 1)..c PROVE SubTree(E, C, Flip(q, l), l) = ZeroHash
  <2>1. l - 1 \in d..c /\ l \in d..c /\ l \in 1..Bits /\ l \in 0..Bits
    BY <1>0, <1>4, BitsType
  <2>2. Under(C, q, l - 1) = {o} /\ Under(C, q, l) = {o}
    BY <1>5, <2>1
  <2>3. Under(C, Flip(q, l), l) = {} /\ Flip(q, l) \in Cube
    BY <1>6, <2>1, <2>2
  <2> QED BY <2>1, <2>3, SubTreeFacts
<1>10. Under(C2, q, c + 1) = {e} /\ c + 1 \in 0..Bits
  BY <1>1, <1>4, <1>7
<1>11. ASSUME NEW l \in 0..((c + 1) - 1) PROVE Many(Under(C2, q, l))
  <2>1. l \in 0..(d - 1) \/ l \in d..c
    BY <1>0, <1>4
  <2>2. CASE l \in 0..(d - 1)
    BY <1>0, <1>1, <2>2 DEF Many
  <2>3. CASE l \in d..c
    <3>1. Under(C2, q, l) = {o} \cup {e}
      BY <1>1, <1>5, <2>3
    <3> QED BY <1>e, <3>1 DEF Many
  <2> QED BY <2>1, <2>2, <2>3
<1>12. EndsAt(C2, q, c + 1)
  <2>1. ~Many(Under(C2, q, c + 1))
    BY <1>10 DEF Many
  <2> QED BY <1>10, <1>11, <2>1 DEF EndsAt
<1> QED BY <1>0, <1>4, <1>8, <1>9, <1>10, <1>12 DEF c, e, C2

\* A function on 1..n is a sequence of length n.
LEMMA ListedSeq ==
  ASSUME NEW n \in Nat, NEW s, s = [l \in 1..n |-> s[l]], NEW S, \A l \in 1..n : s[l] \in S
  PROVE  s \in Seq(S) /\ Len(s) = n
<1>1. s \in [1..n -> S]
  OBVIOUS
<1> QED BY <1>1

\* The siblings of a path are so many.
LEMMA SiblingsFacts ==
  ASSUME NEW E, NEW C, NEW k, NEW d \in Nat
  PROVE  /\ Len(SiblingsOf(E, C, k, d)) = d
         /\ \A l \in 1..d : SiblingsOf(E, C, k, d)[l] = SubTree(E, C, Flip(k, l), l)
         /\ SiblingsOf(E, C, k, d) = <<>> <=> d = 0
         /\ DOMAIN SiblingsOf(E, C, k, d) = 1..d
<1> DEFINE s == SiblingsOf(E, C, k, d)
           S == {s[l] : l \in 1..d}
<1>1. s = [l \in 1..d |-> s[l]] /\ \A l \in 1..d : s[l] = SubTree(E, C, Flip(k, l), l)
  BY DEF SiblingsOf
<1> HIDE DEF s
<1>2. s \in Seq(S) /\ Len(s) = d
  BY <1>1, ListedSeq
<1>3. s = <<>> <=> d = 0
  BY <1>2
<1> QED BY <1>1, <1>2, <1>3 DEF s

\* n zeros and a leaf after the siblings.
Stretched(s, n, leaf) == s \o [i \in 1..n |-> ZeroHash] \o <<leaf>>

\* Zeros over the common prefix and the old leaf: the siblings of the new path.
LEMMA Lengthened ==
  ASSUME NEW E, NEW C, NEW q, NEW v, NEW d, NEW o, Collides(E, C, q, v, d, o)
  PROVE  LET C2 == With(C, q, v)
             c == CommonPrefix(q, o[1])
         IN  Stretched(SiblingsOf(E, C, q, d), c - d, HashLeaf(o[1], o[2]))
               = SiblingsOf(E, C2, q, c + 1)
<1> DEFINE C2 == With(C, q, v)
           c == CommonPrefix(q, o[1])
           leaf == HashLeaf(o[1], o[2])
           s == SiblingsOf(E, C, q, d)
           z == [i \in 1..(c - d) |-> ZeroHash]
           w == SiblingsOf(E, C2, q, c + 1)
           S == {s[l] : l \in 1..d} \cup {ZeroHash, leaf}
<1>1. /\ c \in d..(Bits - 1) /\ d \in Nat
      /\ \A l \in (d + 1)..c : SubTree(E, C, Flip(q, l), l) = ZeroHash
      /\ SubTree(E, C, Flip(q, c + 1), c + 1) = leaf
  BY GrownBeside
<1>c. Comes(E, C, q, v, d) /\ q \in Cube
  BY DEF Collides, Comes
<1>2. Agree(C, C2, q)
  BY <1>c, Grown
<1>3. \A l \in 1..Bits : SubTree(E, C, Flip(q, l), l) = SubTree(E, C2, Flip(q, l), l)
  BY <1>c, <1>2, BesidePath
<1> HIDE DEF C2, c, leaf
<1>4. /\ c \in Nat /\ c - d \in Nat /\ c + 1 \in Nat /\ d \in 0..Bits /\ c + 1 \in 1..Bits
      /\ \A l \in 1..(c + 1) : l \in 1..Bits /\ (l \in 1..d \/ l \in (d + 1)..c \/ l = c + 1)
  BY <1>1, BitsType
<1>5. /\ s = [l \in 1..d |-> s[l]] /\ Len(s) = d
      /\ \A l \in 1..d : s[l] = SubTree(E, C, Flip(q, l), l)
  BY <1>1, SiblingsFacts DEF SiblingsOf
<1>6. /\ w = [l \in 1..(c + 1) |-> w[l]]
      /\ \A l \in 1..(c + 1) : w[l] = SubTree(E, C2, Flip(q, l), l)
  BY <1>4, SiblingsFacts DEF SiblingsOf
<1>7. z = [l \in 1..(c - d) |-> z[l]] /\ \A l \in 1..(c - d) : z[l] = ZeroHash
  OBVIOUS
<1> HIDE DEF s, z, w
<1>8. s \in Seq(S) /\ z \in Seq(S) /\ Len(z) = c - d /\ <<leaf>> \in Seq(S) /\ Len(<<leaf>>) = 1 /\ <<leaf>>[1] = leaf
  <2>1. s \in Seq(S)
    <3>1. \A l \in 1..d : s[l] \in S
      OBVIOUS
    <3> HIDE DEF S
    <3> QED BY <1>1, <1>5, <3>1, ListedSeq
  <2>2. z \in Seq(S) /\ Len(z) = c - d
    <3>1. \A l \in 1..(c - d) : z[l] \in S
      BY <1>7
    <3> HIDE DEF S
    <3> QED BY <1>4, <1>7, <3>1, ListedSeq
  <2>3. leaf \in S
    OBVIOUS
  <2> HIDE DEF S
  <2> QED BY <2>1, <2>2, <2>3
<1> HIDE DEF S
<1> DEFINE t == s \o z
           u == t \o <<leaf>>
<1>9. t \in Seq(S) /\ Len(t) = c /\ \A l \in 1..c : t[l] = IF l <= d THEN s[l] ELSE z[l - d]
  BY <1>1, <1>4, <1>5, <1>8, ConcatProperties
<1> HIDE DEF t
<1>10. u \in Seq(S) /\ Len(u) = c + 1 /\ \A l \in 1..(c + 1) : u[l] = IF l <= c THEN t[l] ELSE leaf
  <2>1. \A l \in 1..(c + 1) : l <= c \/ l - c = 1
    BY <1>4
  <2> DEFINE b == <<leaf>>
  <2>2. b \in Seq(S) /\ Len(b) = 1 /\ b[1] = leaf
    BY <1>8
  <2> HIDE DEF b
  <2>3. /\ t \o b \in Seq(S) /\ Len(t \o b) = c + 1
        /\ \A l \in 1..(c + 1) : (t \o b)[l] = IF l <= c THEN t[l] ELSE b[l - c]
    <3>1. /\ t \o b \in Seq(S) /\ Len(t \o b) = Len(t) + Len(b)
          /\ \A l \in 1..(Len(t) + Len(b)) : (t \o b)[l] = IF l <= Len(t) THEN t[l] ELSE b[l - Len(t)]
      BY <1>9, <2>2, ConcatProperties
    <3>2. Len(t) = c /\ Len(b) = 1
      BY <1>9, <2>2
    <3> QED BY <3>1, <3>2
  <2>4. \A l \in 1..(c + 1) : (t \o b)[l] = IF l <= c THEN t[l] ELSE leaf
    BY <2>1, <2>2, <2>3
  <2> QED BY <2>3, <2>4 DEF b
<1> HIDE DEF u
<1>11. \A l \in 1..(c + 1) : u[l] = w[l]
  <2> TAKE l \in 1..(c + 1)
  <2>1. CASE l \in 1..d
    <3>1. l <= c /\ l <= d /\ l \in 1..c
      BY <1>1, <1>4, <2>1
    <3> QED BY <1>3, <1>4, <1>5, <1>6, <1>9, <1>10, <2>1, <3>1
  <2>2. CASE l \in (d + 1)..c
    <3>1. l <= c /\ ~(l <= d) /\ l \in 1..c /\ l - d \in 1..(c - d)
      BY <1>1, <1>4, <2>2
    <3>2. u[l] = ZeroHash
      BY <1>7, <1>9, <1>10, <3>1
    <3>3. w[l] = ZeroHash
      BY <1>1, <1>3, <1>4, <1>6, <2>2
    <3> QED BY <3>2, <3>3
  <2>3. CASE l = c + 1
    <3>1. ~(l <= c)
      BY <1>4, <2>3
    <3> QED BY <1>1, <1>3, <1>4, <1>6, <1>10, <2>3, <3>1
  <2> QED BY <1>4, <2>1, <2>2, <2>3
<1>12. u = [l \in 1..(c + 1) |-> u[l]]
  BY <1>4, <1>10
<1>13. u = w
  BY <1>6, <1>11, <1>12
<1> QED BY <1>13 DEF u, t, s, z, w, C2, c, leaf, Stretched

\* What insert_leaf puts on the path are the siblings of the new one.
LEMMA InsertSiblingsAre ==
  ASSUME NEW E, NEW C, NEW q, NEW v, NEW d, Comes(E, C, q, v, d),
         root = SubTree(E, C, q, 0)
  PROVE  LET C2 == With(C, q, v)
         IN  \E D \in d..Bits :
               /\ EndsAt(C2, q, D) /\ Under(C2, q, D) = {<<q, v>>}
               /\ InsertSiblings(q, FindResult(q)) = SiblingsOf(E, C2, q, D)
               /\ FindResult(q).is_old0 => D = d
               /\ ~FindResult(q).is_old0 =>
                    D > d /\ \A l \in (d + 1)..(D - 1) : SubTree(E, C2, Flip(q, l), l) = ZeroHash
<1> /\ Fits(E, C) /\ q \in Cube /\ <<q, v>> \in E /\ EndsAt(C, q, d)
    /\ \A x \in C : x[1] # q
  BY DEF Comes
<1> DEFINE C2 == With(C, q, v)
           find == FindResult(q)
<1>0. d \in 0..Bits /\ d \in Nat /\ ~Many(Under(C, q, d))
  BY BitsType DEF EndsAt
<1>1. /\ find.siblings = SiblingsOf(E, C, q, d) /\ find.end = SubTree(E, C, q, d)
      /\ find.is_old0 <=> Under(C, q, d) = {}
  BY FindIs
<1>2. Agree(C, C2, q)
  BY Grown
<1>3. \A l \in 1..Bits : SubTree(E, C, Flip(q, l), l) = SubTree(E, C2, Flip(q, l), l)
  BY <1>2, BesidePath
<1>4. CASE find.is_old0
  <2>1. EndsAt(C2, q, d) /\ Under(C2, q, d) = {<<q, v>>}
    BY <1>1, <1>4, GrownAlone
  <2>2. InsertSiblings(q, find) = find.siblings
    BY <1>4 DEF InsertSiblings
  <2>3. \A l \in 1..d : l \in 1..Bits
    BY <1>0, BitsType
  <2>4. SiblingsOf(E, C, q, d) = SiblingsOf(E, C2, q, d)
    BY <1>3, <2>3 DEF SiblingsOf
  <2>5. d \in d..Bits
    BY <1>0
  <2> HIDE DEF find, C2
  <2> QED BY <1>1, <1>4, <2>1, <2>2, <2>4, <2>5 DEF find, C2
<1>5. CASE ~find.is_old0
  <2>1. PICK o \in Under(C, q, d) : Under(C, q, d) = {o}
    BY <1>0, <1>1, <1>5, Sizes
  <2>c. Collides(E, C, q, v, d, o)
    BY <2>1 DEF Collides
  <2> DEFINE c == CommonPrefix(q, o[1])
             leaf == HashLeaf(o[1], o[2])
  <2>2. find.end = leaf
    BY <1>0, <1>1, <2>1, SubTreeFacts
  <2>3. LeafKey(find.end) = o[1]
    BY <2>2, Terms
  <2>4. Len(find.siblings) = d
    BY <1>0, <1>1, SiblingsFacts
  <2>5. InsertSiblings(q, find) = Stretched(SiblingsOf(E, C, q, d), c - d, leaf)
    BY <1>1, <1>5, <2>2, <2>3, <2>4 DEF InsertSiblings, Stretched
  <2>6. InsertSiblings(q, find) = SiblingsOf(E, C2, q, c + 1)
    BY <2>c, <2>5, Lengthened
  <2>7. /\ c \in d..(Bits - 1) /\ EndsAt(C2, q, c + 1) /\ Under(C2, q, c + 1) = {<<q, v>>}
        /\ \A l \in (d + 1)..c : SubTree(E, C, Flip(q, l), l) = ZeroHash
    BY <2>c, GrownBeside
  <2> HIDE DEF c, find, C2
  <2>8. c + 1 \in d..Bits /\ c + 1 > d /\ (c + 1) - 1 = c /\ \A l \in (d + 1)..c : l \in 1..Bits
    BY <1>0, <2>7, BitsType
  <2>9. \A l \in (d + 1)..((c + 1) - 1) : SubTree(E, C2, Flip(q, l), l) = ZeroHash
    BY <1>3, <2>7, <2>8
  <2> QED BY <1>5, <2>6, <2>7, <2>8, <2>9 DEF find, C2
<1> QED BY <1>4, <1>5

-----------------------------------------------------------------------------
(* insert_leaf.                                                             *)

\* The loop of insert_leaf, from the state start.
InsertLoop(start, q, find, siblings, n) ==
  CHOOSE g : g = [j \in 0..n |-> IF j = 0 THEN start
                                 ELSE InsertLevel(g[j - 1], q, find, siblings, n - j)]

\* The loop of insert_leaf, step by step.
LEMMA InsertLoopUnfold ==
  ASSUME NEW start, NEW q, NEW find, NEW siblings, NEW n \in Nat
  PROVE  LET g == InsertLoop(start, q, find, siblings, n)
         IN  g[0] = start /\ \A j \in 1..n : g[j] = InsertLevel(g[j - 1], q, find, siblings, n - j)
<1> DEFINE Step(g, j) == IF j = 0 THEN start ELSE InsertLevel(g[j - 1], q, find, siblings, n - j)
           Solves(m, g) == g = [j \in 0..m |-> Step(g, j)]
           N == {m \in Nat : \E g : Solves(m, g)}
<1>1. 0 \in N
  <2> DEFINE g == [j \in 0..0 |-> start]
  <2>1. \A j \in 0..0 : Step(g, j) = start
    OBVIOUS
  <2>2. Solves(0, g)
    BY <2>1
  <2> QED BY <2>2
<1>2. ASSUME NEW m \in Nat, m \in N PROVE m + 1 \in N
  <2>1. PICK g : Solves(m, g)
    BY <1>2
  <2> DEFINE h == [j \in 0..(m + 1) |-> Step(g, j)]
  <2>2. ASSUME NEW j \in 0..(m + 1) PROVE Step(g, j) = Step(h, j)
    <3>1. CASE j = 0
      BY <3>1
    <3>2. CASE j # 0
      <4>1. j - 1 \in 0..m /\ j - 1 \in 0..(m + 1)
        BY <3>2
      <4>2. g[j - 1] = Step(g, j - 1)
        BY <2>1, <4>1
      <4>3. h[j - 1] = g[j - 1]
        BY <4>1, <4>2
      <4> HIDE DEF h
      <4> QED BY <3>2, <4>3
    <3> QED BY <3>1, <3>2
  <2> HIDE DEF Step
  <2>3. Solves(m + 1, h)
    BY <2>2
  <2> HIDE DEF h, Solves
  <2> QED BY <2>3
<1> HIDE DEF N
<1>3. \E g : Solves(n, g)
  BY <1>1, <1>2, Induct DEF N
<1> DEFINE c == InsertLoop(start, q, find, siblings, n)
<1>4. c = [j \in 0..n |-> Step(c, j)]
  BY <1>3 DEF InsertLoop
<1> HIDE DEF c
<1>5. \A j \in 0..n : c[j] = Step(c, j)
  BY <1>4
<1>6. c[0] = start
  BY <1>5
<1>7. \A j \in 1..n : c[j] = InsertLevel(c[j - 1], q, find, siblings, n - j)
  <2> TAKE j \in 1..n
  <2>1. j \in 0..n /\ j # 0
    OBVIOUS
  <2> QED BY <1>5, <2>1
<1> QED BY <1>6, <1>7 DEF c

\* The key q comes in at level D, with these siblings.
Inserting(E, C, q, v, d, D, find, siblings) ==
  /\ Comes(E, C, q, v, d) /\ D \in d..Bits
  /\ EndsAt(With(C, q, v), q, D) /\ Under(With(C, q, v), q, D) = {<<q, v>>}
  /\ siblings = SiblingsOf(E, With(C, q, v), q, D)
  /\ find.siblings = SiblingsOf(E, C, q, d) /\ find.end = SubTree(E, C, q, d)
  /\ find.is_old0 <=> Under(C, q, d) = {}
  /\ find.is_old0 => D = d
  /\ ~find.is_old0 => /\ D > d
                      /\ \A l \in (d + 1)..(D - 1) : SubTree(E, With(C, q, v), Flip(q, l), l) = ZeroHash

\* The loop has come up to level L: the new path below is in the store, and
\* no node of the new tree has been dropped from it.
InsertedTo(E, C, q, v, d, D, find, N, s, L) ==
  /\ s.rt = SubTree(E, With(C, q, v), q, L)
  /\ s.rtOld = SubTree(E, C, q, IF L <= d THEN L ELSE d)
  /\ s.mixed <=> (L < d \/ (find.is_old0 /\ d # 0))
  /\ \A l \in L..D : SubTree(E, With(C, q, v), q, l) \in s.nodes
  /\ \A k \in Cube : \A l \in 0..Bits :
       SubTree(E, With(C, q, v), k, l) \in N => SubTree(E, With(C, q, v), k, l) \in s.nodes

\* A node above the new leaf is in the old tree only.
LEMMA OldNode ==
  ASSUME NEW E, NEW C, NEW q, NEW v, NEW d, Comes(E, C, q, v, d), NEW i \in 0..(d - 1),
         NEW k \in Cube, NEW l \in 0..Bits
  PROVE  SubTree(E, C, q, i) # SubTree(E, With(C, q, v), k, l)
<1> DEFINE C2 == With(C, q, v)
<1>1. Fits(E, C2) /\ <<q, v>> \notin C
  BY Grown
<1>2. Fits(E, C) /\ q \in Cube /\ i \in 0..Bits /\ Many(Under(C, q, i))
  BY BitsType DEF Comes, EndsAt
<1> SUFFICES ASSUME SubTree(E, C, q, i) = SubTree(E, C2, k, l) PROVE FALSE
  OBVIOUS
<1> HIDE DEF C2
<1>3. Under(C, q, i) = Under(C2, k, l) /\ i = l
  BY <1>1, <1>2, SameSubTree
<1>4. PICK x \in Under(C, q, i) : TRUE
  BY <1>2 DEF Many
<1>5. OnPath(k, q, l)
  BY <1>3, <1>4 DEF Under, OnPath
<1>6. Under(C2, k, l) = Under(C2, q, l)
  BY <1>5, AlongPath
<1>7. <<q, v>> \in Under(C2, q, l)
  BY GrownUnder DEF C2
<1>8. <<q, v>> \in Under(C, q, i)
  BY <1>3, <1>6, <1>7
<1> QED BY <1>1, <1>8 DEF Under

\* One iteration.
LEMMA InsertStep ==
  ASSUME NEW E, NEW C, NEW q, NEW v, NEW d, NEW D, NEW find, NEW siblings,
         Inserting(E, C, q, v, d, D, find, siblings), NEW N, NEW s, NEW i \in 0..(D - 1),
         InsertedTo(E, C, q, v, d, D, find, N, s, i + 1)
  PROVE  InsertedTo(E, C, q, v, d, D, find, N, InsertLevel(s, q, find, siblings, i), i)
<1> DEFINE C2 == With(C, q, v)
           z == InsertLevel(s, q, find, siblings, i)
           last == Len(siblings) - 1
           isLast == ~find.is_old0 /\ i = last
           sibling == siblings[i + 1]
           mixed == s.mixed \/ (~isLast /\ i < last /\ sibling # ZeroHash)
           oldSibling == IF i < Len(find.siblings) THEN find.siblings[i + 1] ELSE ZeroHash
           drop == mixed /\ ~isLast
           rtOld == IF drop THEN Join(Bit(q, i), s.rtOld, oldSibling) ELSE s.rtOld
           rt == Join(Bit(q, i), s.rt, sibling)
<1>1. /\ z.rt = rt /\ z.rtOld = rtOld /\ z.mixed = mixed
      /\ z.nodes = (IF drop THEN s.nodes \ {rtOld} ELSE s.nodes) \cup {rt}
  BY DEF InsertLevel
<1>2. /\ Comes(E, C, q, v, d) /\ D \in d..Bits /\ EndsAt(C2, q, D) /\ siblings = SiblingsOf(E, C2, q, D)
      /\ find.siblings = SiblingsOf(E, C, q, d)
      /\ find.is_old0 => D = d
      /\ ~find.is_old0 => D > d /\ \A l \in (d + 1)..(D - 1) : SubTree(E, C2, Flip(q, l), l) = ZeroHash
  BY DEF Inserting
<1>3. /\ Fits(E, C) /\ q \in Cube /\ EndsAt(C, q, d) /\ d \in 0..Bits /\ d \in Nat /\ D \in Nat /\ D \in 0..Bits
      /\ Bits \in Nat /\ i \in Nat /\ i \in 0..Bits /\ i + 1 \in 1..D /\ i + 1 \in 1..Bits /\ i + 1 \in 0..Bits
  BY <1>2, BitsType DEF Comes, EndsAt
<1>4. Fits(E, C2) /\ Agree(C, C2, q)
  BY <1>2, Grown
<1>5. /\ s.rt = SubTree(E, C2, q, i + 1)
      /\ s.rtOld = SubTree(E, C, q, IF i + 1 <= d THEN i + 1 ELSE d)
      /\ s.mixed <=> (i + 1 < d \/ (find.is_old0 /\ d # 0))
      /\ \A l \in (i + 1)..D : SubTree(E, C2, q, l) \in s.nodes
      /\ \A k \in Cube : \A l \in 0..Bits : SubTree(E, C2, k, l) \in N => SubTree(E, C2, k, l) \in s.nodes
  BY DEF InsertedTo
<1> HIDE DEF C2
<1>6. last = D - 1 /\ sibling = SubTree(E, C2, Flip(q, i + 1), i + 1) /\ Len(find.siblings) = d /\ Bit(q, i) = q[i + 1]
  BY <1>2, <1>3, SiblingsFacts DEF Bit
<1>7. rt = SubTree(E, C2, q, i)
  <2>1. Many(Under(C2, q, i))
    BY <1>2 DEF EndsAt
  <2>2. SubTree(E, C2, q, i) = Join(q[i + 1], SubTree(E, C2, q, i + 1), SubTree(E, C2, Flip(q, i + 1), i + 1))
    BY <1>3, <1>4, <2>1, SubTreeFacts
  <2> QED BY <1>5, <1>6, <2>2
<1>8. CASE i < d
  <2>1. ~isLast
    BY <1>2, <1>3, <1>6, <1>8
  <2>2. mixed
    <3>1. CASE i + 1 < d \/ find.is_old0
      BY <1>3, <1>5, <1>8, <3>1
    <3>2. CASE ~find.is_old0 /\ ~(i + 1 < d)
      <4>1. i + 1 = d /\ i < D - 1 /\ d # 0
        BY <1>2, <1>3, <1>8, <3>2
      <4>2. SubTree(E, C, Flip(q, d), d) # ZeroHash
        BY <1>3, <4>1, LastSibling
      <4>3. SubTree(E, C2, Flip(q, d), d) # ZeroHash
        BY <1>3, <1>4, <4>1, <4>2, BesidePath
      <4> QED BY <1>6, <2>1, <4>1, <4>3
    <3> QED BY <3>1, <3>2
  <2>3. rtOld = SubTree(E, C, q, i)
    <3>1. Many(Under(C, q, i)) /\ i + 1 \in 1..d /\ i + 1 <= d
      BY <1>3, <1>8 DEF EndsAt
    <3>2. SubTree(E, C, q, i) = Join(q[i + 1], SubTree(E, C, q, i + 1), SubTree(E, C, Flip(q, i + 1), i + 1))
      BY <1>3, <3>1, SubTreeFacts
    <3>3. oldSibling = SubTree(E, C, Flip(q, i + 1), i + 1)
      BY <1>2, <1>3, <1>6, <1>8, <3>1, SiblingsFacts
    <3>4. s.rtOld = SubTree(E, C, q, i + 1)
      BY <1>5, <3>1
    <3> QED BY <1>6, <2>1, <2>2, <3>2, <3>3, <3>4
  <2>4. z.rt = SubTree(E, C2, q, i) /\ z.rtOld = SubTree(E, C, q, i) /\ z.mixed
        /\ z.nodes = (s.nodes \ {SubTree(E, C, q, i)}) \cup {SubTree(E, C2, q, i)}
    BY <1>1, <1>7, <2>1, <2>2, <2>3
  <2>5. \A k \in Cube : \A l \in 0..Bits : SubTree(E, C, q, i) # SubTree(E, C2, k, l)
    <3>1. i \in 0..(d - 1)
      BY <1>3, <1>8
    <3> QED BY <1>2, <3>1, OldNode DEF C2
  <2> HIDE DEF z, rt, rtOld, mixed, drop, isLast, last, sibling, oldSibling
  <2>6. \A k \in Cube : \A l \in 0..Bits : SubTree(E, C2, k, l) \in s.nodes => SubTree(E, C2, k, l) \in z.nodes
    BY <2>4, <2>5
  <2>7. \A l \in i..D : SubTree(E, C2, q, l) \in z.nodes
    <3>1. \A l \in i..D : l \in 0..Bits /\ (l = i \/ l \in (i + 1)..D)
      BY <1>3
    <3> QED BY <1>3, <1>5, <2>4, <2>6, <3>1
  <2>8. \A k \in Cube : \A l \in 0..Bits : SubTree(E, C2, k, l) \in N => SubTree(E, C2, k, l) \in z.nodes
    BY <1>5, <2>6
  <2>9. i <= d
    BY <1>3, <1>8
  <2> QED BY <1>8, <2>4, <2>7, <2>8, <2>9 DEF InsertedTo, z, C2
<1>9. CASE ~(i < d)
  <2>1. ~find.is_old0 /\ ~(i + 1 < d)
    BY <1>2, <1>3, <1>9
  <2>2. ~s.mixed
    BY <1>5, <2>1
  <2>3. ~mixed
    <3>1. CASE i = last
      BY <1>6, <2>2, <3>1, <1>3
    <3>2. CASE i # last
      <4>1. i + 1 \in (d + 1)..(D - 1)
        BY <1>3, <1>6, <1>9, <3>2
      <4> QED BY <1>2, <1>6, <2>1, <2>2, <4>1
    <3> QED BY <3>1, <3>2
  <2>4. s.rtOld = SubTree(E, C, q, IF i <= d THEN i ELSE d)
    <3>1. i <= d => i = d
      BY <1>3, <1>9
    <3>2. ~(i + 1 <= d)
      BY <1>3, <1>9
    <3> QED BY <1>5, <3>1, <3>2
  <2>5. z.rt = SubTree(E, C2, q, i) /\ z.rtOld = s.rtOld /\ ~z.mixed /\ z.nodes = s.nodes \cup {SubTree(E, C2, q, i)}
    BY <1>1, <1>7, <2>3
  <2> HIDE DEF z, rt, rtOld, mixed, drop, isLast, last, sibling, oldSibling
  <2>6. \A l \in i..D : SubTree(E, C2, q, l) \in z.nodes
    <3>1. \A l \in i..D : l = i \/ l \in (i + 1)..D
      BY <1>3
    <3> QED BY <1>5, <2>5, <3>1
  <2>7. \A k \in Cube : \A l \in 0..Bits : SubTree(E, C2, k, l) \in N => SubTree(E, C2, k, l) \in z.nodes
    BY <1>5, <2>5
  <2> QED BY <1>9, <2>1, <2>4, <2>5, <2>6, <2>7 DEF InsertedTo, z, C2
<1> QED BY <1>8, <1>9

\* insert_leaf makes the tree with the new entry, and keeps all its nodes.
LEMMA InsertedFacts ==
  ASSUME NEW E, NEW C, NEW q, NEW v, NEW d, Comes(E, C, q, v, d), root = SubTree(E, C, q, 0),
         Complete(E, C, nodes)
  PROVE  /\ Inserted(q, v).rt = SubTree(E, With(C, q, v), q, 0)
         /\ Complete(E, With(C, q, v), Inserted(q, v).nodes)
<1> DEFINE C2 == With(C, q, v)
           find == FindResult(q)
           siblings == InsertSiblings(q, find)
           leaf == HashLeaf(q, v)
           start == [rt |-> leaf, rtOld |-> find.end, nodes |-> nodes \cup {leaf},
                     mixed |-> find.is_old0 /\ find.siblings # <<>>]
<1>0. /\ Fits(E, C) /\ q \in Cube /\ EndsAt(C, q, d) /\ d \in 0..Bits /\ d \in Nat /\ Bits \in Nat
  BY BitsType DEF Comes, EndsAt
<1>1. PICK D \in d..Bits :
        /\ EndsAt(C2, q, D) /\ Under(C2, q, D) = {<<q, v>>} /\ siblings = SiblingsOf(E, C2, q, D)
        /\ find.is_old0 => D = d
        /\ ~find.is_old0 => D > d /\ \A l \in (d + 1)..(D - 1) : SubTree(E, C2, Flip(q, l), l) = ZeroHash
  BY InsertSiblingsAre
<1>2. /\ find.siblings = SiblingsOf(E, C, q, d) /\ find.end = SubTree(E, C, q, d)
      /\ find.is_old0 <=> Under(C, q, d) = {}
  BY <1>0, FindIs
<1> HIDE DEF siblings, find
<1>3. Inserting(E, C, q, v, d, D, find, siblings)
  BY <1>1, <1>2 DEF Inserting
<1>4. Len(siblings) = D /\ D \in Nat /\ D \in 0..Bits /\ d <= D
  BY <1>0, <1>1, SiblingsFacts
<1>5. Fits(E, C2) /\ Agree(C, C2, q)
  BY Grown
<1> DEFINE g == InsertLoop(start, q, find, siblings, D)
<1>6. Inserted(q, v) = g[D]
  BY <1>4 DEF Inserted, InsertLoop, find, siblings
<1>7. g[0] = start /\ \A j \in 1..D : g[j] = InsertLevel(g[j - 1], q, find, siblings, D - j)
  BY <1>4, InsertLoopUnfold
<1>8. InsertedTo(E, C, q, v, d, D, find, nodes, start, D)
  <2>1. leaf = SubTree(E, C2, q, D)
    <3> DEFINE e == <<q, v>>
    <3>1. e[1] = q /\ e[2] = v /\ Under(C2, q, D) = {e}
      BY <1>1
    <3> HIDE DEF e, C2
    <3>2. SubTree(E, C2, q, D) = HashLeaf(e[1], e[2])
      BY <1>0, <1>4, <1>5, <3>1, SubTreeFacts
    <3> QED BY <3>1, <3>2
  <2>2. find.siblings # <<>> <=> d # 0
    BY <1>0, <1>2, SiblingsFacts
  <2>3. ~(D < d) /\ (D <= d => D = d) /\ \A l \in D..D : l = D
    BY <1>0, <1>4
  <2>4. start.rtOld = SubTree(E, C, q, IF D <= d THEN D ELSE d)
    BY <1>2, <2>3
  <2>5. start.mixed <=> (D < d \/ (find.is_old0 /\ d # 0))
    BY <2>2, <2>3
  <2>6. start.rt = leaf /\ start.nodes = nodes \cup {leaf}
    OBVIOUS
  <2> HIDE DEF start, leaf, C2
  <2>7. \A l \in D..D : SubTree(E, C2, q, l) \in start.nodes
    BY <2>1, <2>3, <2>6
  <2>8. \A k \in Cube : \A l \in 0..Bits : SubTree(E, C2, k, l) \in nodes => SubTree(E, C2, k, l) \in start.nodes
    BY <2>6
  <2> QED BY <2>1, <2>4, <2>5, <2>6, <2>7, <2>8 DEF InsertedTo, C2
<1> HIDE DEF g, start, C2
<1> DEFINE G == {j \in Nat : j \in 0..D => InsertedTo(E, C, q, v, d, D, find, nodes, g[j], D - j)}
<1>9. 0 \in G
  BY <1>4, <1>7, <1>8
<1>10. ASSUME NEW j \in Nat, j \in G PROVE j + 1 \in G
  <2> SUFFICES ASSUME j + 1 \in 0..D
               PROVE  InsertedTo(E, C, q, v, d, D, find, nodes, g[j + 1], D - (j + 1))
    OBVIOUS
  <2> DEFINE i == D - (j + 1)
  <2>1. j \in 0..D /\ j + 1 \in 1..D /\ (j + 1) - 1 = j /\ i \in 0..(D - 1) /\ D - j = i + 1
    BY <1>4
  <2>2. InsertedTo(E, C, q, v, d, D, find, nodes, g[j], i + 1)
    BY <1>10, <2>1
  <2>3. g[j + 1] = InsertLevel(g[j], q, find, siblings, i)
    BY <1>7, <2>1
  <2> HIDE DEF i
  <2>4. InsertedTo(E, C, q, v, d, D, find, nodes, g[j + 1], i)
    BY <1>3, <2>1, <2>2, <2>3, InsertStep
  <2> QED BY <2>4 DEF i
<1> HIDE DEF G
<1>11. D \in G
  BY <1>4, <1>9, <1>10, Induct
<1>12. InsertedTo(E, C, q, v, d, D, find, nodes, g[D], 0)
  BY <1>4, <1>11 DEF G
<1>13. /\ g[D].rt = SubTree(E, C2, q, 0)
       /\ \A l \in 0..D : SubTree(E, C2, q, l) \in g[D].nodes
       /\ \A k \in Cube : \A l \in 0..Bits : SubTree(E, C2, k, l) \in nodes => SubTree(E, C2, k, l) \in g[D].nodes
  BY <1>12 DEF InsertedTo, C2
<1>14. Complete(E, C2, g[D].nodes)
  <2>1. ~Many(Under(C2, q, D))
    BY <1>1 DEF Many
  <2> QED BY <1>0, <1>4, <1>5, <1>13, <2>1, CompleteAfter
<1> QED BY <1>6, <1>13, <1>14 DEF C2

-----------------------------------------------------------------------------
(* delete_leaf.                                                             *)

\* The entries with q taken out.
Without(C, q) == {x \in C : x[1] # q}

\* The key q, found at level d with the entry e, goes.
Goes(E, C, q, e, d) ==
  Fits(E, C) /\ q \in Cube /\ e \in C /\ e[1] = q /\ EndsAt(C, q, d)

\* An entry less along its own path.
LEMMA Shrunk ==
  ASSUME NEW E, NEW C, NEW q, NEW e, NEW d, Goes(E, C, q, e, d)
  PROVE  Fits(E, Without(C, q)) /\ Agree(C, Without(C, q), q) /\ e \notin Without(C, q)
<1>1. Fits(E, Without(C, q)) /\ e \notin Without(C, q)
  BY DEF Goes, Fits, Without
<1>2. Agree(C, Without(C, q), q)
  BY DEF Agree, Without
<1> QED BY <1>1, <1>2

\* The path of a key in the tree ends at its entry alone.
LEMMA EndOf ==
  ASSUME NEW E, NEW C, NEW q, NEW e, NEW d, Goes(E, C, q, e, d)
  PROVE  Under(C, q, d) = {e}
BY KeyAtEnd DEF Goes

\* The entry is gone from below every node of its path.
LEMMA ShrunkUnder ==
  ASSUME NEW E, NEW C, NEW q, NEW e, NEW d, Goes(E, C, q, e, d), NEW l
  PROVE  Under(Without(C, q), q, l) = Under(C, q, l) \ {e}
BY DEF Goes, Under, Without, Fits

\* A join of a node that is not in the tree is not in it either.
LEMMA JoinNotIn ==
  ASSUME NEW E, NEW C, Fits(E, C), NEW b \in {0, 1}, NEW t, NEW s,
         \A k \in Cube : \A l \in 0..Bits : t # SubTree(E, C, k, l)
  PROVE  \A k \in Cube : \A l \in 0..Bits : Join(b, t, s) # SubTree(E, C, k, l)
<1> SUFFICES ASSUME NEW k \in Cube, NEW l \in 0..Bits, Join(b, t, s) = SubTree(E, C, k, l) PROVE FALSE
  OBVIOUS
<1>1. Many(Under(C, k, l))
  <2>1. IsInternal(SubTree(E, C, k, l))
    BY JoinFacts
  <2> QED BY <2>1, Kinds
<1>2. l + 1 \in 0..Bits
  BY <1>1, Halves
<1>3. PICK k0, k1 \in Cube :
        SubTree(E, C, k, l) = HashInternal(SubTree(E, C, k0, l + 1), SubTree(E, C, k1, l + 1))
  BY <1>1, Halves
<1>4. CASE b = 1
  <2>1. HashInternal(s, t) = HashInternal(SubTree(E, C, k0, l + 1), SubTree(E, C, k1, l + 1))
    BY <1>3, <1>4 DEF Join
  <2>2. t = SubTree(E, C, k1, l + 1)
    BY <2>1, SameInternal
  <2> QED BY <1>2, <1>3, <2>2
<1>5. CASE b = 0
  <2>1. HashInternal(t, s) = HashInternal(SubTree(E, C, k0, l + 1), SubTree(E, C, k1, l + 1))
    BY <1>3, <1>5 DEF Join
  <2>2. t = SubTree(E, C, k0, l + 1)
    BY <2>1, SameInternal
  <2> QED BY <1>2, <1>3, <2>2
<1> QED BY <1>4, <1>5

\* The loop of delete_leaf, from the state start.
DeleteLoop(start, q, siblings, n) ==
  CHOOSE g : g = [j \in 0..n |-> IF j = 0 THEN start
                                 ELSE DeleteLevel(g[j - 1], q, siblings, n - j)]

\* The loop of delete_leaf, step by step.
LEMMA DeleteLoopUnfold ==
  ASSUME NEW start, NEW q, NEW siblings, NEW n \in Nat
  PROVE  LET g == DeleteLoop(start, q, siblings, n)
         IN  g[0] = start /\ \A j \in 1..n : g[j] = DeleteLevel(g[j - 1], q, siblings, n - j)
<1> DEFINE Step(g, j) == IF j = 0 THEN start ELSE DeleteLevel(g[j - 1], q, siblings, n - j)
           Solves(m, g) == g = [j \in 0..m |-> Step(g, j)]
           N == {m \in Nat : \E g : Solves(m, g)}
<1>1. 0 \in N
  <2> DEFINE g == [j \in 0..0 |-> start]
  <2>1. \A j \in 0..0 : Step(g, j) = start
    OBVIOUS
  <2>2. Solves(0, g)
    BY <2>1
  <2> QED BY <2>2
<1>2. ASSUME NEW m \in Nat, m \in N PROVE m + 1 \in N
  <2>1. PICK g : Solves(m, g)
    BY <1>2
  <2> DEFINE h == [j \in 0..(m + 1) |-> Step(g, j)]
  <2>2. ASSUME NEW j \in 0..(m + 1) PROVE Step(g, j) = Step(h, j)
    <3>1. CASE j = 0
      BY <3>1
    <3>2. CASE j # 0
      <4>1. j - 1 \in 0..m /\ j - 1 \in 0..(m + 1)
        BY <3>2
      <4>2. g[j - 1] = Step(g, j - 1)
        BY <2>1, <4>1
      <4>3. h[j - 1] = g[j - 1]
        BY <4>1, <4>2
      <4> HIDE DEF h
      <4> QED BY <3>2, <4>3
    <3> QED BY <3>1, <3>2
  <2> HIDE DEF Step
  <2>3. Solves(m + 1, h)
    BY <2>2
  <2> HIDE DEF h, Solves
  <2> QED BY <2>3
<1> HIDE DEF N
<1>3. \E g : Solves(n, g)
  BY <1>1, <1>2, Induct DEF N
<1> DEFINE c == DeleteLoop(start, q, siblings, n)
<1>4. c = [j \in 0..n |-> Step(c, j)]
  BY <1>3 DEF DeleteLoop
<1> HIDE DEF c
<1>5. \A j \in 0..n : c[j] = Step(c, j)
  BY <1>4
<1>6. c[0] = start
  BY <1>5
<1>7. \A j \in 1..n : c[j] = DeleteLevel(c[j - 1], q, siblings, n - j)
  <2> TAKE j \in 1..n
  <2>1. j \in 0..n /\ j # 0
    OBVIOUS
  <2> QED BY <1>5, <2>1
<1> QED BY <1>6, <1>7 DEF c

\* The key q goes, and the tree is rebuilt from level n along these siblings:
\* the level of its leaf, or of the sibling that moves up in its place.
Deleting(E, C, q, e, d, n, siblings) ==
  /\ Goes(E, C, q, e, d) /\ n \in 0..Bits /\ (n = d \/ n + 1 = d)
  /\ ~Many(Under(Without(C, q), q, n))
  /\ Under(Without(C, q), q, n) = {} => n = d /\ (d # 0 => Many(Under(C, Flip(q, d), d)))
  /\ \A l \in 1..n : siblings[l] = SubTree(E, Without(C, q), Flip(q, l), l)

\* The loop has come up to level L.
DeletedTo(E, C, q, n, N, s, L) ==
  /\ s.rtNew = SubTree(E, Without(C, q), q, L)
  /\ s.mixed <=> Many(Under(Without(C, q), q, L))
  /\ \A k \in Cube : \A l \in 0..Bits : s.rtOld # SubTree(E, Without(C, q), k, l)
  /\ \A l \in L..n : Many(Under(Without(C, q), q, l)) => SubTree(E, Without(C, q), q, l) \in s.nodes
  /\ \A k \in Cube : \A l \in 0..Bits :
       SubTree(E, Without(C, q), k, l) \in N => SubTree(E, Without(C, q), k, l) \in s.nodes

\* Above the level several entries are left once there are some on both sides.
LEMMA LeftMany ==
  ASSUME NEW E, NEW C, NEW q, NEW e, NEW d, NEW n, NEW siblings,
         Deleting(E, C, q, e, d, n, siblings), NEW i \in 0..(n - 1)
  PROVE  LET C2 == Without(C, q)
         IN  Many(Under(C2, q, i)) <=>
               Many(Under(C2, q, i + 1)) \/ SubTree(E, C2, Flip(q, i + 1), i + 1) # ZeroHash
<1> DEFINE C2 == Without(C, q)
           f == Flip(q, i + 1)
<1>1. Goes(E, C, q, e, d) /\ n \in 0..Bits /\ (n = d \/ n + 1 = d)
      /\ (Under(C2, q, n) = {} => n = d /\ (d # 0 => Many(Under(C, Flip(q, d), d))))
  BY DEF Deleting
<1>2. Fits(E, C2) /\ Agree(C, C2, q) /\ q \in Cube /\ EndsAt(C, q, d)
  BY <1>1, Shrunk DEF Goes
<1>3. \A l : Under(C2, q, l) = Under(C, q, l) \ {e}
  BY <1>1, ShrunkUnder
<1>4. /\ i \in Nat /\ n \in Nat /\ d \in Nat /\ i + 1 \in 1..Bits /\ i + 1 \in 0..Bits /\ (i + 1) - 1 = i
      /\ i \in 0..(i + 1) /\ d \in 0..Bits
  BY <1>1, <1>2, BitsType DEF EndsAt
<1> HIDE DEF C2
<1>5. /\ f \in Cube
      /\ Under(C2, q, i + 1) = {x \in Under(C2, q, i) : x[1][i + 1] = q[i + 1]}
      /\ Under(C2, f, i + 1) = {x \in Under(C2, q, i) : x[1][i + 1] # q[i + 1]}
  BY <1>2, <1>4, UnderFacts
<1>6. SubTree(E, C2, f, i + 1) # ZeroHash <=> Under(C2, f, i + 1) # {}
  BY <1>2, <1>4, <1>5, Kinds
<1>7. Many(Under(C2, q, i)) => Many(Under(C2, q, i + 1)) \/ Under(C2, f, i + 1) # {}
  <2>1. Under(C2, f, i + 1) = {} => Under(C2, q, i + 1) = Under(C2, q, i)
    BY <1>5
  <2> QED BY <2>1
<1>8. Many(Under(C2, q, i + 1)) => Many(Under(C2, q, i))
  BY <1>2, <1>4, ManyAbove
<1>9. ASSUME Under(C2, f, i + 1) # {} PROVE Many(Under(C2, q, i))
  <2>1. CASE Under(C2, q, i + 1) # {}
    BY <1>5, <1>9, <2>1 DEF Many
  <2>2. CASE Under(C2, q, i + 1) = {}
    <3>1. i + 1 = n
      <4> SUFFICES ASSUME i + 1 # n PROVE FALSE
        OBVIOUS
      <4>1. i + 1 \in 0..(d - 1)
        BY <1>1, <1>4
      <4>2. Many(Under(C, q, i + 1))
        BY <1>2, <4>1 DEF EndsAt
      <4> QED BY <1>3, <2>2, <4>2 DEF Many
    <3>2. n = d /\ Many(Under(C, Flip(q, d), d)) /\ d = i + 1
      BY <1>1, <1>4, <2>2, <3>1
    <3>3. Under(C, f, i + 1) = Under(C2, f, i + 1)
      BY <1>2, <1>4, BesidePath
    <3>4. Many(Under(C2, f, i + 1))
      BY <3>2, <3>3
    <3> QED BY <1>5, <3>4 DEF Many
  <2> QED BY <2>1, <2>2
<1> QED BY <1>6, <1>7, <1>8, <1>9 DEF C2

\* One iteration.
LEMMA DeleteStep ==
  ASSUME NEW E, NEW C, NEW q, NEW e, NEW d, NEW n, NEW siblings,
         Deleting(E, C, q, e, d, n, siblings), NEW N, NEW s, NEW i \in 0..(n - 1),
         DeletedTo(E, C, q, n, N, s, i + 1)
  PROVE  DeletedTo(E, C, q, n, N, DeleteLevel(s, q, siblings, i), i)
<1> DEFINE C2 == Without(C, q)
           z == DeleteLevel(s, q, siblings, i)
           sibling == siblings[i + 1]
           rtOld == Join(Bit(q, i), s.rtOld, sibling)
           mixed == s.mixed \/ sibling # ZeroHash
           rtNew == IF mixed THEN Join(Bit(q, i), s.rtNew, sibling) ELSE s.rtNew
<1>1. /\ z.rtNew = rtNew /\ z.rtOld = rtOld /\ z.mixed = mixed
      /\ z.nodes = (s.nodes \ {rtOld}) \cup (IF mixed THEN {rtNew} ELSE {})
  BY DEF DeleteLevel
<1>2. /\ Goes(E, C, q, e, d) /\ n \in 0..Bits
      /\ \A l \in 1..n : siblings[l] = SubTree(E, C2, Flip(q, l), l)
  BY DEF Deleting
<1>3. Fits(E, C2) /\ q \in Cube
  BY <1>2, Shrunk DEF Goes
<1>4. /\ i \in Nat /\ n \in Nat /\ i \in 0..Bits /\ i + 1 \in 1..n /\ i + 1 \in 1..Bits /\ i + 1 \in 0..Bits
      /\ (i + 1) - 1 = i
  BY <1>2, BitsType
<1>5. /\ s.rtNew = SubTree(E, C2, q, i + 1)
      /\ s.mixed <=> Many(Under(C2, q, i + 1))
      /\ \A k \in Cube : \A l \in 0..Bits : s.rtOld # SubTree(E, C2, k, l)
      /\ \A l \in (i + 1)..n : Many(Under(C2, q, l)) => SubTree(E, C2, q, l) \in s.nodes
      /\ \A k \in Cube : \A l \in 0..Bits : SubTree(E, C2, k, l) \in N => SubTree(E, C2, k, l) \in s.nodes
  BY DEF DeletedTo
<1>6. Many(Under(C2, q, i)) <=> Many(Under(C2, q, i + 1)) \/ SubTree(E, C2, Flip(q, i + 1), i + 1) # ZeroHash
  BY LeftMany
<1> HIDE DEF C2
<1>7. sibling = SubTree(E, C2, Flip(q, i + 1), i + 1) /\ Bit(q, i) = q[i + 1] /\ q[i + 1] \in {0, 1}
  BY <1>2, <1>3, <1>4 DEF Bit, Cube
<1>8. mixed <=> Many(Under(C2, q, i))
  BY <1>5, <1>6, <1>7
<1>9. rtNew = SubTree(E, C2, q, i)
  <2>1. CASE mixed
    <3>1. SubTree(E, C2, q, i) = Join(q[i + 1], SubTree(E, C2, q, i + 1), SubTree(E, C2, Flip(q, i + 1), i + 1))
      BY <1>3, <1>4, <1>8, <2>1, SubTreeFacts
    <3> QED BY <1>5, <1>7, <2>1, <3>1
  <2>2. CASE ~mixed
    <3>1. ~Many(Under(C2, q, i)) /\ SubTree(E, C2, Flip(q, i + 1), i + 1) = ZeroHash
      BY <1>6, <1>8, <2>2
    <3>2. /\ Flip(q, i + 1) \in Cube
          /\ Under(C2, q, i + 1) = {x \in Under(C2, q, i) : x[1][i + 1] = q[i + 1]}
          /\ Under(C2, Flip(q, i + 1), i + 1) = {x \in Under(C2, q, i) : x[1][i + 1] # q[i + 1]}
      BY <1>3, <1>4, UnderFacts
    <3>3. Under(C2, Flip(q, i + 1), i + 1) = {}
      BY <1>3, <1>4, <3>1, <3>2, Kinds
    <3>4. Under(C2, q, i + 1) = Under(C2, q, i)
      BY <3>2, <3>3
    <3>5. CASE Under(C2, q, i) = {}
      <4>1. SubTree(E, C2, q, i) = ZeroHash /\ SubTree(E, C2, q, i + 1) = ZeroHash
        BY <1>3, <1>4, <3>4, <3>5, SubTreeFacts
      <4> QED BY <1>5, <2>2, <4>1
    <3>6. CASE Under(C2, q, i) # {}
      <4>1. PICK x \in Under(C2, q, i) : Under(C2, q, i) = {x}
        BY <3>1, <3>6, Sizes
      <4>2. SubTree(E, C2, q, i) = HashLeaf(x[1], x[2]) /\ SubTree(E, C2, q, i + 1) = HashLeaf(x[1], x[2])
        BY <1>3, <1>4, <3>4, <4>1, SubTreeFacts
      <4> QED BY <1>5, <2>2, <4>2
    <3> QED BY <3>5, <3>6
  <2> QED BY <2>1, <2>2
<1>10. \A k \in Cube : \A l \in 0..Bits : rtOld # SubTree(E, C2, k, l)
  BY <1>3, <1>5, <1>7, JoinNotIn
<1> HIDE DEF z, rtOld, rtNew, mixed, sibling
<1>11. \A k \in Cube : \A l \in 0..Bits : SubTree(E, C2, k, l) \in s.nodes => SubTree(E, C2, k, l) \in z.nodes
  BY <1>1, <1>10
<1>12. \A l \in i..n : Many(Under(C2, q, l)) => SubTree(E, C2, q, l) \in z.nodes
  <2>1. \A l \in i..n : l \in 0..Bits /\ (l = i \/ l \in (i + 1)..n)
    BY <1>2, <1>4, BitsType
  <2>2. Many(Under(C2, q, i)) => SubTree(E, C2, q, i) \in z.nodes
    BY <1>1, <1>8, <1>9
  <2> QED BY <1>3, <1>5, <1>11, <2>1, <2>2
<1>13. \A k \in Cube : \A l \in 0..Bits : SubTree(E, C2, k, l) \in N => SubTree(E, C2, k, l) \in z.nodes
  BY <1>5, <1>11
<1> QED BY <1>1, <1>8, <1>9, <1>10, <1>12, <1>13 DEF DeletedTo, z, C2

\* A leaf beside the one that goes takes the place of both.
LEMMA PromotedLeaf ==
  ASSUME NEW E, NEW C, NEW q, NEW e, NEW d, Goes(E, C, q, e, d), d # 0,
         IsLeaf(SubTree(E, C, Flip(q, d), d))
  PROVE  /\ SubTree(E, Without(C, q), q, d - 1) = SubTree(E, C, Flip(q, d), d)
         /\ Under(Without(C, q), q, d - 1) # {} /\ ~Many(Under(Without(C, q), q, d - 1))
<1> DEFINE C2 == Without(C, q)
           f == Flip(q, d)
<1>1. Fits(E, C) /\ Fits(E, C2) /\ q \in Cube /\ EndsAt(C, q, d)
  BY Shrunk DEF Goes
<1>e. Under(C, q, d) = {e}
  BY EndOf
<1>2. d \in 1..Bits /\ d \in 0..Bits /\ d - 1 \in 0..Bits /\ Bits \in Nat
  BY <1>1, BitsType DEF EndsAt
<1>3. \A l : Under(C2, q, l) = Under(C, q, l) \ {e}
  BY ShrunkUnder
<1> HIDE DEF C2
<1>4. /\ f \in Cube
      /\ Under(C, q, d) = {x \in Under(C, q, d - 1) : x[1][d] = q[d]}
      /\ Under(C, f, d) = {x \in Under(C, q, d - 1) : x[1][d] # q[d]}
  BY <1>1, <1>2, UnderFacts
<1>5. PICK o \in Under(C, f, d) : Under(C, f, d) = {o}
  BY <1>1, <1>2, <1>4, Kinds
<1>6. Under(C2, q, d - 1) = {o}
  <2>1. \A x \in Under(C, q, d - 1) : x = e \/ x = o
    BY <1>e, <1>4, <1>5
  <2>2. o \in Under(C, q, d - 1) /\ o # e
    BY <1>e, <1>4, <1>5
  <2> QED BY <1>3, <2>1, <2>2
<1>7. SubTree(E, C2, q, d - 1) = HashLeaf(o[1], o[2]) /\ SubTree(E, C, f, d) = HashLeaf(o[1], o[2])
  BY <1>1, <1>2, <1>4, <1>5, <1>6, SubTreeFacts
<1>8. Under(C2, q, d - 1) # {} /\ ~Many(Under(C2, q, d - 1))
  BY <1>6 DEF Many
<1> QED BY <1>7, <1>8 DEF C2

\* Where delete_leaf starts to rebuild, and from which node.
LEMMA DeletingFrom ==
  ASSUME NEW E, NEW C, NEW q, NEW e, NEW d, Goes(E, C, q, e, d), NEW all, all = SiblingsOf(E, C, q, d),
         NEW promote, promote <=> all # <<>> /\ IsLeaf(all[Len(all)])
  PROVE  LET siblings == IF promote THEN SubSeq(all, 1, Len(all) - 1) ELSE all
         IN  /\ Deleting(E, C, q, e, d, Len(siblings), siblings)
             /\ (IF promote THEN all[Len(all)] ELSE ZeroHash) = SubTree(E, Without(C, q), q, Len(siblings))
<1> DEFINE C2 == Without(C, q)
           siblings == IF promote THEN SubSeq(all, 1, Len(all) - 1) ELSE all
<1>1. /\ Fits(E, C) /\ Fits(E, C2) /\ Agree(C, C2, q) /\ q \in Cube /\ EndsAt(C, q, d)
  BY Shrunk DEF Goes
<1>e. Under(C, q, d) = {e}
  BY EndOf
<1>2. d \in 0..Bits /\ d \in Nat /\ Bits \in Nat
  BY <1>1, BitsType DEF EndsAt
<1>3. Len(all) = d /\ (all = <<>> <=> d = 0) /\ DOMAIN all = 1..d /\ \A l \in 1..d : all[l] = SubTree(E, C, Flip(q, l), l)
  BY <1>2, SiblingsFacts
<1>4. \A l \in 1..Bits : SubTree(E, C, Flip(q, l), l) = SubTree(E, C2, Flip(q, l), l)
  BY <1>1, BesidePath
<1>5. Under(C2, q, d) = {}
  <2>1. Under(C2, q, d) = Under(C, q, d) \ {e}
    BY ShrunkUnder
  <2> QED BY <1>e, <2>1
<1> HIDE DEF C2
<1>6. CASE promote
  <2>1. d # 0 /\ d \in 1..d /\ all[d] = SubTree(E, C, Flip(q, d), d) /\ IsLeaf(SubTree(E, C, Flip(q, d), d))
    <3>1. d # 0
      BY <1>3, <1>6
    <3>2. d \in 1..d
      BY <1>2, <3>1
    <3> QED BY <1>3, <1>6, <3>1, <3>2
  <2>2. /\ SubTree(E, C2, q, d - 1) = SubTree(E, C, Flip(q, d), d)
        /\ Under(C2, q, d - 1) # {} /\ ~Many(Under(C2, q, d - 1))
    BY <2>1, PromotedLeaf DEF C2
  <2> DEFINE S == {all[l] : l \in 1..d}
  <2>3. all \in Seq(S)
    <3>1. all = [l \in 1..d |-> all[l]]
      BY <1>3 DEF SiblingsOf
    <3>2. \A l \in 1..d : all[l] \in S
      OBVIOUS
    <3> HIDE DEF S
    <3> QED BY <1>2, <3>1, <3>2, ListedSeq
  <2> HIDE DEF S
  <2>4. siblings = SubSeq(all, 1, d - 1) /\ Len(siblings) = d - 1 /\ \A l \in 1..(d - 1) : siblings[l] = all[l]
    BY <1>2, <1>3, <1>6, <2>1, <2>3
  <2>5. d - 1 \in 0..Bits /\ (d - 1) + 1 = d /\ \A l \in 1..(d - 1) : l \in 1..d /\ l \in 1..Bits
    BY <1>2, <2>1
  <2> HIDE DEF siblings
  <2>6. \A l \in 1..(d - 1) : siblings[l] = SubTree(E, C2, Flip(q, l), l)
    BY <1>3, <1>4, <2>4, <2>5
  <2>7. Deleting(E, C, q, e, d, d - 1, siblings)
    BY <2>2, <2>5, <2>6 DEF Deleting, C2
  <2> QED BY <1>3, <1>6, <2>1, <2>2, <2>4, <2>7 DEF siblings, C2
<1>7. CASE ~promote
  <2>1. siblings = all /\ Len(siblings) = d
    BY <1>3, <1>7
  <2>2. d # 0 => Many(Under(C, Flip(q, d), d))
    <3> SUFFICES ASSUME d # 0 PROVE Many(Under(C, Flip(q, d), d))
      OBVIOUS
    <3>1. d \in 1..d /\ d \in 1..Bits /\ d \in 0..Bits
      BY <1>2
    <3>2. ~IsLeaf(SubTree(E, C, Flip(q, d), d))
      BY <1>3, <1>7, <3>1
    <3>3. SubTree(E, C, Flip(q, d), d) # ZeroHash
      BY <1>1, LastSibling
    <3>4. Flip(q, d) \in Cube
      BY <1>1, <3>1, UnderFacts
    <3> QED BY <1>1, <3>1, <3>2, <3>3, <3>4, Kinds, Sizes
  <2>3. ~Many(Under(C2, q, d))
    BY <1>5 DEF Many
  <2>4. \A l \in 1..d : l \in 1..Bits
    BY <1>2
  <2>5. \A l \in 1..d : siblings[l] = SubTree(E, C2, Flip(q, l), l)
    BY <1>3, <1>4, <2>1, <2>4
  <2>6. SubTree(E, C2, q, d) = ZeroHash
    BY <1>1, <1>2, <1>5, SubTreeFacts
  <2> HIDE DEF siblings
  <2>7. Deleting(E, C, q, e, d, d, siblings)
    BY <1>2, <2>2, <2>3, <2>5 DEF Deleting, C2
  <2> QED BY <1>7, <2>1, <2>6, <2>7 DEF siblings, C2
<1> QED BY <1>6, <1>7

\* delete_leaf makes the tree without the entry, and keeps all its nodes.
LEMMA DeletedFacts ==
  ASSUME NEW E, NEW C, NEW q, NEW e, NEW d, Goes(E, C, q, e, d), root = SubTree(E, C, q, 0),
         Complete(E, C, nodes)
  PROVE  /\ Deleted(q).rtNew = SubTree(E, Without(C, q), q, 0)
         /\ Complete(E, Without(C, q), Deleted(q).nodes)
<1> DEFINE C2 == Without(C, q)
           find == FindResult(q)
           all == find.siblings
           promote == all # <<>> /\ Promotes(find)
           siblings == IF promote THEN SubSeq(all, 1, Len(all) - 1) ELSE all
           n == Len(siblings)
           new == IF promote THEN all[Len(all)] ELSE ZeroHash
           start == [rtNew |-> new, rtOld |-> find.end, mixed |-> FALSE, nodes |-> nodes \ {find.end}]
<1>1. /\ Fits(E, C) /\ Fits(E, C2) /\ Agree(C, C2, q) /\ q \in Cube /\ EndsAt(C, q, d)
      /\ e \notin C2 /\ e \in C /\ e[1] = q
  BY Shrunk DEF Goes
<1>e. Under(C, q, d) = {e} /\ e = <<e[1], e[2]>>
  <2>1. Under(C, q, d) = {e}
    BY EndOf
  <2> QED BY <1>1, <2>1 DEF Fits, IsEntries
<1>2. all = SiblingsOf(E, C, q, d) /\ find.end = SubTree(E, C, q, d)
  BY <1>1, FindIs
<1>3. promote <=> all # <<>> /\ IsLeaf(all[Len(all)])
  BY DEF Promotes
<1> HIDE DEF find, promote
<1>4. Deleting(E, C, q, e, d, n, siblings) /\ new = SubTree(E, C2, q, n)
  BY <1>2, <1>3, DeletingFrom
<1>5. n \in Nat /\ n \in 0..Bits /\ ~Many(Under(C2, q, n)) /\ Bits \in Nat
  BY <1>4, BitsType DEF Deleting
<1> DEFINE g == DeleteLoop(start, q, siblings, n)
<1>6. Deleted(q) = g[n]
  BY DEF Deleted, DeleteLoop, find, promote
<1> HIDE DEF siblings, n, new
<1>7. g[0] = start /\ \A j \in 1..n : g[j] = DeleteLevel(g[j - 1], q, siblings, n - j)
  BY <1>5, DeleteLoopUnfold
<1>8. \A k \in Cube : \A l \in 0..Bits : find.end # SubTree(E, C2, k, l)
  <2> SUFFICES ASSUME NEW k \in Cube, NEW l \in 0..Bits, find.end = SubTree(E, C2, k, l) PROVE FALSE
    OBVIOUS
  <2>1. find.end = HashLeaf(e[1], e[2])
    BY <1>1, <1>e, <1>2, SubTreeFacts DEF EndsAt
  <2>2. Under(C2, k, l) = {<<e[1], e[2]>>}
    <3>1. SubTree(E, C2, k, l) = HashLeaf(e[1], e[2])
      BY <2>1
    <3> HIDE DEF C2
    <3> QED BY <1>1, <3>1, LeafKind
  <2>3. e \in Under(C2, k, l)
    BY <1>e, <2>2
  <2> QED BY <1>1, <2>3 DEF Under
<1>9. DeletedTo(E, C, q, n, nodes, start, n)
  <2>1. start.rtNew = new /\ start.rtOld = find.end /\ ~start.mixed /\ start.nodes = nodes \ {find.end}
    OBVIOUS
  <2> HIDE DEF start, C2
  <2>2. \A k \in Cube : \A l \in 0..Bits : SubTree(E, C2, k, l) \in nodes => SubTree(E, C2, k, l) \in start.nodes
    BY <1>8, <2>1
  <2>3. \A l \in n..n : l = n
    BY <1>5
  <2> QED BY <1>4, <1>5, <1>8, <2>1, <2>2, <2>3 DEF DeletedTo, C2
<1> HIDE DEF g, start, C2
<1> DEFINE G == {j \in Nat : j \in 0..n => DeletedTo(E, C, q, n, nodes, g[j], n - j)}
<1>10. 0 \in G
  BY <1>5, <1>7, <1>9
<1>11. ASSUME NEW j \in Nat, j \in G PROVE j + 1 \in G
  <2> SUFFICES ASSUME j + 1 \in 0..n PROVE DeletedTo(E, C, q, n, nodes, g[j + 1], n - (j + 1))
    OBVIOUS
  <2> DEFINE i == n - (j + 1)
  <2>1. j \in 0..n /\ j + 1 \in 1..n /\ (j + 1) - 1 = j /\ i \in 0..(n - 1) /\ n - j = i + 1
    BY <1>5
  <2>2. DeletedTo(E, C, q, n, nodes, g[j], i + 1)
    BY <1>11, <2>1
  <2>3. g[j + 1] = DeleteLevel(g[j], q, siblings, i)
    BY <1>7, <2>1
  <2> HIDE DEF i
  <2>4. DeletedTo(E, C, q, n, nodes, g[j + 1], i)
    BY <1>4, <2>1, <2>2, <2>3, DeleteStep
  <2> QED BY <2>4 DEF i
<1> HIDE DEF G
<1>12. n \in G
  BY <1>5, <1>10, <1>11, Induct
<1>13. DeletedTo(E, C, q, n, nodes, g[n], 0)
  BY <1>5, <1>12 DEF G
<1>14. /\ g[n].rtNew = SubTree(E, C2, q, 0)
       /\ \A l \in 0..n : Many(Under(C2, q, l)) => SubTree(E, C2, q, l) \in g[n].nodes
       /\ \A k \in Cube : \A l \in 0..Bits : SubTree(E, C2, k, l) \in nodes => SubTree(E, C2, k, l) \in g[n].nodes
  BY <1>13 DEF DeletedTo, C2
<1>15. ASSUME NEW l \in 0..n, SubTree(E, C2, q, l) # ZeroHash PROVE SubTree(E, C2, q, l) \in g[n].nodes
  <2>0. l \in 0..Bits /\ Bits \in 0..Bits
    BY <1>5
  <2>1. CASE Many(Under(C2, q, l))
    BY <1>14, <2>1
  <2>2. CASE ~Many(Under(C2, q, l))
    <3>1. Under(C2, q, l) # {}
      BY <1>1, <1>15, <2>0, Kinds
    <3>2. PICK x \in Under(C2, q, l) : Under(C2, q, l) = {x}
      BY <2>2, <3>1, Sizes
    <3>3. SubTree(E, C2, q, l) = HashLeaf(x[1], x[2])
      BY <1>1, <2>0, <3>2, SubTreeFacts
    <3>4. x \in C2 /\ x \in C /\ x[1] \in Cube
      BY <1>1 DEF Under, C2, Without, Fits, IsEntries
    <3>5. Under(C, x[1], Bits) = {x}
      <4>1. x \in Under(C, x[1], Bits)
        BY <3>4 DEF Under
      <4>2. \A y, w \in Under(C, x[1], Bits) : y = w
        BY <1>1, <3>4, UnderFacts
      <4> QED BY <4>1, <4>2
    <3>6. SubTree(E, C, x[1], Bits) = HashLeaf(x[1], x[2])
      BY <1>1, <2>0, <3>4, <3>5, SubTreeFacts
    <3>7. SubTree(E, C2, q, l) \in nodes
      BY <1>15, <2>0, <3>3, <3>4, <3>6 DEF Complete
    <3> QED BY <1>1, <1>14, <2>0, <3>7
  <2> QED BY <2>1, <2>2
<1>16. Complete(E, C2, g[n].nodes)
  BY <1>1, <1>5, <1>14, <1>15, CompleteAfter
<1> QED BY <1>6, <1>14, <1>16 DEF C2

-----------------------------------------------------------------------------
(* Siblings cut and padded.                                                 *)

\* Trimmed drops the zeros at the end and nothing else.
LEMMA TrimmedFacts ==
  ASSUME NEW S, NEW s \in Seq(S)
  PROVE  /\ Trimmed(s) \in Seq(S) /\ Len(Trimmed(s)) \in 0..Len(s)
         /\ \A i \in 1..Len(Trimmed(s)) : Trimmed(s)[i] = s[i]
         /\ \A i \in (Len(Trimmed(s)) + 1)..Len(s) : s[i] = ZeroHash
         /\ Len(Trimmed(s)) # 0 => s[Len(Trimmed(s))] # ZeroHash
<1> DEFINE used == {i \in DOMAIN s : s[i] # ZeroHash}
           n == IF used = {} THEN 0 ELSE CHOOSE i \in used : \A j \in used : j <= i
<1>1. Trimmed(s) = SubSeq(s, 1, n)
  BY DEF Trimmed
<1>2. DOMAIN s = 1..Len(s) /\ Len(s) \in Nat
  OBVIOUS
<1>3. used \subseteq 0..Len(s) /\ used \subseteq 1..Len(s)
  BY <1>2
<1>4. CASE used = {}
  <2>1. n = 0 /\ \A i \in 1..Len(s) : s[i] = ZeroHash
    BY <1>2, <1>4
  <2> QED BY <1>1, <1>2, <2>1
<1>5. CASE used # {}
  <2>1. \E i \in used : \A j \in used : j <= i
    <3> HIDE DEF used
    <3> QED BY <1>2, <1>3, <1>5, GreatestNumber
  <2>2. n \in used /\ \A j \in used : j <= n
    BY <1>5, <2>1
  <2> HIDE DEF n
  <2>3. n \in 1..Len(s) /\ s[n] # ZeroHash /\ \A i \in 1..Len(s) : s[i] # ZeroHash => i <= n
    BY <1>2, <1>3, <2>2
  <2> HIDE DEF used
  <2>4. SubSeq(s, 1, n) \in Seq(S) /\ Len(SubSeq(s, 1, n)) = n /\ \A i \in 1..n : SubSeq(s, 1, n)[i] = s[i]
    BY <1>2, <2>3
  <2>5. \A i \in (n + 1)..Len(s) : i \in 1..Len(s) /\ ~(i <= n)
    BY <1>2, <2>3
  <2> QED BY <1>1, <1>2, <2>3, <2>4, <2>5
<1> QED BY <1>4, <1>5

\* Padded only adds zeros.
LEMMA PaddedFacts ==
  ASSUME NEW S, NEW s \in Seq(S), ZeroHash \in S, NEW levels \in Nat
  PROVE  /\ Padded(s, levels) \in Seq(S)
         /\ Len(Padded(s, levels)) = IF Len(s) < levels THEN levels ELSE Len(s)
         /\ \A i \in 1..Len(s) : Padded(s, levels)[i] = s[i]
         /\ \A i \in (Len(s) + 1)..levels : Padded(s, levels)[i] = ZeroHash
<1> DEFINE m == IF Len(s) < levels THEN levels - Len(s) ELSE 0
           z == [i \in 1..(levels - Len(s)) |-> ZeroHash]
<1>1. m \in Nat /\ 1..(levels - Len(s)) = 1..m /\ Len(s) \in Nat
  OBVIOUS
<1>2. z = [i \in 1..m |-> z[i]] /\ \A i \in 1..m : z[i] \in S /\ z[i] = ZeroHash
  BY <1>1
<1>3. Padded(s, levels) = s \o z
  BY DEF Padded
<1>m. Len(s) + m = IF Len(s) < levels THEN levels ELSE Len(s)
  BY <1>1
<1>n. \A i \in (Len(s) + 1)..levels : i - Len(s) \in 1..m /\ i \in 1..(Len(s) + m) /\ ~(i <= Len(s))
  BY <1>1
<1> HIDE DEF z, m
<1>4. z \in Seq(S) /\ Len(z) = m
  BY <1>1, <1>2, ListedSeq
<1>5. /\ s \o z \in Seq(S) /\ Len(s \o z) = Len(s) + m
      /\ \A i \in 1..(Len(s) + m) : (s \o z)[i] = IF i <= Len(s) THEN s[i] ELSE z[i - Len(s)]
  BY <1>4, ConcatProperties
<1>6. \A i \in 1..Len(s) : i \in 1..(Len(s) + m) /\ i <= Len(s)
  BY <1>1
<1> QED BY <1>2, <1>3, <1>m, <1>n, <1>5, <1>6

\* The siblings of a path, and zeros after them, are trimmed to the path's.
LEMMA TrimIsPath ==
  ASSUME NEW E, NEW C, Fits(E, C), NEW k \in Cube, NEW d, EndsAt(C, k, d),
         NEW S, NEW s \in Seq(S), d <= Len(s),
         \A l \in 1..d : s[l] = SubTree(E, C, Flip(k, l), l),
         \A l \in (d + 1)..Len(s) : s[l] = ZeroHash
  PROVE  /\ Len(Trimmed(s)) = d
         /\ \A l \in 1..d : Trimmed(s)[l] = SubTree(E, C, Flip(k, l), l)
<1> DEFINE t == Len(Trimmed(s))
<1>1. /\ t \in 0..Len(s) /\ \A i \in 1..t : Trimmed(s)[i] = s[i]
      /\ \A i \in (t + 1)..Len(s) : s[i] = ZeroHash
      /\ t # 0 => s[t] # ZeroHash
  BY TrimmedFacts
<1>2. d \in Nat /\ Len(s) \in Nat
  BY BitsType DEF EndsAt
<1> HIDE DEF t
<1>3. ~(d < t)
  <2>1. d < t => t \in (d + 1)..Len(s) /\ t # 0
    BY <1>1, <1>2
  <2> QED BY <1>1, <2>1
<1>4. ~(t < d)
  <2> SUFFICES ASSUME t < d PROVE FALSE
    OBVIOUS
  <2>1. d \in (t + 1)..Len(s) /\ d \in 1..d /\ d # 0
    BY <1>1, <1>2
  <2>2. SubTree(E, C, Flip(k, d), d) # ZeroHash
    BY <2>1, LastSibling
  <2> QED BY <1>1, <2>1, <2>2
<1>5. t = d
  BY <1>1, <1>2, <1>3, <1>4
<1> QED BY <1>1, <1>5 DEF t

\* The siblings of a part of a path.
LEMMA AlongPart ==
  ASSUME NEW E, NEW C, Fits(E, C), NEW k \in Cube, NEW d, EndsAt(C, k, d), NEW t \in 0..d,
         NEW s, \A l \in 1..t : s[l] = SubTree(E, C, Flip(k, l), l)
  PROVE  Along(E, C, k, t, s)
<1>1. t \in 0..Bits /\ \A l \in 0..(t - 1) : l \in 0..(d - 1)
  BY BitsType DEF EndsAt
<1>2. \A l \in 0..(t - 1) : Many(Under(C, k, l))
  BY <1>1 DEF EndsAt
<1> QED BY <1>1, <1>2 DEF Along

\* What the circuit's root says: the claimed leaf is the node of the path at the
\* level of insertion, so, not being a node above, the end of it.
LEMMA Verdict ==
  ASSUME NEW E, NEW C, Fits(E, C), NEW k \in Cube, NEW d, EndsAt(C, k, d),
         NEW p, NEW t, t = LevIns(p.siblings), t \in 0..d,
         \A l \in 1..t : p.siblings[l] = SubTree(E, C, Flip(k, l), l)
  PROVE  VerifierRoot(k, p) = SubTree(E, C, k, 0) <=>
           /\ t = d
           /\ (IF p.is_old0 THEN ZeroHash ELSE HashLeaf(p.old_key, p.old_value)) = SubTree(E, C, k, d)
<1> DEFINE leaf == IF p.is_old0 THEN ZeroHash ELSE HashLeaf(p.old_key, p.old_value)
<1>1. VerifierRoot(k, p) = Climbed(k, leaf, p.siblings, t)[t]
  BY ClimbsAre
<1>2. ~IsInternal(leaf)
  BY Terms
<1> HIDE DEF leaf
<1>3. d \in 0..Bits /\ t \in 0..Bits
  BY BitsType DEF EndsAt
<1>5. Climbed(k, leaf, p.siblings, t)[t] = SubTree(E, C, k, 0) <=> leaf = SubTree(E, C, k, t)
  <2>1. Along(E, C, k, t, p.siblings)
    BY <1>3, AlongPart
  <2> QED BY <2>1, ClimbIsPath
<1>6. t # d => IsInternal(SubTree(E, C, k, t))
  <2>1. t # d => t \in 0..(d - 1)
    BY <1>3, BitsType
  <2>2. t # d => Many(Under(C, k, t))
    BY <2>1 DEF EndsAt
  <2> QED BY <1>3, <2>2, Kinds
<1> QED BY <1>1, <1>2, <1>5, <1>6 DEF leaf

-----------------------------------------------------------------------------
(* The contract's tree.                                                     *)

\* The contract's tree is the canonical one of the blocked keys, and every
\* node of it is in the store.
ExclusionInv ==
  /\ Fits(Entries, contents)
  /\ RootCanonical
  /\ Complete(Entries, contents, nodes)

\* The subtree at level 0 of any path is the canonical tree.
LEMMA WholeTree ==
  ASSUME NEW E, NEW C, Fits(E, C), NEW k \in Cube
  PROVE  SubTree(E, C, k, 0) = CanonicalTree(E, C)
<1>1. Under(C, k, 0) = C
  BY UnderFacts
<1>2. Bits - 0 = Bits
  BY BitsType
<1> QED BY <1>1, <1>2, CanonicalIsTree DEF SubTree

\* The tree of no entries is zero and needs no node.
LEMMA EmptySparseTree ==
  ASSUME NEW E, IsEntries(E)
  PROVE  /\ Fits(E, {}) /\ CanonicalTree(E, {}) = ZeroHash
         /\ \A N : Complete(E, {}, N)
<1>1. Fits(E, {})
  BY DEF Fits
<1>2. ASSUME NEW k \in Cube, NEW l \in 0..Bits PROVE SubTree(E, {}, k, l) = ZeroHash
  <2>1. Under({}, k, l) = {}
    BY DEF Under
  <2> QED BY <1>1, <2>1, SubTreeFacts
<1>3. CanonicalTree(E, {}) = ZeroHash
  <2> DEFINE k == [i \in 1..Bits |-> 0]
  <2>1. k \in Cube /\ 0 \in 0..Bits
    BY BitsType DEF Cube
  <2> HIDE DEF k
  <2> QED BY <1>1, <1>2, <2>1, WholeTree
<1>4. \A N : Complete(E, {}, N)
  BY <1>2 DEF Complete
<1> QED BY <1>1, <1>3, <1>4

\* The entries the callers of insert_leaf give have keys of Bits bits.
LEMMA EntriesAre == IsEntries(Entries) /\ \A kv \in Entries : kv[1] \in Keys /\ kv[2] \in Values
BY EntriesAssumption, KeysAssumption DEF IsEntries, Cube

\* So have all keys the model uses.
LEMMA KeysAre == Keys \subseteq Cube
BY KeysAssumption DEF Cube

\* insert_leaf, delete_leaf and update_admin keep the invariant.
LEMMA ExclusionStep == ExclusionInv /\ [ExclusionNext]_exclusionVars => ExclusionInv'
<1> SUFFICES ASSUME ExclusionInv, [ExclusionNext]_exclusionVars PROVE ExclusionInv'
  OBVIOUS
<1>0. /\ Fits(Entries, contents) /\ root = CanonicalTree(Entries, contents)
      /\ Complete(Entries, contents, nodes)
  BY DEF ExclusionInv, RootCanonical
<1>1. CASE UNCHANGED <<root, nodes, contents>>
  BY <1>1 DEF ExclusionInv, RootCanonical
<1>2. ASSUME NEW a \in Address, NEW kv \in Entries, InsertLeaf(a, kv[1], kv[2])
      PROVE  ExclusionInv'
  <2> DEFINE q == kv[1]
             v == kv[2]
  <2>1. /\ ~FindResult(q).found /\ root' = Inserted(q, v).rt /\ nodes' = Inserted(q, v).nodes
        /\ contents' = contents \cup {<<q, v>>}
    BY <1>2 DEF InsertLeaf
  <2>2. q \in Cube /\ <<q, v>> \in Entries
    BY EntriesAre DEF IsEntries
  <2> HIDE DEF q, v
  <2>3. root = SubTree(Entries, contents, q, 0)
    BY <1>0, <2>2, WholeTree
  <2>4. PICK d : EndsAt(contents, q, d)
    BY <1>0, <2>2, EndExists
  <2>5. \A x \in contents : x[1] # q
    BY <1>0, <2>1, <2>2, <2>3, <2>4, FindIs
  <2>6. Comes(Entries, contents, q, v, d)
    BY <1>0, <2>2, <2>4, <2>5 DEF Comes
  <2>7. /\ root' = SubTree(Entries, With(contents, q, v), q, 0)
        /\ Complete(Entries, With(contents, q, v), nodes')
    BY <1>0, <2>1, <2>3, <2>6, InsertedFacts
  <2>8. Fits(Entries, With(contents, q, v))
    BY <2>6, Grown
  <2>9. root' = CanonicalTree(Entries, With(contents, q, v))
    BY <2>2, <2>7, <2>8, WholeTree
  <2>10. contents' = With(contents, q, v)
    BY <2>1 DEF With
  <2> QED BY <2>7, <2>8, <2>9, <2>10 DEF ExclusionInv, RootCanonical
<1>3. ASSUME NEW a \in Address, NEW q \in Keys, DeleteLeaf(a, q)
      PROVE  ExclusionInv'
  <2>1. /\ FindResult(q).found /\ root' = Deleted(q).rtNew /\ nodes' = Deleted(q).nodes
        /\ contents' = {kv \in contents : kv[1] # q}
    BY <1>3 DEF DeleteLeaf
  <2>2. q \in Cube
    BY KeysAre
  <2>3. root = SubTree(Entries, contents, q, 0)
    BY <1>0, <2>2, WholeTree
  <2>4. PICK d : EndsAt(contents, q, d)
    BY <1>0, <2>2, EndExists
  <2>5. PICK e \in contents : e[1] = q
    BY <1>0, <2>1, <2>2, <2>3, <2>4, FindIs
  <2>6. Goes(Entries, contents, q, e, d)
    BY <1>0, <2>2, <2>4, <2>5 DEF Goes
  <2>7. /\ root' = SubTree(Entries, Without(contents, q), q, 0)
        /\ Complete(Entries, Without(contents, q), nodes')
    BY <1>0, <2>1, <2>3, <2>6, DeletedFacts
  <2>8. Fits(Entries, Without(contents, q))
    BY <2>6, Shrunk
  <2>9. root' = CanonicalTree(Entries, Without(contents, q))
    BY <2>2, <2>7, <2>8, WholeTree
  <2>10. contents' = Without(contents, q)
    BY <2>1 DEF Without
  <2> QED BY <2>7, <2>8, <2>9, <2>10 DEF ExclusionInv, RootCanonical
<1>4. ASSUME NEW a \in Address, NEW b \in Address, UpdateExclusionAdmin(a, b) PROVE ExclusionInv'
  BY <1>1, <1>4 DEF UpdateExclusionAdmin
<1>5. CASE UNCHANGED exclusionVars
  BY <1>1, <1>5 DEF exclusionVars
<1> QED BY <1>2, <1>3, <1>4, <1>5 DEF ExclusionNext

\* The invariant of the contract holds always.
LEMMA ExclusionHolds == ExclusionSpec => []ExclusionInv
<1>1. ExclusionInit => ExclusionInv
  <2> SUFFICES ASSUME ExclusionInit PROVE ExclusionInv
    OBVIOUS
  <2>1. root = ZeroHash /\ contents = {}
    BY DEF ExclusionInit
  <2> QED BY <2>1, EntriesAre, EmptySparseTree DEF ExclusionInv, RootCanonical
<1> QED BY <1>1, ExclusionStep, PTL DEF ExclusionSpec

\* Lookups succeed.
LEMMA LookupsSucceed ==
  ASSUME ExclusionInv, NEW k \in Cube, NEW d, EndsAt(contents, k, d)
  PROVE  FindSucceeds(k) /\ LastSiblingStored(FindResult(k))
<1>0. /\ Fits(Entries, contents) /\ root = CanonicalTree(Entries, contents)
      /\ Complete(Entries, contents, nodes)
  BY DEF ExclusionInv, RootCanonical
<1>1. root = SubTree(Entries, contents, k, 0)
  BY <1>0, WholeTree
<1>2. d \in 0..Bits /\ d \in Nat /\ \A l \in 0..d : l \in 0..Bits
  BY BitsType DEF EndsAt
<1>3. FindResult(k).siblings = SiblingsOf(Entries, contents, k, d)
  BY <1>0, <1>1, FindIs
<1>4. FindSucceeds(k)
  <2>1. \A l \in 0..d : SubTree(Entries, contents, k, l) # ZeroHash => SubTree(Entries, contents, k, l) \in nodes
    BY <1>0, <1>2 DEF Complete
  <2> QED BY <1>0, <1>1, <2>1, FindIs
<1>5. LastSiblingStored(FindResult(k))
  <2>1. CASE d = 0
    BY <1>2, <1>3, <2>1, SiblingsFacts DEF LastSiblingStored
  <2>2. CASE d # 0
    <3>1. d \in 1..Bits /\ d \in 1..d /\ SubTree(Entries, contents, Flip(k, d), d) # ZeroHash
      BY <1>0, <1>2, <2>2, LastSibling
    <3>2. Flip(k, d) \in Cube
      BY <1>0, <3>1, UnderFacts
    <3>3. SubTree(Entries, contents, Flip(k, d), d) \in nodes
      BY <1>0, <1>2, <3>1, <3>2 DEF Complete
    <3>4. FindResult(k).siblings[Len(FindResult(k).siblings)] = SubTree(Entries, contents, Flip(k, d), d)
      BY <1>2, <1>3, <3>1, SiblingsFacts
    <3> QED BY <3>3, <3>4 DEF LastSiblingStored
  <2> QED BY <2>1, <2>2
<1> QED BY <1>4, <1>5

\* It says that the root is canonical and that no lookup fails.
LEMMA ExclusionComplete == ExclusionInv => RootCanonical /\ TreeComplete
<1> SUFFICES ASSUME ExclusionInv PROVE RootCanonical /\ TreeComplete
  OBVIOUS
<1>0. Fits(Entries, contents) /\ root = CanonicalTree(Entries, contents)
  BY DEF ExclusionInv, RootCanonical
<1>1. ASSUME NEW k \in Cube PROVE FindSucceeds(k) /\ LastSiblingStored(FindResult(k))
  <2>1. PICK d : EndsAt(contents, k, d)
    BY <1>0, EndExists
  <2> QED BY <2>1, LookupsSucceed
<1>2. ASSUME NEW kv \in contents PROVE kv[1] \in Cube /\ FindResult(kv[1]).found
  <2>1. kv[1] \in Cube
    BY <1>0 DEF Fits, IsEntries
  <2>2. PICK d : EndsAt(contents, kv[1], d)
    BY <1>0, <2>1, EndExists
  <2>3. root = SubTree(Entries, contents, kv[1], 0)
    BY <1>0, <2>1, WholeTree
  <2> QED BY <1>0, <2>1, <2>2, <2>3, FindIs
<1>3. TreeComplete
  BY <1>1, <1>2 DEF TreeComplete, Cube
<1> QED BY <1>3 DEF ExclusionInv

\* What the contract finds for a key.
LEMMA ContractFinds ==
  ASSUME ExclusionInv, NEW k \in Cube, NEW d, EndsAt(contents, k, d)
  PROVE  /\ Fits(Entries, contents) /\ root = SubTree(Entries, contents, k, 0)
         /\ FindResult(k).found <=> \E x \in contents : x[1] = k
         /\ FindResult(k).siblings = SiblingsOf(Entries, contents, k, d)
         /\ FindResult(k).end = SubTree(Entries, contents, k, d)
         /\ FindResult(k).is_old0 <=> FindResult(k).end = ZeroHash
         /\ d \in Nat /\ d \in 0..Bits /\ Len(FindResult(k).siblings) = d
         /\ \A l \in 1..d : FindResult(k).siblings[l] = SubTree(Entries, contents, Flip(k, l), l)
<1>0. Fits(Entries, contents) /\ root = CanonicalTree(Entries, contents)
  BY DEF ExclusionInv, RootCanonical
<1>1. root = SubTree(Entries, contents, k, 0)
  BY <1>0, WholeTree
<1>2. d \in Nat /\ d \in 0..Bits
  BY BitsType DEF EndsAt
<1>3. /\ FindResult(k).found <=> \E x \in contents : x[1] = k
      /\ FindResult(k).siblings = SiblingsOf(Entries, contents, k, d)
      /\ FindResult(k).end = SubTree(Entries, contents, k, d)
      /\ FindResult(k).is_old0 <=> Under(contents, k, d) = {}
  BY <1>0, <1>1, FindIs
<1>4. SubTree(Entries, contents, k, d) = ZeroHash <=> Under(contents, k, d) = {}
  BY <1>0, KeyAtEnd
<1>5. /\ Len(FindResult(k).siblings) = d
      /\ \A l \in 1..d : FindResult(k).siblings[l] = SubTree(Entries, contents, Flip(k, l), l)
  BY <1>2, <1>3, SiblingsFacts
<1> QED BY <1>0, <1>1, <1>2, <1>3, <1>4, <1>5

\* The end of the path of a key that is not blocked is nothing, or another's leaf.
LEMMA OtherEnd ==
  ASSUME ExclusionInv, NEW k \in Cube, NEW d, EndsAt(contents, k, d), ~FindResult(k).found,
         ~FindResult(k).is_old0
  PROVE  \E x \in contents : x[1] # k /\ x \in Entries /\ FindResult(k).end = HashLeaf(x[1], x[2])
<1>1. /\ Fits(Entries, contents) /\ FindResult(k).end = SubTree(Entries, contents, k, d)
      /\ FindResult(k).end # ZeroHash /\ ~\E x \in contents : x[1] = k
  BY ContractFinds
<1>2. PICK x \in contents : SubTree(Entries, contents, k, d) = HashLeaf(x[1], x[2])
  BY <1>1, KeyAtEnd
<1>3. x \in Entries
  BY <1>1 DEF Fits
<1> QED BY <1>1, <1>2, <1>3

\* verify_non_membership decides, given what find_key returns.
LEMMA ContractDecides == ExclusionInv => NonMembershipDecided
<1> SUFFICES ASSUME ExclusionInv, NEW k \in Keys
             PROVE  LET blocked == \E v \in Values : <<k, v>> \in contents
                        besideZero == \E other \in Keys \ {k} :
                                        <<other, 0>> \in contents /\ FindResult(k).end = HashLeaf(other, 0)
                    IN  VerifyNonMembership(k) =
                          IF blocked THEN "false" ELSE IF besideZero THEN "InvalidProof" ELSE "true"
  BY DEF NonMembershipDecided
<1> DEFINE blocked == \E v \in Values : <<k, v>> \in contents
           besideZero == \E other \in Keys \ {k} :
                           <<other, 0>> \in contents /\ FindResult(k).end = HashLeaf(other, 0)
           find == FindResult(k)
           T == SubTree(Entries, contents, k, 0)
<1>1. k \in Cube
  BY KeysAre
<1>2. Fits(Entries, contents)
  BY DEF ExclusionInv
<1>3. PICK d : EndsAt(contents, k, d)
  BY <1>1, <1>2, EndExists
<1>4. FindSucceeds(k)
  BY <1>1, <1>3, LookupsSucceed
<1>5. /\ root = T /\ (find.found <=> \E x \in contents : x[1] = k)
      /\ find.end = SubTree(Entries, contents, k, d) /\ (find.is_old0 <=> find.end = ZeroHash)
      /\ d \in Nat /\ d \in 0..Bits /\ Len(find.siblings) = d
      /\ \A l \in 1..d : find.siblings[l] = SubTree(Entries, contents, Flip(k, l), l)
  BY <1>1, <1>3, ContractFinds
<1>6. find.found <=> blocked
  <2>1. \A x \in contents : x = <<x[1], x[2]>> /\ x[2] \in Values
    BY <1>2, EntriesAre DEF Fits, IsEntries
  <2>2. \A v : <<k, v>>[1] = k
    OBVIOUS
  <2> QED BY <1>5, <2>1, <2>2
<1>7. RootFromProof(k, ProofStart(find), find.siblings) = root <=> ProofStart(find) = find.end
  <2> DEFINE s == find.siblings
             start == ProofStart(find)
  <2>1. RootFromProof(k, start, s) = Climbed(k, start, s, d)[d]
    BY <1>5, ClimbsAre
  <2>2. Along(Entries, contents, k, d, s)
    BY <1>1, <1>2, <1>3, <1>5, AlongPart
  <2> HIDE DEF s, start
  <2>3. Climbed(k, start, s, d)[d] = SubTree(Entries, contents, k, 0) <=> start = SubTree(Entries, contents, k, d)
    BY <2>2, ClimbIsPath
  <2> QED BY <1>5, <2>1, <2>3 DEF s, start
<1>8. ~find.found => (ProofStart(find) # find.end <=> besideZero)
  <2> SUFFICES ASSUME ~find.found PROVE ProofStart(find) # find.end <=> besideZero
    OBVIOUS
  <2>1. CASE find.is_old0
    <3>1. ProofStart(find) = find.end /\ find.end = ZeroHash
      BY <1>5, <2>1 DEF ProofStart
    <3>2. ~besideZero
      BY <3>1, Terms
    <3> QED BY <3>1, <3>2
  <2>2. CASE ~find.is_old0
    <3>1. PICK x \in contents : x[1] # k /\ x \in Entries /\ find.end = HashLeaf(x[1], x[2])
      BY <1>1, <1>3, <2>2, OtherEnd
    <3>2. x[1] \in Keys /\ x = <<x[1], x[2]>>
      BY <3>1, EntriesAre DEF IsEntries
    <3>3. LeafValue(find.end) = x[2] /\ find.end # ZeroHash
      BY <3>1, Terms
    <3>4. ProofStart(find) # find.end <=> x[2] = 0
      BY <2>2, <3>3 DEF ProofStart
    <3>5. besideZero => x[2] = 0
      <4>1. ASSUME NEW other, find.end = HashLeaf(other, 0) PROVE x[2] = 0
        <5>1. HashLeaf(x[1], x[2]) = HashLeaf(other, 0)
          BY <3>1, <4>1
        <5> QED BY <5>1, SameLeaf
      <4> QED BY <4>1
    <3>6. x[2] = 0 => besideZero
      <4> SUFFICES ASSUME x[2] = 0 PROVE besideZero
        OBVIOUS
      <4>1. x[1] \in Keys \ {k} /\ <<x[1], 0>> \in contents /\ find.end = HashLeaf(x[1], 0)
        BY <3>1, <3>2
      <4> QED BY <4>1
    <3> QED BY <3>4, <3>5, <3>6
  <2> QED BY <2>1, <2>2
<1> HIDE DEF blocked, besideZero, find
<1>9. VerifyNonMembership(k) = IF find.found THEN "false"
                               ELSE IF RootFromProof(k, ProofStart(find), find.siblings) # root
                               THEN "InvalidProof" ELSE "true"
  BY <1>4 DEF VerifyNonMembership, find
<1>10. VerifyNonMembership(k) = IF blocked THEN "false" ELSE IF besideZero THEN "InvalidProof" ELSE "true"
  BY <1>6, <1>7, <1>8, <1>9
<1> QED BY <1>10 DEF blocked, besideZero

\* The siblings of a path are a sequence of nodes.
LEMMA SiblingsSeq ==
  ASSUME NEW E, NEW C, NEW k, NEW d \in Nat
  PROVE  \E S : ZeroHash \in S /\ SiblingsOf(E, C, k, d) \in Seq(S)
<1> DEFINE s == SiblingsOf(E, C, k, d)
           S == {s[l] : l \in 1..d} \cup {ZeroHash}
<1>1. s = [l \in 1..d |-> s[l]]
  BY DEF SiblingsOf
<1>2. \A l \in 1..d : s[l] \in S
  OBVIOUS
<1>3. ZeroHash \in S
  OBVIOUS
<1> HIDE DEF S, s
<1>4. s \in Seq(S)
  BY <1>1, <1>2, ListedSeq
<1> QED BY <1>3, <1>4 DEF s

\* A path cut at level n and padded is trimmed to a part of it.
LEMMA CutPath ==
  ASSUME NEW S, NEW s \in Seq(S), ZeroHash \in S, NEW n \in 0..Len(s), NEW levels \in Nat, n <= levels
  PROVE  LET u == Padded(SubSeq(s, 1, n), levels)
         IN  /\ LevIns(u) \in 0..n
             /\ \A l \in 1..LevIns(u) : u[l] = s[l]
<1> DEFINE c == SubSeq(s, 1, n)
           u == Padded(c, levels)
           t == LevIns(u)
<1>1. c \in Seq(S) /\ Len(c) = n /\ \A l \in 1..n : c[l] = s[l]
  OBVIOUS
<1> HIDE DEF c
<1>2. /\ u \in Seq(S) /\ Len(u) = levels /\ (\A l \in 1..n : u[l] = c[l])
      /\ \A l \in (n + 1)..levels : u[l] = ZeroHash
  <2>1. n \in Nat /\ (IF n < levels THEN levels ELSE n) = levels
    OBVIOUS
  <2>2. /\ u \in Seq(S) /\ Len(u) = IF Len(c) < levels THEN levels ELSE Len(c)
        /\ (\A l \in 1..Len(c) : u[l] = c[l]) /\ \A l \in (Len(c) + 1)..levels : u[l] = ZeroHash
    BY <1>1, PaddedFacts
  <2> HIDE DEF u
  <2> QED BY <1>1, <2>1, <2>2
<1> HIDE DEF u
<1>3. t \in 0..levels /\ (t # 0 => u[t] # ZeroHash)
  BY <1>2, TrimmedFacts DEF LevIns
<1> HIDE DEF t
<1>4. t \in 0..n
  <2>1. ~(t <= n) => t \in (n + 1)..levels /\ t # 0
    BY <1>3
  <2> QED BY <1>2, <1>3, <2>1
<1>5. \A l \in 1..t : l \in 1..n
  BY <1>4
<1> QED BY <1>1, <1>2, <1>4, <1>5 DEF u, t, c

\* No part of the path of a blocked key is a proof that it is absent: only
\* its own leaf leads from the end of the path to the root.
LEMMA NeverExcluded == ExclusionInv => BlockedNeverExcluded
<1> SUFFICES ASSUME ExclusionInv, NEW kv \in contents,
                    NEW n \in 0..(IF Len(FindResult(kv[1]).siblings) < SmtLevels
                                  THEN Len(FindResult(kv[1]).siblings) ELSE SmtLevels - 1),
                    NEW old \in Keys, NEW v \in Values, NEW zero \in BOOLEAN,
                    VerifierAccepts(kv[1], [siblings |-> Padded(SubSeq(FindResult(kv[1]).siblings, 1, n), SmtLevels),
                                            old_key |-> old, old_value |-> v, is_old0 |-> zero, root |-> root])
             PROVE  FALSE
  BY DEF BlockedNeverExcluded
<1> DEFINE k == kv[1]
           path == FindResult(k).siblings
           u == Padded(SubSeq(path, 1, n), SmtLevels)
           p == [siblings |-> u, old_key |-> old, old_value |-> v, is_old0 |-> zero, root |-> root]
           t == LevIns(u)
           T == SubTree(Entries, contents, k, 0)
<1>1. Fits(Entries, contents) /\ k \in Cube
  BY DEF ExclusionInv, Fits, IsEntries
<1>2. PICK d : EndsAt(contents, k, d)
  BY <1>1, EndExists
<1>3. /\ root = T /\ path = SiblingsOf(Entries, contents, k, d) /\ d \in Nat /\ d \in 0..Bits /\ Len(path) = d
      /\ \A l \in 1..d : path[l] = SubTree(Entries, contents, Flip(k, l), l)
  BY <1>1, <1>2, ContractFinds
<1>4. SmtLevels \in Nat /\ SmtLevels >= 1 /\ n \in 0..d /\ n <= SmtLevels
  BY <1>3, SmtAssumption
<1>5. PICK S : ZeroHash \in S /\ path \in Seq(S)
  BY <1>3, SiblingsSeq
<1>a. VerifierAccepts(k, p)
  OBVIOUS
<1>b. p.siblings = u /\ p.old_key = old /\ p.old_value = v /\ p.is_old0 = zero /\ p.root = root
  OBVIOUS
<1> HIDE DEF p, path
<1>6. t \in 0..n /\ \A l \in 1..t : u[l] = path[l]
  <2>1. n \in 0..Len(path) /\ path \in Seq(S) /\ ZeroHash \in S /\ SmtLevels \in Nat /\ n <= SmtLevels
    BY <1>3, <1>4, <1>5
  <2> QED BY <2>1, CutPath
<1> HIDE DEF u
<1>7. t \in 0..d /\ t = LevIns(p.siblings) /\ \A l \in 1..t : p.siblings[l] = SubTree(Entries, contents, Flip(k, l), l)
  BY <1>3, <1>4, <1>6, <1>b
<1>8. VerifierRoot(k, p) = T /\ (p.is_old0 \/ p.old_key # k)
  BY <1>3, <1>a, <1>b DEF VerifierAccepts
<1> HIDE DEF t, k
<1>9. (IF p.is_old0 THEN ZeroHash ELSE HashLeaf(p.old_key, p.old_value)) = SubTree(Entries, contents, k, d)
  BY <1>1, <1>2, <1>7, <1>8, Verdict
<1>10. SubTree(Entries, contents, k, d) = HashLeaf(k, kv[2])
  BY <1>1, <1>2, KeyAtEnd DEF k
<1>11. CASE p.is_old0
  BY <1>9, <1>10, <1>11, Terms
<1>12. CASE ~p.is_old0
  <2>1. HashLeaf(p.old_key, p.old_value) = HashLeaf(k, kv[2])
    BY <1>9, <1>10, <1>12
  <2> QED BY <1>8, <1>12, <2>1, SameLeaf
<1> QED BY <1>11, <1>12

-----------------------------------------------------------------------------
(* The circuit on a key's own path.                                         *)

\* p is the proof for key k, of a tree, with the first levels of its path.
ProofFor(E, C, k, d, p, levels) ==
  /\ Fits(E, C) /\ k \in Cube /\ EndsAt(C, k, d) /\ levels \in Nat /\ levels >= 1
  /\ p.root = SubTree(E, C, k, 0)
  /\ Len(p.siblings) >= levels /\ Len(p.siblings) \in Nat /\ \E S : p.siblings \in Seq(S)
  /\ \A l \in 1..Len(p.siblings) :
       p.siblings[l] = IF l <= d THEN SubTree(E, C, Flip(k, l), l) ELSE ZeroHash

\* The circuit accepts it if the path is short and ends at what is claimed.
LEMMA CircuitVerdict ==
  ASSUME NEW E, NEW C, NEW k, NEW d, NEW p, ProofFor(E, C, k, d, p, SmtLevels)
  PROVE  VerifierAccepts(k, p) <=>
           /\ d < SmtLevels /\ Len(p.siblings) = SmtLevels
           /\ p.is_old0 \/ p.old_key # k
           /\ (IF p.is_old0 THEN ZeroHash ELSE HashLeaf(p.old_key, p.old_value)) = SubTree(E, C, k, d)
<1> DEFINE s == p.siblings
           t == LevIns(s)
           leaf == IF p.is_old0 THEN ZeroHash ELSE HashLeaf(p.old_key, p.old_value)
<1>1. /\ Fits(E, C) /\ k \in Cube /\ EndsAt(C, k, d) /\ SmtLevels \in Nat /\ SmtLevels >= 1
      /\ p.root = SubTree(E, C, k, 0) /\ Len(s) >= SmtLevels /\ Len(s) \in Nat
      /\ \A l \in 1..Len(s) : s[l] = IF l <= d THEN SubTree(E, C, Flip(k, l), l) ELSE ZeroHash
  BY DEF ProofFor
<1>2. PICK S : s \in Seq(S)
  BY DEF ProofFor
<1>3. d \in Nat /\ d \in 0..Bits
  BY <1>1, BitsType DEF EndsAt
<1> HIDE DEF leaf
<1>4. VerifierAccepts(k, p) <=> /\ Len(s) = SmtLevels /\ s[SmtLevels] = ZeroHash
                                /\ p.is_old0 \/ p.old_key # k
                                /\ VerifierRoot(k, p) = SubTree(E, C, k, 0)
  BY <1>1 DEF VerifierAccepts
<1> HIDE DEF s
<1>5. CASE Len(s) # SmtLevels
  BY <1>4, <1>5 DEF s, leaf
<1>6. CASE Len(s) = SmtLevels
  <2>0. SmtLevels \in 1..Len(s)
    BY <1>1, <1>6
  <2>1. t \in 0..Len(s) /\ (t # 0 => s[t] # ZeroHash)
    BY <1>2, TrimmedFacts DEF LevIns
  <2>2. \A l \in 1..t : l \in 1..Len(s)
    BY <1>1, <2>1
  <2>3. t <= d
    <3>1. t # 0 => t \in 1..Len(s)
      BY <1>1, <2>1
    <3> QED BY <1>1, <1>3, <2>1, <3>1
  <2>4. t \in 0..d /\ \A l \in 1..t : s[l] = SubTree(E, C, Flip(k, l), l)
    <3>1. \A l \in 1..t : l <= d
      BY <1>3, <2>1, <2>3
    <3> QED BY <1>1, <1>3, <2>1, <2>2, <2>3, <3>1
  <2>5. VerifierRoot(k, p) = SubTree(E, C, k, 0) <=> t = d /\ leaf = SubTree(E, C, k, d)
    BY <1>1, <2>4, Verdict DEF s, leaf
  <2>6. CASE d < SmtLevels
    <3>1. s[SmtLevels] = ZeroHash
      BY <1>1, <1>3, <2>0, <2>6
    <3>2. t = d
      <4>1. /\ d <= Len(s) /\ (\A l \in 1..d : s[l] = SubTree(E, C, Flip(k, l), l))
            /\ \A l \in (d + 1)..Len(s) : s[l] = ZeroHash
        BY <1>1, <1>3, <1>6, <2>6
      <4> QED BY <1>1, <1>2, <4>1, TrimIsPath DEF LevIns
    <3> QED BY <1>4, <1>6, <2>5, <2>6, <3>1, <3>2 DEF s, leaf
  <2>7. CASE ~(d < SmtLevels)
    <3>1. ~VerifierAccepts(k, p)
      <4> SUFFICES ASSUME s[SmtLevels] = ZeroHash, t = d PROVE FALSE
        BY <1>4, <2>5
      <4>1. d = SmtLevels /\ d # 0
        BY <1>1, <1>3, <1>6, <2>1, <2>7
      <4> QED BY <2>1, <4>1
    <3> QED BY <2>7, <3>1
  <2> QED BY <2>6, <2>7
<1> QED BY <1>5, <1>6

\* A proof from the siblings of the whole path, padded or cut.
LEMMA ProofFromPath ==
  ASSUME NEW E, NEW C, Fits(E, C), NEW k \in Cube, NEW d, EndsAt(C, k, d), NEW p,
         p.root = SubTree(E, C, k, 0), NEW s, s = SiblingsOf(E, C, k, d),
         p.siblings = Padded(s, SmtLevels) \/ (d > SmtLevels /\ p.siblings = SubSeq(s, 1, SmtLevels))
  PROVE  /\ ProofFor(E, C, k, d, p, SmtLevels)
         /\ d < SmtLevels => Len(p.siblings) = SmtLevels
<1>0. d \in Nat /\ SmtLevels \in Nat /\ SmtLevels >= 1
  BY BitsType, SmtAssumption DEF EndsAt
<1>1. Len(s) = d /\ \A l \in 1..d : s[l] = SubTree(E, C, Flip(k, l), l)
  BY <1>0, SiblingsFacts
<1>2. PICK S : ZeroHash \in S /\ s \in Seq(S)
  BY <1>0, SiblingsSeq
<1> DEFINE u == p.siblings
<1>3. CASE u = Padded(s, SmtLevels)
  <2>1. /\ u \in Seq(S) /\ Len(u) = (IF d < SmtLevels THEN SmtLevels ELSE d)
        /\ (\A l \in 1..d : u[l] = s[l]) /\ \A l \in (d + 1)..SmtLevels : u[l] = ZeroHash
    BY <1>0, <1>1, <1>2, <1>3, PaddedFacts
  <2> HIDE DEF u
  <2>2. Len(u) >= SmtLevels /\ Len(u) \in Nat /\ (d < SmtLevels => Len(u) = SmtLevels)
    BY <1>0, <2>1
  <2>3. ASSUME NEW l \in 1..Len(u) PROVE u[l] = IF l <= d THEN SubTree(E, C, Flip(k, l), l) ELSE ZeroHash
    <3>1. CASE l <= d
      <4>1. l \in 1..d
        BY <1>0, <2>2, <3>1
      <4> QED BY <1>1, <2>1, <3>1, <4>1
    <3>2. CASE ~(l <= d)
      <4>1. l \in (d + 1)..SmtLevels
        BY <1>0, <2>1, <2>2, <3>2
      <4> QED BY <2>1, <3>2, <4>1
    <3> QED BY <3>1, <3>2
  <2> QED BY <1>0, <2>1, <2>2, <2>3 DEF ProofFor, u
<1>4. CASE d > SmtLevels /\ u = SubSeq(s, 1, SmtLevels)
  <2>1. u \in Seq(S) /\ Len(u) = SmtLevels /\ \A l \in 1..SmtLevels : u[l] = s[l]
    BY <1>0, <1>1, <1>2, <1>4
  <2> HIDE DEF u
  <2>2. \A l \in 1..SmtLevels : l <= d /\ l \in 1..d
    BY <1>0, <1>4
  <2>3. \A l \in 1..Len(u) : u[l] = IF l <= d THEN SubTree(E, C, Flip(k, l), l) ELSE ZeroHash
    BY <1>1, <2>1, <2>2
  <2>4. Len(u) >= SmtLevels /\ Len(u) \in Nat
    BY <1>0, <2>1
  <2> QED BY <1>0, <2>1, <2>3, <2>4 DEF ProofFor, u
<1> QED BY <1>3, <1>4

\* The circuit on the proof taken from the contract's tree.
LEMMA ContractCircuit ==
  ASSUME ExclusionInv, NEW k \in Keys
  PROVE  (\E p \in NonmembershipProofs(k) : VerifierAccepts(k, p)) <=>
           (~FindResult(k).found /\ Len(FindResult(k).siblings) < SmtLevels)
<1> DEFINE find == FindResult(k)
           T == SubTree(Entries, contents, k, 0)
           parsed == ParseFindResult(k)
<1>1. k \in Cube /\ Fits(Entries, contents)
  BY KeysAre DEF ExclusionInv
<1>2. PICK d : EndsAt(contents, k, d)
  BY <1>1, EndExists
<1>3. /\ root = T /\ (find.found <=> \E x \in contents : x[1] = k)
      /\ find.siblings = SiblingsOf(Entries, contents, k, d)
      /\ find.end = SubTree(Entries, contents, k, d) /\ (find.is_old0 <=> find.end = ZeroHash)
      /\ d \in Nat /\ d \in 0..Bits /\ Len(find.siblings) = d
  BY <1>1, <1>2, ContractFinds
<1>l. SmtLevels \in Nat /\ SmtLevels >= 1
  BY SmtAssumption
<1>4. CASE root = ZeroHash
  <2> DEFINE z == [i \in 1..SmtLevels |-> ZeroHash]
             p == [siblings |-> z, old_key |-> ZeroKey, old_value |-> 0, is_old0 |-> TRUE, root |-> ZeroHash]
  <2>1. NonmembershipProofs(k) = {p}
    BY <1>4 DEF NonmembershipProofs
  <2>2. contents = {} /\ d = 0
    <3>1. Under(contents, k, 0) = {} /\ Under(contents, k, 0) = contents
      BY <1>1, <1>3, <1>4, Kinds, UnderFacts, BitsType
    <3>2. d # 0 => Many(Under(contents, k, 0))
      BY <1>2, <1>3 DEF EndsAt
    <3> QED BY <3>1, <3>2 DEF Many
  <2>3. p.siblings = z /\ p.is_old0 /\ p.root = ZeroHash
    OBVIOUS
  <2>4. /\ z \in Seq({ZeroHash}) /\ Len(z) = SmtLevels /\ \A l \in 1..Len(z) : z[l] = ZeroHash
    BY <1>l
  <2> HIDE DEF p, z
  <2>5. ProofFor(Entries, contents, k, d, p, SmtLevels)
    <3>1. \A l \in 1..Len(z) : ~(l <= d)
      BY <1>l, <2>2, <2>4
    <3>2. \A l \in 1..Len(p.siblings) :
            p.siblings[l] = IF l <= d THEN SubTree(Entries, contents, Flip(k, l), l) ELSE ZeroHash
      BY <2>3, <2>4, <3>1
    <3>3. Len(p.siblings) >= SmtLevels /\ Len(p.siblings) \in Nat /\ \E S : p.siblings \in Seq(S)
      BY <1>l, <2>3, <2>4
    <3>4. p.root = SubTree(Entries, contents, k, 0)
      BY <1>3, <1>4, <2>3
    <3> QED BY <1>1, <1>2, <1>l, <3>2, <3>3, <3>4 DEF ProofFor
  <2>6. VerifierAccepts(k, p)
    <3>1. d < SmtLevels
      BY <1>l, <2>2
    <3> QED BY <1>3, <1>4, <2>2, <2>3, <2>4, <2>5, <3>1, CircuitVerdict
  <2> QED BY <1>3, <1>l, <2>1, <2>2, <2>6
<1>5. CASE root # ZeroHash /\ find.found
  <2>1. NonmembershipProofs(k) = {}
    BY <1>5 DEF NonmembershipProofs, ParseFindResult
  <2> QED BY <1>5, <2>1
<1>6. CASE root # ZeroHash /\ ~find.found
  <2> DEFINE p == [siblings |-> IF d > SmtLevels THEN SubSeq(find.siblings, 1, SmtLevels)
                                ELSE Padded(find.siblings, SmtLevels),
                   old_key |-> parsed.not_found_key, old_value |-> parsed.not_found_value,
                   is_old0 |-> find.is_old0, root |-> root]
  <2>1. NonmembershipProofs(k) = {p}
    BY <1>3, <1>6 DEF NonmembershipProofs, ParseFindResult
  <2>2. /\ p.siblings = Padded(find.siblings, SmtLevels)
             \/ (d > SmtLevels /\ p.siblings = SubSeq(find.siblings, 1, SmtLevels))
        /\ p.root = root /\ (p.is_old0 <=> find.is_old0)
        /\ p.old_key = parsed.not_found_key /\ p.old_value = parsed.not_found_value
    OBVIOUS
  <2>3. ~find.is_old0 => parsed.not_found_key = LeafKey(find.end) /\ parsed.not_found_value = LeafValue(find.end)
    BY <1>6 DEF ParseFindResult
  <2> HIDE DEF p, parsed
  <2>4. ProofFor(Entries, contents, k, d, p, SmtLevels) /\ (d < SmtLevels => Len(p.siblings) = SmtLevels)
    BY <1>1, <1>2, <1>3, <2>2, ProofFromPath
  <2>5. (p.is_old0 \/ p.old_key # k)
        /\ (IF p.is_old0 THEN ZeroHash ELSE HashLeaf(p.old_key, p.old_value)) = SubTree(Entries, contents, k, d)
    <3>1. CASE find.is_old0
      BY <1>3, <2>2, <3>1
    <3>2. CASE ~find.is_old0
      <4>1. PICK x \in contents : x[1] # k /\ find.end = HashLeaf(x[1], x[2])
        BY <1>1, <1>2, <1>6, <3>2, OtherEnd
      <4>2. p.old_key = x[1] /\ p.old_value = x[2]
        BY <2>2, <2>3, <3>2, <4>1, Terms
      <4> QED BY <1>3, <2>2, <3>2, <4>1, <4>2
    <3> QED BY <3>1, <3>2
  <2>6. VerifierAccepts(k, p) <=> d < SmtLevels
    BY <2>4, <2>5, CircuitVerdict
  <2> QED BY <1>3, <1>6, <2>1, <2>6
<1> QED BY <1>4, <1>5, <1>6

-----------------------------------------------------------------------------
(* The prover's tree.                                                       *)

\* find_internal of the prover goes along the path, too.
LEMMA SmtDescentIs ==
  ASSUME NEW E, NEW C, Fits(E, C), NEW k \in Cube, smtRoot = SubTree(E, C, k, 0),
         Complete(E, C, smtDb), NEW d, EndsAt(C, k, d)
  PROVE  SmtDescent(k) = [l \in 1..(d + 1) |-> SubTree(E, C, k, l - 1)]
<1> DEFINE Body(g) == [l \in 0..Bits |->
                         IF l = 0 THEN smtRoot
                         ELSE IF IsInternal(g[l - 1]) THEN Child(GetNode(g[l - 1]), Bit(k, l - 1)) ELSE ZeroHash]
           at == PathOf(E, C, k)
           f == CHOOSE g : g = Body(g)
           P(g, e) == ~IsInternal(g[e]) /\ \A l \in 0..(e - 1) : IsInternal(g[l])
           depth(g) == CHOOSE e \in 0..Bits : P(g, e)
<1>1. SmtDescent(k) = [l \in 1..(depth(f) + 1) |-> f[l - 1]]
  BY DEF SmtDescent
<1>2. \A l \in 1..Bits : IsInternal(at[l - 1]) => GetNode(at[l - 1]) = at[l - 1]
  <2> SUFFICES ASSUME NEW l \in 1..Bits, IsInternal(at[l - 1]) PROVE GetNode(at[l - 1]) = at[l - 1]
    OBVIOUS
  <2>1. l - 1 \in 0..Bits
    BY BitsType
  <2>2. at[l - 1] # ZeroHash
    BY Terms
  <2>3. at[l - 1] = SubTree(E, C, k, l - 1)
    BY <2>1, <2>2 DEF PathOf
  <2>4. at[l - 1] \in smtDb
    BY <2>1, <2>2, <2>3 DEF Complete
  <2> HIDE DEF at
  <2> QED BY <2>2, <2>4 DEF GetNode
<1>3. at = Body(at)
  <2>1. \A l \in 0..Bits : at[l] = Body(at)[l]
    <3> TAKE l \in 0..Bits
    <3>1. CASE l = 0
      BY <3>1, PathFacts
    <3>2. CASE l # 0
      <4>1. l \in 1..Bits
        BY <3>2, BitsType
      <4>2. at[l] = IF IsInternal(at[l - 1]) THEN Child(at[l - 1], Bit(k, l - 1)) ELSE ZeroHash
        BY <4>1, PathFacts
      <4> HIDE DEF at
      <4> QED BY <1>2, <3>2, <4>1, <4>2
    <3> QED BY <3>1, <3>2
  <2>2. at = [l \in 0..Bits |-> at[l]]
    BY DEF PathOf
  <2>3. Body(at) = [l \in 0..Bits |-> Body(at)[l]]
    OBVIOUS
  <2> HIDE DEF at, Body
  <2> QED BY <2>1, <2>2, <2>3
<1>4. /\ at[d] = SubTree(E, C, k, d) /\ P(at, d)
      /\ \A e \in 0..Bits : P(at, e) => e = d
  BY PathEnd
<1>5. d \in 0..Bits /\ d \in Nat /\ Bits \in Nat
  BY BitsType DEF EndsAt
<1> HIDE DEF Body, P
<1>6. f = Body(f)
  BY <1>3
<1> HIDE DEF f
<1> DEFINE G == {l \in Nat : l \in 0..Bits => f[l] = at[l]}
<1>7. \A l \in 0..Bits : f[l] = Body(f)[l] /\ at[l] = Body(at)[l]
  BY <1>3, <1>6
<1>8. 0 \in G
  BY <1>7 DEF Body
<1>9. ASSUME NEW l \in Nat, l \in G PROVE l + 1 \in G
  <2> SUFFICES ASSUME l + 1 \in 0..Bits PROVE f[l + 1] = at[l + 1]
    OBVIOUS
  <2>1. l \in 0..Bits /\ (l + 1) - 1 = l /\ l + 1 # 0
    BY BitsType
  <2>2. f[l] = at[l]
    BY <1>9, <2>1
  <2>3. Body(f)[l + 1] = Body(at)[l + 1]
    BY <2>1, <2>2 DEF Body
  <2> QED BY <1>7, <2>3
<1> HIDE DEF G
<1>10. \A l \in 0..Bits : f[l] = at[l]
  <2>1. Nat \subseteq G
    BY <1>8, <1>9, Induct
  <2> QED BY <2>1, BitsType DEF G
<1>11. f = at
  <2>1. f = [l \in 0..Bits |-> f[l]] /\ at = [l \in 0..Bits |-> at[l]]
    BY <1>6 DEF Body, PathOf
  <2> HIDE DEF at
  <2> QED BY <1>10, <2>1
<1> HIDE DEF at
<1>12. depth(at) = d
  BY <1>4, <1>5
<1>13. SmtDescent(k) = [l \in 1..(d + 1) |-> at[l - 1]]
  BY <1>1, <1>11, <1>12
<1>14. \A l \in 1..(d + 1) : at[l - 1] = SubTree(E, C, k, l - 1)
  <2> TAKE l \in 1..(d + 1)
  <2>1. l - 1 = d \/ l - 1 \in 0..(d - 1)
    BY <1>5
  <2>2. CASE l - 1 = d
    BY <1>4, <2>2
  <2>3. CASE l - 1 \in 0..(d - 1)
    <3>1. IsInternal(at[l - 1]) /\ l - 1 \in 0..Bits
      BY <1>4, <1>5, <2>3 DEF P
    <3>2. at[l - 1] # ZeroHash
      BY <3>1, Terms
    <3> QED BY <3>1, <3>2 DEF at, PathOf
  <2> QED BY <2>1, <2>2, <2>3
<1> QED BY <1>13, <1>14

\* What find returns.
LEMMA SmtFindIs ==
  ASSUME NEW E, NEW C, Fits(E, C), NEW k \in Cube, smtRoot = SubTree(E, C, k, 0),
         Complete(E, C, smtDb), NEW d, EndsAt(C, k, d)
  PROVE  LET T == SubTree(E, C, k, d)
             find == SmtFind(k)
         IN  /\ SmtFindSucceeds(k)
             /\ find.found <=> \E x \in C : x[1] = k
             /\ find.siblings = SiblingsOf(E, C, k, d)
             /\ find.is_old0 <=> T = ZeroHash
             /\ find.found => /\ T = HashLeaf(k, find.found_value) /\ ~find.is_old0
                              /\ find.not_found_key = ZeroKey /\ find.not_found_value = 0
             /\ ~find.found /\ ~find.is_old0 =>
                  T = HashLeaf(find.not_found_key, find.not_found_value) /\ find.not_found_key # k
<1> DEFINE T == SubTree(E, C, k, d)
           find == SmtFind(k)
           path == SmtDescent(k)
<1>0. d \in 0..Bits /\ d \in Nat /\ Bits \in Nat
  BY BitsType DEF EndsAt
<1>1. path = [l \in 1..(d + 1) |-> SubTree(E, C, k, l - 1)]
  BY SmtDescentIs
<1>2. Len(path) = d + 1 /\ DOMAIN path = 1..(d + 1) /\ \A l \in 1..(d + 1) : path[l] = SubTree(E, C, k, l - 1)
  BY <1>0, <1>1
<1> HIDE DEF path
<1>3. SmtFindSucceeds(k)
  <2>1. \A l \in 1..(d + 1) : l - 1 \in 0..Bits
    BY <1>0
  <2>2. \A l \in DOMAIN path : Stored(path[l])
    BY <1>2, <2>1 DEF Stored, Complete
  <2>3. Len(path) <= MaxTreeDepth
    BY <1>0, <1>2 DEF MaxTreeDepth
  <2> QED BY <2>2, <2>3 DEF SmtFindSucceeds, path
<1>4. path[d + 1] = T /\ Len(path) - 1 = d
  BY <1>0, <1>2
<1>5. /\ find.found <=> T # ZeroHash /\ LeafKey(T) = k
      /\ find.siblings = [l \in 1..d |-> Other(path[l], Bit(k, l - 1))]
      /\ find.is_old0 <=> T = ZeroHash
      /\ find.found_value = IF T # ZeroHash /\ LeafKey(T) = k THEN LeafValue(T) ELSE 0
      /\ find.not_found_key = IF T = ZeroHash THEN k
                              ELSE IF T # ZeroHash /\ LeafKey(T) = k THEN ZeroKey ELSE LeafKey(T)
      /\ find.not_found_value = IF T = ZeroHash \/ (T # ZeroHash /\ LeafKey(T) = k) THEN 0 ELSE LeafValue(T)
  <2> HIDE DEF T
  <2> QED BY <1>4 DEF SmtFind, path
<1>6. /\ (IsLeaf(T) /\ LeafKey(T) = k) <=> \E x \in C : x[1] = k
      /\ T = ZeroHash \/ \E x \in C : T = HashLeaf(x[1], x[2])
  BY KeyAtEnd
<1>7. find.siblings = SiblingsOf(E, C, k, d)
  <2>1. \A l \in 1..d : Other(path[l], Bit(k, l - 1)) = SubTree(E, C, Flip(k, l), l)
    <3> TAKE l \in 1..d
    <3>1. l \in 1..(d + 1) /\ l - 1 \in 0..(d - 1) /\ l - 1 \in 0..Bits /\ (l - 1) + 1 = l /\ l \in 1..Bits
      BY <1>0
    <3>2. Many(Under(C, k, l - 1))
      BY <3>1 DEF EndsAt
    <3>3. SubTree(E, C, k, l - 1) = Join(k[l], SubTree(E, C, k, l), SubTree(E, C, Flip(k, l), l))
      BY <3>1, <3>2, SubTreeFacts
    <3>4. k[l] \in {0, 1} /\ Bit(k, l - 1) = k[l]
      BY <3>1 DEF Cube, Bit
    <3> QED BY <1>2, <3>1, <3>3, <3>4, JoinFacts
  <2> QED BY <1>5, <2>1 DEF SiblingsOf
<1> HIDE DEF T, find
<1>8. CASE T = ZeroHash
  <2>1. ~IsLeaf(T)
    BY <1>8, Terms
  <2> QED BY <1>3, <1>5, <1>6, <1>7, <1>8, <2>1 DEF T, find
<1>9. CASE T # ZeroHash
  <2>1. PICK x \in C : T = HashLeaf(x[1], x[2])
    BY <1>6, <1>9
  <2>2. IsLeaf(T) /\ LeafKey(T) = x[1] /\ LeafValue(T) = x[2]
    BY <2>1, Terms
  <2> QED BY <1>3, <1>5, <1>6, <1>7, <1>9, <2>1, <2>2 DEF T, find
<1> QED BY <1>8, <1>9

\* The loop that rebuilds the path.
RebuildLoop(q, leaf, siblings, n) ==
  CHOOSE g : g = [j \in 0..n |->
    IF j = 0 THEN [hash |-> leaf, db |-> PutNode(smtDb, leaf)]
    ELSE LET node == Join(Bit(q, n - j), g[j - 1].hash, siblings[n - j + 1])
         IN  [hash |-> node, db |-> PutNode(g[j - 1].db, node)]]

\* The loop, step by step.
LEMMA RebuildUnfold ==
  ASSUME NEW q, NEW leaf, NEW siblings, NEW n \in Nat
  PROVE  LET g == RebuildLoop(q, leaf, siblings, n)
         IN  /\ g[0].hash = leaf /\ g[0].db = PutNode(smtDb, leaf)
             /\ \A j \in 1..n : LET node == Join(q[n - j + 1], g[j - 1].hash, siblings[n - j + 1])
                                IN  g[j].hash = node /\ g[j].db = PutNode(g[j - 1].db, node)
<1> DEFINE Top(x, j) == Join(Bit(q, n - j), x.hash, siblings[n - j + 1])
           Step(g, j) == IF j = 0 THEN [hash |-> leaf, db |-> PutNode(smtDb, leaf)]
                         ELSE [hash |-> Top(g[j - 1], j), db |-> PutNode(g[j - 1].db, Top(g[j - 1], j))]
           Solves(m, g) == g = [j \in 0..m |-> Step(g, j)]
           N == {m \in Nat : \E g : Solves(m, g)}
<1>1. 0 \in N
  <2> DEFINE g == [j \in 0..0 |-> [hash |-> leaf, db |-> PutNode(smtDb, leaf)]]
  <2>1. \A j \in 0..0 : Step(g, j) = [hash |-> leaf, db |-> PutNode(smtDb, leaf)]
    OBVIOUS
  <2> HIDE DEF Step
  <2>2. Solves(0, g)
    BY <2>1
  <2> QED BY <2>2
<1>2. ASSUME NEW m \in Nat, m \in N PROVE m + 1 \in N
  <2>1. PICK g : Solves(m, g)
    BY <1>2
  <2> DEFINE h == [j \in 0..(m + 1) |-> Step(g, j)]
  <2>2. ASSUME NEW j \in 0..(m + 1) PROVE Step(g, j) = Step(h, j)
    <3>1. CASE j = 0
      BY <3>1
    <3>2. CASE j # 0
      <4>1. j - 1 \in 0..m /\ j - 1 \in 0..(m + 1)
        BY <3>2
      <4> HIDE DEF Step
      <4>2. g[j - 1] = Step(g, j - 1)
        BY <2>1, <4>1
      <4>3. h[j - 1] = g[j - 1]
        BY <4>1, <4>2
      <4> HIDE DEF h
      <4> USE DEF Step
      <4> QED BY <3>2, <4>3
    <3> QED BY <3>1, <3>2
  <2> HIDE DEF Step
  <2>3. Solves(m + 1, h)
    BY <2>2
  <2> HIDE DEF h, Solves
  <2> QED BY <2>3
<1> HIDE DEF N
<1>3. \E g : Solves(n, g)
  BY <1>1, <1>2, Induct DEF N
<1> DEFINE c == RebuildLoop(q, leaf, siblings, n)
<1>4. c = [j \in 0..n |-> Step(c, j)]
  BY <1>3 DEF RebuildLoop
<1> HIDE DEF c, Step
<1>5. \A j \in 0..n : c[j] = Step(c, j)
  BY <1>4
<1>6. c[0].hash = leaf /\ c[0].db = PutNode(smtDb, leaf)
  <2>1. c[0] = Step(c, 0)
    BY <1>5
  <2> QED BY <2>1 DEF Step
<1>7. \A j \in 1..n : LET node == Join(q[n - j + 1], c[j - 1].hash, siblings[n - j + 1])
                      IN  c[j].hash = node /\ c[j].db = PutNode(c[j - 1].db, node)
  <2> TAKE j \in 1..n
  <2>1. j \in 0..n /\ j # 0
    OBVIOUS
  <2>2. c[j] = Step(c, j)
    BY <1>5, <2>1
  <2>3. c[j] = [hash |-> Top(c[j - 1], j), db |-> PutNode(c[j - 1].db, Top(c[j - 1], j))]
    BY <2>1, <2>2 DEF Step
  <2>4. Top(c[j - 1], j) = Join(q[n - j + 1], c[j - 1].hash, siblings[n - j + 1])
    BY DEF Bit
  <2> HIDE DEF Top
  <2> QED BY <2>3, <2>4
<1> QED BY <1>6, <1>7 DEF c

\* The tree changes at q only, where it now has the entry of value v.
Becomes(E, C, C2, q, v, D) ==
  /\ Fits(E, C) /\ Fits(E, C2) /\ q \in Cube /\ Agree(C, C2, q)
  /\ EndsAt(C2, q, D) /\ Under(C2, q, D) = {<<q, v>>}

\* The rebuilt path makes the new tree, and all its nodes are stored.
LEMMA RebuiltFacts ==
  ASSUME NEW E, NEW C, NEW C2, NEW q, NEW v, NEW D, Becomes(E, C, C2, q, v, D),
         Complete(E, C, smtDb)
  PROVE  LET top == Rebuild(q, HashLeaf(q, v), SiblingsOf(E, C2, q, D))
         IN  top.hash = SubTree(E, C2, q, 0) /\ Complete(E, C2, top.db)
<1> DEFINE s == SiblingsOf(E, C2, q, D)
           leaf == HashLeaf(q, v)
           g == RebuildLoop(q, leaf, s, D)
<1>1. /\ Fits(E, C) /\ Fits(E, C2) /\ q \in Cube /\ Agree(C, C2, q) /\ EndsAt(C2, q, D)
      /\ D \in Nat /\ D \in 0..Bits /\ Bits \in Nat
  BY BitsType DEF Becomes, EndsAt
<1>2. leaf = SubTree(E, C2, q, D)
  <2> DEFINE e == <<q, v>>
  <2>1. e[1] = q /\ e[2] = v /\ Under(C2, q, D) = {e}
    BY DEF Becomes
  <2> HIDE DEF e
  <2>2. SubTree(E, C2, q, D) = HashLeaf(e[1], e[2])
    BY <1>1, <2>1, SubTreeFacts
  <2> QED BY <2>1, <2>2
<1>3. Len(s) = D /\ \A l \in 1..D : s[l] = SubTree(E, C2, Flip(q, l), l)
  BY <1>1, SiblingsFacts
<1>4. Rebuild(q, leaf, s) = g[D]
  BY <1>3 DEF Rebuild, RebuildLoop
<1>n. leaf # ZeroHash
  BY Terms
<1> HIDE DEF s, leaf
<1>5. /\ g[0].hash = leaf /\ g[0].db = PutNode(smtDb, leaf)
      /\ \A j \in 1..D : LET node == Join(q[D - j + 1], g[j - 1].hash, s[D - j + 1])
                         IN  g[j].hash = node /\ g[j].db = PutNode(g[j - 1].db, node)
  BY <1>1, RebuildUnfold
<1> HIDE DEF g
<1> DEFINE To(x, L) == /\ x.hash = SubTree(E, C2, q, L)
                       /\ \A l \in L..D : SubTree(E, C2, q, l) \in x.db
                       /\ smtDb \subseteq x.db
           G == {j \in Nat : j \in 0..D => To(g[j], D - j)}
<1>6. 0 \in G
  <2>1. D - 0 = D /\ \A l \in D..D : l = D
    BY <1>1
  <2> QED BY <1>2, <1>n, <1>5, <2>1 DEF PutNode
<1>7. ASSUME NEW j \in Nat, j \in G PROVE j + 1 \in G
  <2> SUFFICES ASSUME j + 1 \in 0..D PROVE To(g[j + 1], D - (j + 1))
    OBVIOUS
  <2> DEFINE i == D - (j + 1)
             node == SubTree(E, C2, q, i)
  <2>1. /\ j \in 0..D /\ j + 1 \in 1..D /\ (j + 1) - 1 = j /\ i \in 0..(D - 1) /\ D - j = i + 1
        /\ D - (j + 1) + 1 = i + 1 /\ i + 1 \in 1..D /\ i + 1 \in 1..Bits /\ i \in 0..Bits
    BY <1>1
  <2>2. To(g[j], i + 1)
    BY <1>7, <2>1
  <2> HIDE DEF i
  <2>3. Many(Under(C2, q, i))
    BY <1>1, <2>1 DEF EndsAt
  <2>4. node = Join(q[i + 1], SubTree(E, C2, q, i + 1), SubTree(E, C2, Flip(q, i + 1), i + 1))
    BY <1>1, <2>1, <2>3, SubTreeFacts
  <2>5. g[j + 1].hash = node /\ g[j + 1].db = PutNode(g[j].db, node)
    BY <1>3, <1>5, <2>1, <2>2, <2>4 DEF i
  <2>6. node # ZeroHash
    BY <1>1, <2>1, <2>3, Kinds, Sizes
  <2>7. g[j + 1].db = g[j].db \cup {node}
    BY <2>5, <2>6 DEF PutNode
  <2>8. \A l \in i..D : l = i \/ l \in (i + 1)..D
    BY <1>1, <2>1
  <2> QED BY <2>2, <2>5, <2>7, <2>8 DEF i
<1> HIDE DEF G
<1>8. D \in G
  BY <1>1, <1>6, <1>7, Induct
<1>9. To(g[D], 0)
  <2>1. D - D = 0 /\ D \in 0..D
    BY <1>1
  <2> QED BY <1>8, <2>1 DEF G
<1>10. Complete(E, C2, g[D].db)
  <2>1. ~Many(Under(C2, q, D))
    BY <1>1 DEF EndsAt
  <2>2. /\ \A k \in Cube : \A l \in 0..Bits : SubTree(E, C2, k, l) \in smtDb => SubTree(E, C2, k, l) \in g[D].db
        /\ \A l \in 0..D : SubTree(E, C2, q, l) # ZeroHash => SubTree(E, C2, q, l) \in g[D].db
    BY <1>9
  <2> QED BY <1>1, <2>1, <2>2, CompleteAfter
<1> QED BY <1>4, <1>9, <1>10 DEF s, leaf

\* Insertion and update.
LEMMA InsertBecomes ==
  ASSUME NEW E, NEW C, NEW q, NEW v, NEW d, Comes(E, C, q, v, d),
         NEW D, EndsAt(With(C, q, v), q, D), Under(With(C, q, v), q, D) = {<<q, v>>}
  PROVE  Becomes(E, C, With(C, q, v), q, v, D)
BY Grown DEF Becomes, Comes

\* An update keeps the path and changes the leaf.
LEMMA UpdateBecomes ==
  ASSUME NEW E, NEW C, NEW q, NEW e, NEW d, Goes(E, C, q, e, d), NEW v, <<q, v>> \in E
  PROVE  LET C2 == With(Without(C, q), q, v)
         IN  Becomes(E, C, C2, q, v, d) /\ SiblingsOf(E, C, q, d) = SiblingsOf(E, C2, q, d)
<1> DEFINE B == Without(C, q)
           C2 == With(B, q, v)
<1>1. Fits(E, C) /\ q \in Cube /\ e \in C /\ e[1] = q /\ EndsAt(C, q, d) /\ Fits(E, B)
  BY Shrunk DEF Goes
<1>2. d \in 0..Bits /\ d \in Nat /\ \A l \in 1..d : l \in 1..Bits
  BY <1>1, BitsType DEF EndsAt
<1>3. Fits(E, C2) /\ Agree(C, C2, q)
  <2> DEFINE w == <<q, v>>
  <2>1. w[1] = q /\ w \in E /\ C2 = B \cup {w}
    BY DEF With
  <2> HIDE DEF w, C2
  <2>2. \A x \in B : x[1] # q
    BY DEF Without
  <2>3. Fits(E, C2)
    <3> HIDE DEF B
    <3> QED BY <1>1, <2>1, <2>2 DEF Fits
  <2>4. Agree(C, C2, q)
    BY <2>1 DEF Agree, Without
  <2> QED BY <2>3, <2>4
<1>4. \A l : Under(B, q, l) = Under(C, q, l) \ {e}
  BY ShrunkUnder
<1>5. \A l : Under(C2, q, l) = Under(B, q, l) \cup {<<q, v>>}
  BY GrownUnder
<1>6. Under(C, q, d) = {e}
  BY EndOf
<1>7. \A x \in B : x[1] # q
  BY DEF Without
<1> HIDE DEF B, C2
<1>8. Under(C2, q, d) = {<<q, v>>}
  BY <1>4, <1>5, <1>6
<1>9. ~Many(Under(C2, q, d))
  BY <1>8 DEF Many
<1>10. ASSUME NEW l \in 0..(d - 1) PROVE Many(Under(C2, q, l))
  <2>1. PICK x, y \in Under(C, q, l) : x # y
    BY <1>1 DEF EndsAt, Many
  <2>2. PICK z \in Under(C, q, l) : z # e
    BY <2>1
  <2>3. z \in Under(B, q, l) /\ z \in Under(C2, q, l) /\ <<q, v>> \in Under(C2, q, l)
    BY <1>4, <1>5, <2>2
  <2>4. z \in B
    BY <2>3 DEF Under
  <2>5. z # <<q, v>>
    <3>1. <<q, v>>[1] = q
      OBVIOUS
    <3> QED BY <1>7, <2>4, <3>1
  <2> QED BY <2>3, <2>5 DEF Many
<1>11. EndsAt(C2, q, d)
  BY <1>2, <1>9, <1>10 DEF EndsAt
<1>12. SiblingsOf(E, C, q, d) = SiblingsOf(E, C2, q, d)
  <2>1. \A l \in 1..d : SubTree(E, C, Flip(q, l), l) = SubTree(E, C2, Flip(q, l), l)
    BY <1>1, <1>2, <1>3, BesidePath
  <2> QED BY <2>1 DEF SiblingsOf
<1>13. Becomes(E, C, C2, q, v, d)
  BY <1>1, <1>3, <1>8, <1>11 DEF Becomes
<1> QED BY <1>12, <1>13 DEF C2, B

\* The siblings of the path of a new key, found at level D where the old path
\* ended at level d.
Lengthens(E, C, q, v, d, D, empty) ==
  /\ Comes(E, C, q, v, d) /\ D \in d..Bits
  /\ EndsAt(With(C, q, v), q, D) /\ Under(With(C, q, v), q, D) = {<<q, v>>}
  /\ empty => D = d
  /\ ~empty => /\ D > d
               /\ \A l \in (d + 1)..(D - 1) : SubTree(E, With(C, q, v), Flip(q, l), l) = ZeroHash

\* What the prover's insert puts on the path are the siblings of the new one.
LEMMA SmtSiblingsAre ==
  ASSUME NEW E, NEW C, NEW q, NEW v, NEW d, Comes(E, C, q, v, d),
         smtRoot = SubTree(E, C, q, 0), Complete(E, C, smtDb)
  PROVE  \E D : /\ Lengthens(E, C, q, v, d, D, SmtFind(q).is_old0)
                /\ SmtSiblings(q, SmtFind(q)) = SiblingsOf(E, With(C, q, v), q, D)
<1> DEFINE C2 == With(C, q, v)
           find == SmtFind(q)
           T == SubTree(E, C, q, d)
<1>0. Fits(E, C) /\ q \in Cube /\ EndsAt(C, q, d) /\ d \in 0..Bits /\ d \in Nat /\ (\A x \in C : x[1] # q)
  BY BitsType DEF Comes, EndsAt
<1>1. /\ find.siblings = SiblingsOf(E, C, q, d) /\ (find.is_old0 <=> T = ZeroHash)
      /\ ~find.is_old0 => T = HashLeaf(find.not_found_key, find.not_found_value)
  BY <1>0, SmtFindIs
<1>2. Agree(C, C2, q)
  BY Grown
<1>3. \A l \in 1..Bits : SubTree(E, C, Flip(q, l), l) = SubTree(E, C2, Flip(q, l), l)
  BY <1>0, <1>2, BesidePath
<1>4. CASE find.is_old0
  <2>0. Under(C, q, d) = {}
    BY <1>0, <1>1, <1>4, Kinds
  <2>1. EndsAt(C2, q, d) /\ Under(C2, q, d) = {<<q, v>>}
    BY <2>0, GrownAlone
  <2>2. SmtSiblings(q, find) = find.siblings
    BY <1>4 DEF SmtSiblings
  <2>3. \A l \in 1..d : l \in 1..Bits
    BY <1>0, BitsType
  <2>4. SiblingsOf(E, C, q, d) = SiblingsOf(E, C2, q, d)
    BY <1>3, <2>3 DEF SiblingsOf
  <2>5. d \in d..Bits
    BY <1>0
  <2> HIDE DEF find, C2
  <2>6. Lengthens(E, C, q, v, d, d, find.is_old0)
    BY <1>4, <2>1, <2>5 DEF Lengthens, C2
  <2> QED BY <1>1, <2>2, <2>4, <2>6 DEF find, C2
<1>5. CASE ~find.is_old0
  <2>1. PICK o : Under(C, q, d) = {o} /\ T = HashLeaf(o[1], o[2])
    BY <1>0, <1>1, <1>5, KeyAtEnd
  <2>c. Collides(E, C, q, v, d, o)
    BY <2>1 DEF Collides
  <2> DEFINE c == CommonPrefix(q, o[1])
             leaf == HashLeaf(o[1], o[2])
  <2>2. find.not_found_key = o[1] /\ find.not_found_value = o[2]
    <3>1. HashLeaf(o[1], o[2]) = HashLeaf(find.not_found_key, find.not_found_value)
      BY <1>1, <1>5, <2>1
    <3> HIDE DEF find
    <3> QED BY <3>1, SameLeaf
  <2>4. Len(find.siblings) = d
    BY <1>0, <1>1, SiblingsFacts
  <2>5. SmtSiblings(q, find) = Stretched(SiblingsOf(E, C, q, d), c - d, leaf)
    BY <1>1, <1>5, <2>2, <2>4 DEF SmtSiblings, Stretched
  <2>6. SmtSiblings(q, find) = SiblingsOf(E, C2, q, c + 1)
    BY <2>c, <2>5, Lengthened
  <2>7. /\ c \in d..(Bits - 1) /\ EndsAt(C2, q, c + 1) /\ Under(C2, q, c + 1) = {<<q, v>>}
        /\ \A l \in (d + 1)..c : SubTree(E, C, Flip(q, l), l) = ZeroHash
    BY <2>c, GrownBeside
  <2> HIDE DEF c, find, C2
  <2>8. c + 1 \in d..Bits /\ c + 1 > d /\ (c + 1) - 1 = c /\ \A l \in (d + 1)..c : l \in 1..Bits
    BY <1>0, <2>7, BitsType
  <2>9. \A l \in (d + 1)..((c + 1) - 1) : SubTree(E, C2, Flip(q, l), l) = ZeroHash
    BY <1>3, <2>7, <2>8
  <2>10. Lengthens(E, C, q, v, d, c + 1, find.is_old0)
    BY <1>5, <2>7, <2>8, <2>9 DEF Lengthens, C2
  <2> QED BY <2>6, <2>10 DEF find, C2
<1> QED BY <1>4, <1>5

\* The siblings insert returns are those of the old path, and zeros.
LEMMA ResultIsPath ==
  ASSUME NEW E, NEW C, NEW q, NEW v, NEW d, NEW D, NEW find,
         Lengthens(E, C, q, v, d, D, find.is_old0)
  PROVE  LET u == ResultSiblings(SiblingsOf(E, With(C, q, v), q, D), find)
         IN  Len(Trimmed(u)) = d /\ Along(E, C, q, d, Trimmed(u))
<1> DEFINE C2 == With(C, q, v)
           w == SiblingsOf(E, C2, q, D)
           t == Trimmed(w)
           u == ResultSiblings(w, find)
<1>1. /\ Comes(E, C, q, v, d) /\ D \in d..Bits /\ EndsAt(C2, q, D) /\ (find.is_old0 => D = d)
      /\ ~find.is_old0 => D > d /\ \A l \in (d + 1)..(D - 1) : SubTree(E, C2, Flip(q, l), l) = ZeroHash
  BY DEF Lengthens
<1>2. Fits(E, C) /\ q \in Cube /\ EndsAt(C, q, d) /\ d \in 0..Bits /\ d \in Nat /\ D \in Nat /\ Bits \in Nat
  BY <1>1, BitsType DEF Comes, EndsAt
<1>3. Agree(C, C2, q) /\ Fits(E, C2)
  BY <1>1, Grown
<1>4. \A l \in 1..Bits : SubTree(E, C, Flip(q, l), l) = SubTree(E, C2, Flip(q, l), l)
  BY <1>2, <1>3, BesidePath
<1> HIDE DEF C2
<1>5. PICK S : ZeroHash \in S /\ w \in Seq(S)
  BY <1>2, SiblingsSeq
<1>6. Len(w) = D /\ \A l \in 1..D : w[l] = SubTree(E, C2, Flip(q, l), l)
  BY <1>2, SiblingsFacts
<1> HIDE DEF w
<1>7. t \in Seq(S)
  BY <1>5, TrimmedFacts
<1>8. Len(t) = D /\ \A l \in 1..D : t[l] = SubTree(E, C2, Flip(q, l), l)
  <2>1. D <= Len(w) /\ \A l \in (D + 1)..Len(w) : w[l] = ZeroHash
    BY <1>2, <1>6
  <2> QED BY <1>1, <1>2, <1>3, <1>5, <1>6, <2>1, TrimIsPath
<1>u. u = IF ~find.is_old0 /\ t # <<>> THEN SubSeq(t, 1, Len(t) - 1) ELSE t
  BY DEF ResultSiblings
<1> HIDE DEF t, u
<1>9. /\ u \in Seq(S) /\ d <= Len(u) /\ (\A l \in 1..d : u[l] = SubTree(E, C, Flip(q, l), l))
      /\ \A l \in (d + 1)..Len(u) : u[l] = ZeroHash
  <2>1. CASE find.is_old0
    <3>1. u = t /\ D = d /\ \A l \in 1..d : l \in 1..Bits
      BY <1>1, <1>2, <1>u, <2>1
    <3> QED BY <1>2, <1>4, <1>7, <1>8, <3>1
  <2>2. CASE ~find.is_old0
    <3>1. D > d /\ D # 0 /\ D - 1 \in Nat /\ d <= D - 1 /\ \A l \in 1..d : l \in 1..Bits /\ l \in 1..(D - 1)
      BY <1>1, <1>2, <2>2
    <3>2. t # <<>>
      BY <1>8, <3>1
    <3>3. u = SubSeq(t, 1, D - 1)
      BY <1>8, <1>u, <2>2, <3>2
    <3>4. u \in Seq(S) /\ Len(u) = D - 1 /\ \A l \in 1..(D - 1) : u[l] = t[l]
      BY <1>2, <1>7, <1>8, <3>1, <3>3
    <3>5. \A l \in (d + 1)..(D - 1) : l \in 1..(D - 1)
      BY <1>2, <3>1
    <3>6. \A l \in 1..(D - 1) : l \in 1..D
      BY <1>2
    <3> QED BY <1>1, <1>4, <1>8, <2>2, <3>1, <3>4, <3>5, <3>6
  <2> QED BY <2>1, <2>2
<1>10. Len(Trimmed(u)) = d /\ \A l \in 1..d : Trimmed(u)[l] = SubTree(E, C, Flip(q, l), l)
  BY <1>2, <1>9, TrimIsPath
<1>11. Along(E, C, q, d, Trimmed(u))
  <2>1. d \in 0..d
    BY <1>2
  <2> QED BY <1>2, <1>10, <2>1, AlongPart
<1> QED BY <1>10, <1>11 DEF u, w, C2

\* From the end of a path its siblings prove the root.
LEMMA ProvesRoot ==
  ASSUME NEW E, NEW C, NEW k, NEW d, NEW s, Len(s) = d, Along(E, C, k, d, s)
  PROVE  RootFromProof(k, SubTree(E, C, k, d), s) = SubTree(E, C, k, 0)
<1>1. RootFromProof(k, SubTree(E, C, k, d), s) = Climbed(k, SubTree(E, C, k, d), s, d)[d]
  BY ClimbsAre
<1> QED BY <1>1, ClimbIsPath

\* What the prover's tree may hold.
SmtEntries == Keys \X SmtValues

\* The prover's tree is the canonical one too, with all its nodes, and the
\* last result proves what was changed.
SmtInv ==
  /\ Fits(SmtEntries, smtContents)
  /\ SmtRootCanonical
  /\ Complete(SmtEntries, smtContents, smtDb)
  /\ ResultProvesChange

\* The entries of the prover's tree have keys of Bits bits.
LEMMA SmtEntriesAre == IsEntries(SmtEntries)
BY KeysAssumption DEF IsEntries, SmtEntries, Cube

\* r is a result that proves its change.
Proves(r) ==
  LET old == IF r.is_old0 THEN ZeroHash ELSE HashLeaf(r.old_key, r.old_value)
  IN  /\ RootFromProof(r.new_key, old, Trimmed(r.siblings)) = r.old_root
      /\ r.op = "update" =>
           RootFromProof(r.new_key, HashLeaf(r.new_key, r.new_value), r.siblings) = r.new_root

\* An insertion keeps it.
LEMMA SmtInsertStep ==
  ASSUME SmtInv, NEW q \in Keys, NEW v \in SmtValues, SmtInsert(q, v)
  PROVE  SmtInv'
<1> DEFINE E == SmtEntries
           C == smtContents
           C2 == With(C, q, v)
           find == SmtFind(q)
           sibs == SmtSiblings(q, find)
           top == Rebuild(q, HashLeaf(q, v), sibs)
           res == [op |-> "insert", old_root |-> smtRoot, new_root |-> top.hash,
                   siblings |-> ResultSiblings(sibs, find),
                   old_key |-> find.not_found_key, old_value |-> find.not_found_value,
                   new_key |-> q, new_value |-> v, is_old0 |-> find.is_old0]
<1>1. /\ ~find.found /\ smtRoot' = top.hash /\ smtDb' = top.db /\ smtContents' = C2 /\ smtResult' = res
  BY DEF SmtInsert, With
<1>2. Fits(E, C) /\ smtRoot = CanonicalTree(E, C) /\ Complete(E, C, smtDb)
  BY DEF SmtInv, SmtRootCanonical, SmtEntries
<1>3. q \in Cube /\ <<q, v>> \in E
  BY KeysAre DEF SmtEntries
<1>f. /\ res.op = "insert" /\ res.old_root = smtRoot /\ res.siblings = ResultSiblings(sibs, find)
      /\ res.old_key = find.not_found_key /\ res.old_value = find.not_found_value
      /\ res.new_key = q /\ res.is_old0 = find.is_old0
  OBVIOUS
<1> HIDE DEF E, C, C2, find, sibs, top, res
<1>4. smtRoot = SubTree(E, C, q, 0)
  BY <1>2, <1>3, WholeTree
<1>5. PICK d : EndsAt(C, q, d)
  BY <1>2, <1>3, EndExists
<1>6. /\ (find.found <=> \E x \in C : x[1] = q) /\ (find.is_old0 <=> SubTree(E, C, q, d) = ZeroHash)
      /\ ~find.found /\ ~find.is_old0 => SubTree(E, C, q, d) = HashLeaf(find.not_found_key, find.not_found_value)
  BY <1>2, <1>3, <1>4, <1>5, SmtFindIs DEF find
<1>7. Comes(E, C, q, v, d)
  BY <1>1, <1>2, <1>3, <1>5, <1>6 DEF Comes
<1>8. PICK D : Lengthens(E, C, q, v, d, D, find.is_old0) /\ sibs = SiblingsOf(E, C2, q, D)
  BY <1>2, <1>4, <1>7, SmtSiblingsAre DEF find, sibs, C2
<1>9. Becomes(E, C, C2, q, v, D)
  <2>1. EndsAt(C2, q, D) /\ Under(C2, q, D) = {<<q, v>>}
    BY <1>8 DEF Lengthens, C2
  <2> QED BY <1>7, <2>1, InsertBecomes DEF C2
<1>10. top.hash = SubTree(E, C2, q, 0) /\ Complete(E, C2, top.db)
  BY <1>2, <1>8, <1>9, RebuiltFacts DEF top
<1>11. Fits(E, C2)
  BY <1>9 DEF Becomes
<1>12. smtRoot' = CanonicalTree(E, C2)
  BY <1>1, <1>3, <1>10, <1>11, WholeTree
<1>13. Proves(res)
  <2> DEFINE u == ResultSiblings(sibs, find)
  <2>1. Len(Trimmed(u)) = d /\ Along(E, C, q, d, Trimmed(u))
    BY <1>8, ResultIsPath DEF C2
  <2> HIDE DEF u
  <2>2. RootFromProof(q, SubTree(E, C, q, d), Trimmed(u)) = SubTree(E, C, q, 0)
    BY <2>1, ProvesRoot
  <2>3. (IF find.is_old0 THEN ZeroHash ELSE HashLeaf(find.not_found_key, find.not_found_value)) = SubTree(E, C, q, d)
    BY <1>1, <1>6
  <2>4. (IF res.is_old0 THEN ZeroHash ELSE HashLeaf(res.old_key, res.old_value)) = SubTree(E, C, q, d)
    BY <1>f, <2>3
  <2>5. RootFromProof(res.new_key, SubTree(E, C, q, d), Trimmed(res.siblings)) = res.old_root
    BY <1>4, <1>f, <2>2 DEF u
  <2>6. res.op # "update"
    BY <1>f
  <2> QED BY <2>4, <2>5, <2>6 DEF Proves
<1>14. ResultProvesChange'
  BY <1>1, <1>13 DEF ResultProvesChange, Proves
<1>15. Fits(SmtEntries, smtContents)' /\ Complete(SmtEntries, smtContents, smtDb)' /\ SmtRootCanonical'
  BY <1>1, <1>10, <1>11, <1>12 DEF E, SmtEntries, SmtRootCanonical
<1> QED BY <1>14, <1>15 DEF SmtInv

\* An update keeps it.
LEMMA SmtUpdateStep ==
  ASSUME SmtInv, NEW q \in Keys, NEW v \in SmtValues, SmtUpdate(q, v)
  PROVE  SmtInv'
<1> DEFINE E == SmtEntries
           C == smtContents
           C2 == With(Without(C, q), q, v)
           find == SmtFind(q)
           sibs == find.siblings
           top == Rebuild(q, HashLeaf(q, v), sibs)
           res == [op |-> "update", old_root |-> smtRoot, new_root |-> top.hash,
                   siblings |-> sibs,
                   old_key |-> q, old_value |-> find.found_value,
                   new_key |-> q, new_value |-> v, is_old0 |-> FALSE]
<1>1. /\ find.found /\ smtRoot' = top.hash /\ smtDb' = top.db /\ smtContents' = C2 /\ smtResult' = res
  BY DEF SmtUpdate, With, Without
<1>2. Fits(E, C) /\ smtRoot = CanonicalTree(E, C) /\ Complete(E, C, smtDb)
  BY DEF SmtInv, SmtRootCanonical, SmtEntries
<1>3. q \in Cube /\ <<q, v>> \in E
  BY KeysAre DEF SmtEntries
<1>f. /\ res.op = "update" /\ res.old_root = smtRoot /\ res.new_root = top.hash /\ res.siblings = sibs
      /\ res.old_key = q /\ res.old_value = find.found_value
      /\ res.new_key = q /\ res.new_value = v /\ res.is_old0 = FALSE
  OBVIOUS
<1> HIDE DEF E, C, C2, find, sibs, top, res
<1>4. smtRoot = SubTree(E, C, q, 0)
  BY <1>2, <1>3, WholeTree
<1>5. PICK d : EndsAt(C, q, d)
  BY <1>2, <1>3, EndExists
<1>6. /\ (find.found <=> \E x \in C : x[1] = q) /\ sibs = SiblingsOf(E, C, q, d)
      /\ find.found => SubTree(E, C, q, d) = HashLeaf(q, find.found_value)
  BY <1>2, <1>3, <1>4, <1>5, SmtFindIs DEF find, sibs
<1>7. PICK e \in C : e[1] = q
  BY <1>1, <1>6
<1>8. Goes(E, C, q, e, d)
  BY <1>2, <1>3, <1>5, <1>7 DEF Goes
<1>9. Becomes(E, C, C2, q, v, d) /\ sibs = SiblingsOf(E, C2, q, d)
  BY <1>3, <1>6, <1>8, UpdateBecomes DEF C2
<1>10. top.hash = SubTree(E, C2, q, 0) /\ Complete(E, C2, top.db)
  BY <1>2, <1>9, RebuiltFacts DEF top
<1>11. Fits(E, C2) /\ EndsAt(C2, q, d)
  BY <1>9 DEF Becomes
<1>12. smtRoot' = CanonicalTree(E, C2)
  BY <1>1, <1>3, <1>10, <1>11, WholeTree
<1>n. d \in Nat /\ d \in 0..d
  BY <1>5, BitsType DEF EndsAt
<1>s. PICK S : ZeroHash \in S /\ sibs \in Seq(S)
  BY <1>6, <1>n, SiblingsSeq
<1>l. Len(sibs) = d /\ \A l \in 1..d : sibs[l] = SubTree(E, C, Flip(q, l), l)
  BY <1>6, <1>n, SiblingsFacts
<1>13. RootFromProof(q, HashLeaf(q, find.found_value), Trimmed(sibs)) = smtRoot
  <2>1. d <= Len(sibs) /\ \A l \in (d + 1)..Len(sibs) : sibs[l] = ZeroHash
    BY <1>l, <1>n
  <2>2. Len(Trimmed(sibs)) = d /\ \A l \in 1..d : Trimmed(sibs)[l] = SubTree(E, C, Flip(q, l), l)
    BY <1>2, <1>3, <1>5, <1>l, <1>s, <2>1, TrimIsPath
  <2>3. Along(E, C, q, d, Trimmed(sibs))
    BY <1>2, <1>3, <1>5, <1>n, <2>2, AlongPart
  <2>4. RootFromProof(q, SubTree(E, C, q, d), Trimmed(sibs)) = SubTree(E, C, q, 0)
    BY <2>2, <2>3, ProvesRoot
  <2> QED BY <1>1, <1>4, <1>6, <2>4
<1>14. RootFromProof(q, HashLeaf(q, v), sibs) = top.hash
  <2>1. \A l \in 1..d : sibs[l] = SubTree(E, C2, Flip(q, l), l)
    BY <1>9, <1>n, SiblingsFacts
  <2>2. Along(E, C2, q, d, sibs)
    BY <1>3, <1>11, <1>n, <2>1, AlongPart
  <2>3. RootFromProof(q, SubTree(E, C2, q, d), sibs) = SubTree(E, C2, q, 0)
    BY <1>l, <2>2, ProvesRoot
  <2>4. SubTree(E, C2, q, d) = HashLeaf(q, v)
    <3> DEFINE w == <<q, v>>
    <3>1. w[1] = q /\ w[2] = v /\ Under(C2, q, d) = {w}
      BY <1>9 DEF Becomes
    <3> HIDE DEF w
    <3>2. d \in 0..Bits
      BY <1>5 DEF EndsAt
    <3>3. SubTree(E, C2, q, d) = HashLeaf(w[1], w[2])
      BY <1>3, <1>11, <3>1, <3>2, SubTreeFacts
    <3> QED BY <3>1, <3>3
  <2> QED BY <1>10, <2>3, <2>4
<1>15. Proves(res)
  BY <1>13, <1>14, <1>f DEF Proves
<1>16. ResultProvesChange'
  BY <1>1, <1>15 DEF ResultProvesChange, Proves
<1>17. Fits(SmtEntries, smtContents)' /\ Complete(SmtEntries, smtContents, smtDb)' /\ SmtRootCanonical'
  BY <1>1, <1>10, <1>11, <1>12 DEF E, SmtEntries, SmtRootCanonical
<1> QED BY <1>16, <1>17 DEF SmtInv

\* The invariant of the prover's tree holds always.
LEMMA SmtHolds == SmtSpec => []SmtInv
<1>1. SmtInit => SmtInv
  <2> SUFFICES ASSUME SmtInit PROVE SmtInv
    OBVIOUS
  <2>1. smtRoot = ZeroHash /\ smtContents = {} /\ smtResult.op = "none"
    BY DEF SmtInit, NoSmtResult
  <2>2. ResultProvesChange
    BY <2>1 DEF ResultProvesChange
  <2> QED BY <2>1, <2>2, SmtEntriesAre, EmptySparseTree DEF SmtInv, SmtRootCanonical, SmtEntries
<1>2. SmtInv /\ [SmtNext]_smtVars => SmtInv'
  <2> SUFFICES ASSUME SmtInv, [SmtNext]_smtVars PROVE SmtInv'
    OBVIOUS
  <2>1. CASE UNCHANGED smtVars
    BY <2>1 DEF smtVars, SmtInv, SmtRootCanonical, ResultProvesChange, SmtEntries
  <2>2. CASE SmtNext
    BY <2>2, SmtInsertStep, SmtUpdateStep DEF SmtNext
  <2> QED BY <2>1, <2>2
<1> QED BY <1>1, <1>2, PTL DEF SmtSpec

\* With it every lookup succeeds.
LEMMA SmtLookups == SmtInv => SmtRootCanonical /\ SmtComplete /\ ResultProvesChange
<1> SUFFICES ASSUME SmtInv PROVE SmtComplete
  BY DEF SmtInv
<1>0. Fits(SmtEntries, smtContents) /\ smtRoot = CanonicalTree(SmtEntries, smtContents)
      /\ Complete(SmtEntries, smtContents, smtDb)
  BY DEF SmtInv, SmtRootCanonical, SmtEntries
<1>1. ASSUME NEW k \in Cube PROVE SmtFindSucceeds(k)
  <2>1. PICK d : EndsAt(smtContents, k, d)
    BY <1>0, EndExists
  <2>2. smtRoot = SubTree(SmtEntries, smtContents, k, 0)
    BY <1>0, WholeTree
  <2> QED BY <1>0, <2>1, <2>2, SmtFindIs
<1> QED BY <1>1 DEF SmtComplete, Cube

\* The circuit on the proof taken from the prover's own tree.
LEMMA ProverCircuit ==
  ASSUME SmtInv, NEW k \in Keys
  PROVE  VerifierAccepts(k, GetProof(k, SmtLevels)) <=>
           (~SmtFind(k).found /\ Len(SmtFind(k).siblings) < SmtLevels)
<1> DEFINE E == SmtEntries
           C == smtContents
           find == SmtFind(k)
           p == GetProof(k, SmtLevels)
<1>1. k \in Cube /\ Fits(E, C) /\ smtRoot = CanonicalTree(E, C) /\ Complete(E, C, smtDb)
  BY KeysAre DEF SmtInv, SmtRootCanonical, SmtEntries
<1>p. /\ p.siblings = Padded(find.siblings, SmtLevels) /\ p.root = smtRoot /\ p.is_old0 = find.is_old0
      /\ p.old_key = find.not_found_key /\ p.old_value = find.not_found_value
  BY DEF GetProof
<1> HIDE DEF E, C, find, p
<1>2. PICK d : EndsAt(C, k, d)
  BY <1>1, EndExists
<1>n. d \in Nat
  BY <1>2, BitsType DEF EndsAt
<1>3. smtRoot = SubTree(E, C, k, 0)
  BY <1>1, WholeTree
<1> DEFINE T == SubTree(E, C, k, d)
<1>4. /\ find.siblings = SiblingsOf(E, C, k, d)
      /\ find.is_old0 <=> T = ZeroHash
      /\ find.found => T = HashLeaf(k, find.found_value) /\ ~find.is_old0
      /\ ~find.found /\ ~find.is_old0 =>
           T = HashLeaf(find.not_found_key, find.not_found_value) /\ find.not_found_key # k
  BY <1>1, <1>2, <1>3, SmtFindIs DEF find
<1>5. Len(find.siblings) = d
  BY <1>4, <1>n, SiblingsFacts
<1>6. ProofFor(E, C, k, d, p, SmtLevels) /\ (d < SmtLevels => Len(p.siblings) = SmtLevels)
  BY <1>1, <1>2, <1>3, <1>4, <1>p, ProofFromPath
<1> DEFINE claimed == IF p.is_old0 THEN ZeroHash ELSE HashLeaf(p.old_key, p.old_value)
<1>7. VerifierAccepts(k, p) <=>
        d < SmtLevels /\ Len(p.siblings) = SmtLevels /\ (p.is_old0 \/ p.old_key # k) /\ claimed = T
  BY <1>6, CircuitVerdict
<1>8. CASE find.found
  <2>1. ~VerifierAccepts(k, p)
    <3> SUFFICES ASSUME VerifierAccepts(k, p) PROVE FALSE
      OBVIOUS
    <3>1. HashLeaf(p.old_key, p.old_value) = HashLeaf(k, find.found_value) /\ p.old_key # k
      BY <1>4, <1>7, <1>8, <1>p
    <3> QED BY <3>1, SameLeaf
  <2> QED BY <1>8, <2>1 DEF p, find
<1>9. CASE ~find.found
  <2>1. (p.is_old0 \/ p.old_key # k) /\ claimed = T
    BY <1>4, <1>9, <1>p
  <2> HIDE DEF claimed, T
  <2>2. VerifierAccepts(k, p) <=> d < SmtLevels
    BY <1>6, <1>7, <2>1
  <2> QED BY <1>5, <1>9, <2>2 DEF p, find
<1> QED BY <1>8, <1>9

-----------------------------------------------------------------------------
(* Both trees.                                                             *)

\* Whatever was inserted, deleted and updated, in whatever order, the roots of
\* insert_leaf and delete_leaf of the contract and of insert and update of the
\* prover are those of the one tree of the contents, no node it needs is
\* missing, and the prover's results lead to the old and the new root.
THEOREM SparseTreesHold == ExclusionSpec /\ SmtSpec => []SparseTreesAgree
<1>1. ExclusionInv /\ SmtInv => SparseTreesAgree
  BY ExclusionComplete, SmtLookups DEF SparseTreesAgree
<1> QED BY <1>1, ExclusionHolds, SmtHolds, PTL

\* verify_non_membership and the circuit decide for every key whether it is
\* blocked, on the proofs that find_key and get_proof give, and no part of a
\* blocked key's path is a proof of its absence.
THEOREM ExclusionIsDecided == ExclusionSpec /\ SmtSpec => []ExclusionDecided
<1>1. ExclusionInv /\ SmtInv => CircuitDecides
  BY ContractCircuit, ProverCircuit DEF CircuitDecides
<1>2. ExclusionInv /\ SmtInv => ExclusionDecided
  BY <1>1, ContractDecides, NeverExcluded DEF ExclusionDecided
<1> QED BY <1>2, ExclusionHolds, SmtHolds, PTL

-----------------------------------------------------------------------------
(* The prediction market.                                                  *)

\* A floor reaches a whole number exactly when the quotient does.
LEMMA FloorReaches ==
    ASSUME NEW a \in Nat, NEW d \in Nat \ {0}, NEW t \in Nat
    PROVE  (a \div d >= t) <=> (a >= t * d)
<1> DEFINE q == a \div d
           r == a % d
<1>1. q \in Nat /\ r \in Nat /\ r < d /\ a = d * q + r
  OBVIOUS
<1> HIDE DEF q, r
<1>2. ASSUME q >= t PROVE a >= t * d
  <2>1. q * d >= t * d
    BY <1>1, <1>2
  <2>2. q * d = d * q
    BY <1>1
  <2>3. t * d \in Nat /\ q * d \in Nat
    BY <1>1
  <2> QED
    BY <1>1, <2>1, <2>2, <2>3
<1>3. ASSUME ~(q >= t) PROVE ~(a >= t * d)
  <2>1. q + 1 <= t
    BY <1>1, <1>3
  <2>2. (q + 1) * d <= t * d
    BY <1>1, <2>1
  <2>3. (q + 1) * d = d * q + d
    BY <1>1
  <2>4. t * d \in Nat /\ d * q \in Nat
    BY <1>1
  <2> QED
    BY <1>1, <2>2, <2>3, <2>4
<1> QED
  BY <1>2, <1>3 DEF q

\* The decision that Resolve takes is the exact one.
LEMMA DecisionIsExact ==
    ASSUME NEW yes \in Tallies, NEW no \in Tallies, NEW voters \in Tallies,
           NEW threshold \in {30, 50, 51}, PctFits(Minority(yes, no))
    PROVE  (Pct(Minority(yes, no), voters) >= threshold) <=>
             (Minority(yes, no) * 100 >= threshold * (IF voters = 0 THEN 1 ELSE voters))
<1> DEFINE m == Minority(yes, no)
           d == IF voters = 0 THEN 1 ELSE voters
<1>1. U32Max \in Nat /\ m \in Nat /\ d \in Nat \ {0} /\ threshold \in Nat
  BY MarketAssumption DEF Minority
<1>2. m * 100 <= U32Max
  BY DEF PctFits
<1> HIDE DEF m, d
<1>3. m * 100 \in Nat
  BY <1>1
<1>4. (m * 100) % (U32Max + 1) = m * 100
  BY <1>1, <1>2, <1>3
<1>5. Pct(m, voters) = (m * 100) \div d
  BY <1>4 DEF Pct, d
<1>6. ((m * 100) \div d >= threshold) <=> (m * 100 >= threshold * d)
  BY <1>1, <1>3, FloorReaches
<1>7. (Pct(m, voters) >= threshold) <=> (m * 100 >= threshold * d)
  BY <1>5, <1>6
<1> QED
  BY <1>7 DEF m, d

\* The decision of the prediction market is the exact comparison of the
\* minority's share with the threshold, for every tally: the truncated
\* percentage of resolve and its 32-bit product never change it.
THEOREM MarketDecidesExactly == MarketSpec => []MinorityDecided
<1>1. MarketInit => MinorityDecided
  BY DEF MarketInit, MinorityDecided, NoResult
<1>2. MinorityDecided /\ [MarketNext]_marketVars => MinorityDecided'
  <2> SUFFICES ASSUME MinorityDecided, [MarketNext]_marketVars PROVE MinorityDecided'
    OBVIOUS
  <2>1. CASE UNCHANGED marketResult
    BY <2>1 DEF MinorityDecided
  <2>2. ASSUME NEW yes \in Tallies, NEW no \in Tallies, NEW voters \in Tallies,
               NEW threshold \in {30, 50, 51}, Resolve(yes, no, voters, threshold)
        PROVE  MinorityDecided'
    <3> DEFINE wins == Pct(Minority(yes, no), voters) >= threshold
    <3>1. wins <=> (Minority(yes, no) * 100 >= threshold * (IF voters = 0 THEN 1 ELSE voters))
      BY <2>2, DecisionIsExact DEF Resolve
    <3>2. marketResult' = [yes |-> yes, no |-> no, voters |-> voters, threshold |-> threshold,
                           minorityWins |-> wins, set |-> TRUE]
      BY <2>2 DEF Resolve
    <3> HIDE DEF wins
    <3>3. /\ marketResult'.yes = yes /\ marketResult'.no = no
          /\ marketResult'.voters = voters /\ marketResult'.threshold = threshold
          /\ marketResult'.minorityWins = wins
      BY <3>2
    <3> QED
      BY <3>1, <3>3, Zenon DEF MinorityDecided
  <2> QED
    BY <2>1, <2>2 DEF MarketNext, marketVars, Initialize, SubmitVote, RefuseVote, CloseMarket
<1> QED
  BY <1>1, <1>2, PTL DEF MarketSpec

-----------------------------------------------------------------------------
(* The key registry and the address book.                                  *)

\* The row of public_keys that an event of the contract becomes.
RowOf(i) == [owner |-> keyEvents[i].owner, keys |-> keyEvents[i].keys,
             ledger |-> keyEvents[i].ledger, event |-> i]

KeyEvent == [owner : Owners, keys : KeyPairs, ledger : Nat]

LedgersInOrder ==
    /\ \A i \in 1 .. Len(keyEvents) : keyEvents[i].ledger <= keyLedger
    /\ \A i, j \in 1 .. Len(keyEvents) :
           i <= j => keyEvents[i].ledger <= keyEvents[j].ledger

\* The last event of an owner has the keys that the contract holds.
LastEventIsHeld ==
    \A i \in 1 .. Len(keyEvents) :
        (\A j \in 1 .. Len(keyEvents) : i < j => keyEvents[j].owner # keyEvents[i].owner)
            => registered[keyEvents[i].owner] = keyEvents[i].keys

DirectoryInv ==
    /\ keyEvents \in Seq(KeyEvent)
    /\ keyLedger \in Nat
    /\ fetched \in 0 .. Len(keyEvents)
    /\ DOMAIN registered = Owners
    /\ LedgersInOrder
    /\ LastEventIsHeld
    /\ publicKeys = {RowOf(i) : i \in 1 .. fetched}

LEMMA DirectoryStarts == DirectoryInit => DirectoryInv
  BY DEF DirectoryInit, DirectoryInv, LedgersInOrder, LastEventIsHeld

LEMMA RegisterKeeps ==
    ASSUME DirectoryInv, NEW o \in Owners, NEW k \in KeyPairs, Register(o, k)
    PROVE  DirectoryInv'
<1> USE DEF DirectoryInv
<1>1. CASE ~KeysChange(o, k)
  <2>1. UNCHANGED <<registered, keyEvents, keyLedger, publicKeys, fetched>>
    BY <1>1 DEF Register
  <2> QED BY <2>1 DEF LedgersInOrder, LastEventIsHeld, RowOf
<1>2. CASE KeysChange(o, k)
  <2> DEFINE e == [owner |-> o, keys |-> k, ledger |-> keyLedger]
             n == Len(keyEvents)
  <2>1. /\ keyEvents' = Append(keyEvents, e)
        /\ registered' = [registered EXCEPT ![o] = k]
        /\ UNCHANGED <<keyLedger, publicKeys, fetched>>
    BY <1>2 DEF Register
  <2>2. e \in KeyEvent /\ e.owner = o /\ e.keys = k /\ e.ledger = keyLedger
    BY DEF KeyEvent
  <2> HIDE DEF e
  <2>3. /\ keyEvents' \in Seq(KeyEvent) /\ n \in Nat /\ Len(keyEvents') = n + 1
        /\ keyEvents'[n + 1] = e
        /\ \A i \in 1 .. n : keyEvents'[i] = keyEvents[i] /\ keyEvents[i] \in KeyEvent
    BY <2>1, <2>2
  <2>4. \A i \in 1 .. n : keyEvents[i].ledger \in Nat /\ keyEvents[i].owner \in Owners
    BY <2>3 DEF KeyEvent
  <2> HIDE DEF n
  <2>5. LedgersInOrder'
    <3>1. \A i \in 1 .. n + 1 : keyEvents'[i].ledger <= keyLedger
      BY <2>2, <2>3, <2>4 DEF LedgersInOrder, n
    <3>2. \A i, j \in 1 .. n + 1 : i <= j => keyEvents'[i].ledger <= keyEvents'[j].ledger
      BY <2>2, <2>3, <2>4 DEF LedgersInOrder, n
    <3> QED BY <2>1, <2>3, <3>1, <3>2 DEF LedgersInOrder
  <2>6. LastEventIsHeld'
    <3> SUFFICES ASSUME NEW i \in 1 .. n + 1,
                        \A j \in 1 .. n + 1 : i < j => keyEvents'[j].owner # keyEvents'[i].owner
                 PROVE  registered'[keyEvents'[i].owner] = keyEvents'[i].keys
      BY <2>3 DEF LastEventIsHeld
    <3>1. CASE i = n + 1
      BY <2>1, <2>2, <2>3, <3>1
    <3>2. CASE i # n + 1
      <4>1. i \in 1 .. n /\ keyEvents'[i] = keyEvents[i]
        BY <2>3, <3>2
      <4>2. keyEvents[i].owner # o
        BY <2>2, <2>3, <4>1
      <4>3. \A j \in 1 .. n : i < j => keyEvents[j].owner # keyEvents[i].owner
        BY <2>3, <4>1
      <4>4. registered[keyEvents[i].owner] = keyEvents[i].keys
        BY <4>1, <4>3 DEF LastEventIsHeld, n
      <4> QED BY <2>1, <2>4, <4>1, <4>2, <4>4
    <3> QED BY <3>1, <3>2
  <2>7. publicKeys' = {RowOf(i)' : i \in 1 .. fetched'}
    <3>1. \A i \in 1 .. fetched : RowOf(i)' = RowOf(i)
      BY <2>3 DEF RowOf, n
    <3>2. publicKeys = {RowOf(i) : i \in 1 .. fetched}
      OBVIOUS
    <3>3. publicKeys' = publicKeys /\ fetched' = fetched
      BY <2>1
    <3> QED BY <3>1, <3>2, <3>3
  <2>8. fetched' \in 0 .. Len(keyEvents') /\ keyLedger' \in Nat /\ DOMAIN registered' = Owners
    BY <2>1, <2>3 DEF n
  <2> QED BY <2>3, <2>5, <2>6, <2>7, <2>8
<1> QED BY <1>1, <1>2

LEMMA SaveKeeps ==
    ASSUME DirectoryInv, NEW from \in Int, NEW to \in Int, SavePublicKeyEventsBatch(from, to)
    PROVE  DirectoryInv'
<1> USE DEF DirectoryInv
<1>1. /\ 1 <= from /\ from <= fetched + 1 /\ fetched < to /\ to <= Len(keyEvents)
      /\ publicKeys' = publicKeys \cup {RowOf(i) : i \in from .. to}
      /\ fetched' = to
      /\ UNCHANGED <<registered, keyEvents, keyLedger>>
  BY DEF SavePublicKeyEventsBatch, RowOf
<1>2. 1 .. to = (1 .. fetched) \cup (from .. to)
  BY <1>1
<1>3. publicKeys' = {RowOf(i) : i \in 1 .. to}
  BY <1>1, <1>2
<1>4. LedgersInOrder' /\ LastEventIsHeld'
  BY <1>1 DEF LedgersInOrder, LastEventIsHeld
<1>5. publicKeys' = {RowOf(i)' : i \in 1 .. fetched'}
  BY <1>1, <1>3 DEF RowOf
<1>6. fetched' \in 0 .. Len(keyEvents')
  BY <1>1
<1> QED BY <1>1, <1>4, <1>5, <1>6

LEMMA DirectoryStep == DirectoryInv /\ [DirectoryNext]_directoryVars => DirectoryInv'
<1> SUFFICES ASSUME DirectoryInv, [DirectoryNext]_directoryVars PROVE DirectoryInv'
  OBVIOUS
<1>1. CASE UNCHANGED directoryVars
  BY <1>1 DEF DirectoryInv, LedgersInOrder, LastEventIsHeld, RowOf, directoryVars
<1>2. CASE NextLedger
  <2>1. \A i \in 1 .. Len(keyEvents) : keyEvents[i].ledger \in Nat
    <3>1. \A i \in 1 .. Len(keyEvents) : keyEvents[i] \in KeyEvent
      BY DEF DirectoryInv
    <3> QED BY <3>1 DEF KeyEvent
  <2> QED
    BY <1>2, <2>1 DEF NextLedger, DirectoryInv, LedgersInOrder, LastEventIsHeld, RowOf
<1> QED
  BY <1>1, <1>2, RegisterKeeps, SaveKeeps DEF DirectoryNext

\* The newest row of an owner is among its entries.
LEMMA BookFromEvents == DirectoryInv => BookIsCurrent
<1> SUFFICES ASSUME DirectoryInv, fetched = Len(keyEvents), NEW o \in Listed
             PROVE  /\ \E r \in EntryRows(o) : r.keys = registered[o]
                    /\ Cardinality(EntryRows(o)) = 1 => \A r \in EntryRows(o) : r.keys = registered[o]
  BY DEF BookIsCurrent
<1> DEFINE n == Len(keyEvents)
           T == {i \in 1 .. n : keyEvents[i].owner = o}
<1>1. n \in Nat /\ publicKeys = {RowOf(i) : i \in 1 .. n}
  BY DEF DirectoryInv
<1>2. \A i \in 1 .. n : /\ keyEvents[i].ledger \in Nat
                        /\ RowOf(i).owner = keyEvents[i].owner /\ RowOf(i).keys = keyEvents[i].keys
                        /\ RowOf(i).ledger = keyEvents[i].ledger
  <2>1. \A i \in 1 .. n : keyEvents[i] \in KeyEvent
    BY DEF DirectoryInv
  <2> QED BY <2>1 DEF RowOf, KeyEvent
<1> HIDE DEF n
<1>3. T # {}
  BY <1>1, <1>2 DEF Listed, RowsOf
<1>4. PICK g \in T : \A i \in T : i <= g
  <2>1. T \subseteq 0 .. n
    BY <1>1
  <2> QED BY <1>1, <1>3, <2>1, GreatestNumber
<1>5. registered[o] = keyEvents[g].keys
  <2>1. \A j \in 1 .. n : g < j => keyEvents[j].owner # keyEvents[g].owner
    BY <1>1, <1>4
  <2> QED BY <1>4, <2>1 DEF DirectoryInv, LastEventIsHeld, n
<1>6. \A s \in RowsOf(o) : \E i \in T : s = RowOf(i)
  BY <1>1, <1>2 DEF RowsOf
<1>7. RowOf(g) \in EntryRows(o)
  <2>1. RowOf(g) \in RowsOf(o)
    BY <1>1, <1>2, <1>4 DEF RowsOf
  <2>2. ASSUME NEW s \in RowsOf(o) PROVE s.ledger <= RowOf(g).ledger
    <3>1. PICK i \in T : s = RowOf(i)
      BY <1>6
    <3>2. keyEvents[i].ledger <= keyEvents[g].ledger
      BY <1>4 DEF DirectoryInv, LedgersInOrder, n
    <3> QED BY <1>2, <1>4, <3>1, <3>2
  <2> QED BY <2>1, <2>2 DEF EntryRows
<1>8. RowOf(g).keys = registered[o]
  BY <1>2, <1>4, <1>5
<1>9. ASSUME Cardinality(EntryRows(o)) = 1, NEW r \in EntryRows(o) PROVE r = RowOf(g)
  <2> DEFINE f == [i \in 1 .. n |-> RowOf(i)]
  <2>1. f \in Surjection(1 .. n, publicKeys)
    BY <1>1 DEF Surjection
  <2>2. IsFiniteSet(1 .. n)
    BY <1>1, FS_Interval
  <2>3. IsFiniteSet(publicKeys)
    BY <2>1, <2>2, FS_Surjection
  <2>4. EntryRows(o) \in SUBSET publicKeys
    BY DEF EntryRows, RowsOf
  <2>5. IsFiniteSet(EntryRows(o))
    BY <2>3, <2>4, FS_Subset
  <2>6. \E x : EntryRows(o) = {x}
    BY <1>9, <2>5, FS_Singleton
  <2> QED BY <1>7, <1>9, <2>6
<1> QED BY <1>7, <1>8, <1>9

\* Once the wallet has the events of the key registry, its address book shows
\* for every listed owner the keys the contract holds, for every number of
\* owners, keys, calls of register and fetched pages.
THEOREM AddressBookIsCurrent == DirectorySpec => []BookIsCurrent
<1>1. DirectorySpec => []DirectoryInv
  BY DirectoryStarts, DirectoryStep, PTL DEF DirectorySpec
<1> QED
  BY <1>1, BookFromEvents, PTL
=============================================================================
