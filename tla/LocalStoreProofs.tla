-------------------------- MODULE LocalStoreProofs --------------------------
(***************************************************************************)
(* Proofs about LocalStore, for every number of accounts, page size, batch *)
(* size, chunk size and bound: the local tables are a true image of a      *)
(* prefix of the chain, and neither a note nor a spend is passed over.     *)
(***************************************************************************)
EXTENDS LocalStore, Arithmetic, SequenceTheorems

-----------------------------------------------------------------------------
(* The operators on sets of numbers.                                       *)

\* MinOf and MaxOf of a nonempty bounded set of numbers.
LEMMA Extremes ==
  ASSUME NEW m \in Nat, NEW S, S \subseteq 0..m, S # {}
  PROVE  /\ MinOf(S) \in S /\ \A y \in S : MinOf(S) <= y
         /\ MaxOf(S) \in S /\ \A y \in S : y <= MaxOf(S)
<1>1. \E x \in S : \A y \in S : x <= y
  <2>1. S \subseteq Nat
    OBVIOUS
  <2> QED BY <2>1, LeastNumber
<1>2. \E x \in S : \A y \in S : y <= x
  BY GreatestNumber
<1> QED BY <1>1, <1>2 DEF MinOf, MaxOf

\* FirstN takes the smallest elements, and all of them if they are not n.
LEMMA FirstNFacts ==
  ASSUME NEW m \in Nat, NEW S, S \subseteq 1..m, NEW n \in Nat \ {0}
  PROVE  /\ FirstN(S, n) \subseteq S
         /\ \A p \in FirstN(S, n), q \in S : q < p => q \in FirstN(S, n)
         /\ Cardinality(FirstN(S, n)) # n => FirstN(S, n) = S
         /\ FirstN(S, n) = {} => S = {}
         /\ IsFiniteSet(FirstN(S, n)) /\ Cardinality(FirstN(S, n)) <= n
<1> DEFINE F == FirstN(S, n)
<1>1. F = {p \in S : Cardinality({q \in S : q < p}) < n}
  BY DEF FirstN
<1> HIDE DEF F
<1>2. /\ F \subseteq S
      /\ \A p \in F, q \in S : q < p => q \in F
      /\ Cardinality(F) # n => F = S
      /\ F = {} => S = {}
      /\ IsFiniteSet(F) /\ Cardinality(F) <= n
  <2>1. \A G : G = {p \in S : Cardinality({q \in S : q < p}) < n} =>
           /\ G \subseteq S
           /\ \A p \in G, q \in S : q < p => q \in G
           /\ Cardinality(G) # n => G = S
           /\ G = {} => S = {}
           /\ IsFiniteSet(G) /\ Cardinality(G) <= n
    BY SmallestElements
  <2> QED BY <1>1, <2>1, Zenon
<1> QED BY <1>2 DEF F

-----------------------------------------------------------------------------
(* The inductive invariant.                                                *)

EventRecords ==
    [ledger : 2 .. MaxLedger + 1, kind : {"nullifier", "commitment", "leaf", "key", "other"},
     arg : Owners \cup 0 .. MaxEvents, twin : 0 .. MaxEvents, fails : SUBSET Accounts]

\* Ledgers close in order, and the open one is the next after the tip.
ChainInv ==
    /\ chain \in Seq(EventRecords)
    /\ Len(chain) \in 0 .. MaxEvents
    /\ tip \in 1 .. MaxLedger
    /\ \A p \in Positions : chain[p].ledger <= tip + 1
    /\ \A p, q \in Positions : q <= p => chain[q].ledger <= chain[p].ledger

\* S has no event without every earlier one.
Downward(S) == \A p \in S : 1 .. p \subseteq S

StoredBelow(ledger) == \A p \in Positions : chain[p].ledger < ledger => p \in raw
StoredUpTo(ledger) == \A p \in Positions : chain[p].ledger <= ledger => p \in raw

MetaInv ==
    /\ meta \in [cursor : {NoCursor} \cup 0 .. MaxEvents, indexed : 0 .. tip, fully : 0 .. tip]
    /\ meta.cursor # NoCursor => 1 .. meta.cursor \subseteq raw
    /\ StoredBelow(meta.indexed)
    /\ StoredUpTo(meta.fully)

\* What the round has fetched continues what is stored without a gap.
PageInv ==
    LET stored == raw \cup idx.resp.events
    IN  /\ idx.resp.events \subseteq Visible
        /\ Downward(stored)
        /\ idx.cursor # NoCursor
        /\ 1 .. idx.cursor \subseteq stored
        /\ idx.resp.events = {} => StoredUpTo(idx.resp.latest)
        /\ idx.pc = "progress" => idx.resp.events \subseteq raw

RoundInv ==
    /\ idx \in [pc : {"idle", "page", "save", "progress", "stopped"},
                cursor : {NoCursor} \cup 0 .. MaxEvents, start : 0 .. tip, pages : Int,
                resp : [events : SUBSET Positions, latest : 0 .. tip]]
    /\ idx.pc = "page" => IF idx.cursor = NoCursor THEN StoredBelow(idx.start)
                                                   ELSE 1 .. idx.cursor \subseteq raw
    /\ idx.pc \in {"save", "progress"} => PageInv

IndexInv ==
    /\ raw \subseteq Positions
    /\ Downward(raw)
    /\ MetaInv
    /\ RoundInv

\* Row ids are 1, 2, ... without a gap and without a repetition.
Numbered(ids) ==
    /\ ids \in [DOMAIN ids -> 1 .. Cardinality(DOMAIN ids)]
    /\ \A p, q \in DOMAIN ids : ids[p] = ids[q] => p = q

RowsInv ==
    /\ DOMAIN nullId \subseteq OfKind(raw, "nullifier")
    /\ DOMAIN commitId \subseteq OfKind(raw, "commitment")
    /\ keyRows \subseteq OfKind(raw, "key")
    /\ leafRows \subseteq OfKind(raw, "leaf")
    /\ Numbered(nullId)
    /\ Numbered(commitId)
    /\ LeavesGapFree

ProcType ==
    [pc : {"idle", "nullifiers", "commitments", "keys", "leaves", "notes", "scan", "commit",
           "reconcile", "yield"},
     batch : SUBSET raw, did : BOOLEAN, marks : [Accounts -> 0 .. CommitCount],
     quota : 0 .. FetchLimit, turn : Nat, moved : BOOLEAN]

\* No mark has passed an output from which its account cannot derive.
BelowFailures(marks) ==
    \A p \in DOMAIN commitId : \A a \in chain[p].fails : commitId[p] > marks[a]

\* A batch continues what is processed without a gap.
ProcInv ==
    /\ proc \in ProcType
    /\ \A p \in proc.batch : 1 .. p \subseteq proc.batch \cup Processed
    /\ proc.pc = "scan" => proc.turn \in 1 .. Len(accounts)
    /\ proc.pc \in {"scan", "commit"} => BelowFailures(proc.marks)
    /\ proc.moved => proc.pc \in {"scan", "commit", "reconcile"}

NotesInv ==
    /\ accounts \in Seq(Accounts)
    /\ scanned \in [Accounts -> 0 .. CommitCount]
    /\ reconciled \in 0 .. Cardinality(DOMAIN nullId)
    /\ notes \subseteq [acct : Accounts, pos : DOMAIN commitId, spent : Nat]
    /\ \A n \in notes : n.spent # 0 => n.spent \in NullifierRowOf(n.pos)
    /\ NothingLost

AllAt(mark) == \A i \in 1 .. Len(accounts) : mark[accounts[i]] = CommitCount

\* How far an iteration that has found no work yet has come; what an idle
\* processor has left behind.
WorkInv ==
    /\ Busy /\ ~proc.did => raw \subseteq Processed
    /\ proc.pc = "scan" /\ ~proc.did =>
           /\ proc.quota = FetchLimit
           /\ ~proc.moved
           /\ \A i \in 1 .. proc.turn - 1 : proc.marks[accounts[i]] = CommitCount
    /\ proc.pc = "commit" /\ ~proc.did => AllAt(proc.marks)
    /\ proc.pc = "reconcile" /\ ~proc.did => AllAt(scanned)
    /\ proc.pc = "idle" /\ ~kicked /\ ~Blocked =>
           /\ raw \subseteq Processed
           /\ AllAt(scanned)
           /\ reconciled = Cardinality(DOMAIN nullId)

ClientType ==
    [pc : {"idle", "fetch", "ask", "params", "register", "error"},
     acct : Owners, input : 0 .. MaxEvents, ledger : 0 .. MaxLedger,
     asp : SUBSET Positions, pool : SUBSET Positions]

TaskInv ==
    /\ kicked \in BOOLEAN
    /\ client \in ClientType
    /\ faults \in 0 .. MaxFaults

StoreInv ==
    ChainInv /\ IndexInv /\ RowsInv /\ ProcInv /\ NotesInv /\ WorkInv /\ TaskInv

-----------------------------------------------------------------------------
(* Row ids.                                                                *)

\* Every id up to the number of rows is in use.
LEMMA NumberedOnto ==
  ASSUME NEW ids, Numbered(ids), IsFiniteSet(DOMAIN ids)
  PROVE  \A k \in 1..Cardinality(DOMAIN ids) : \E p \in DOMAIN ids : ids[p] = k
<1> DEFINE D == DOMAIN ids
           T == 1..Cardinality(D)
<1>1. ids \in Injection(D, T)
  BY DEF Numbered, Injection, IsInjective
<1>2. Cardinality(D) \in Nat
  BY FS_CardinalityType
<1>3. IsFiniteSet(T) /\ Cardinality(T) = Cardinality(D)
  BY <1>2, FS_Interval
<1> HIDE DEF D, T
<1>4. ids \in Surjection(D, T)
  BY <1>1, <1>3, FS_Injection
<1>5. \A k \in T : \E p \in D : ids[p] = k
  BY <1>4 DEF Surjection
<1> QED BY <1>5 DEF D, T

\* New rows continue the numbering; old rows keep their ids.
LEMMA WithRowsNumbered ==
  ASSUME NEW ids, Numbered(ids), NEW m \in Nat, DOMAIN ids \subseteq 1..m,
         NEW S, S \subseteq 1..m
  PROVE  /\ Numbered(WithRows(ids, S))
         /\ DOMAIN WithRows(ids, S) = DOMAIN ids \cup S
         /\ \A p \in DOMAIN ids : WithRows(ids, S)[p] = ids[p]
         /\ \A p \in S \ DOMAIN ids : WithRows(ids, S)[p] > Cardinality(DOMAIN ids)
         /\ Cardinality(DOMAIN ids) \in Nat
         /\ Cardinality(DOMAIN ids \cup S) \in Nat
         /\ Cardinality(DOMAIN ids) <= Cardinality(DOMAIN ids \cup S)
<1> DEFINE D == DOMAIN ids
           New == S \ D
           Above(p) == {q \in New : q >= p}
           w == WithRows(ids, S)
           c == Cardinality(D)
           d == Cardinality(D \cup S)
<1>0. \A p \in D \cup S : p \in Nat
  <2>1. \A p \in 1..m : p \in Nat
    OBVIOUS
  <2> QED BY <2>1
<1>1. IsFiniteSet(D) /\ IsFiniteSet(New) /\ IsFiniteSet(D \cup S)
  <2>1. IsFiniteSet(1..m)
    BY FS_Interval
  <2>2. D \in SUBSET (1..m) /\ New \in SUBSET (1..m) /\ D \cup S \in SUBSET (1..m)
    OBVIOUS
  <2> QED BY <2>1, <2>2, FS_Subset
<1>2. /\ w = [p \in D \cup S |-> IF p \in D THEN ids[p] ELSE c + Cardinality(Above(p))]
      /\ DOMAIN w = D \cup S
  BY DEF WithRows
<1>3. c \in Nat /\ d \in Nat /\ Cardinality(New) \in Nat /\ d = c + Cardinality(New)
  <2>1. c \in Nat /\ d \in Nat /\ Cardinality(New) \in Nat
    BY <1>1, FS_CardinalityType
  <2>2. D \cup S = D \cup New /\ D \cap New = {}
    OBVIOUS
  <2>3. Cardinality(D \cup New) = c + Cardinality(New) - Cardinality(D \cap New)
    BY <1>1, FS_Union
  <2>4. Cardinality(D \cap New) = 0
    BY <2>2, FS_EmptySet
  <2> HIDE DEF D, New
  <2> QED BY <2>1, <2>2, <2>3, <2>4
<1>4. ASSUME NEW p \in New
      PROVE  /\ IsFiniteSet(Above(p))
             /\ Cardinality(Above(p)) \in 1..Cardinality(New)
  <2>1. Above(p) \in SUBSET New
    OBVIOUS
  <2>2. IsFiniteSet(Above(p)) /\ Cardinality(Above(p)) <= Cardinality(New)
    BY <1>1, <2>1, FS_Subset
  <2>3. p \in Above(p)
    <3>1. p \in 1..m
      OBVIOUS
    <3> QED BY <3>1
  <2>4. Cardinality(Above(p)) \in Nat /\ Cardinality(Above(p)) # 0
    BY <2>2, <2>3, FS_CardinalityType, FS_EmptySet
  <2> HIDE DEF Above, New
  <2> QED BY <1>3, <2>2, <2>4
<1>5. ASSUME NEW p \in New, NEW q \in New, p < q
      PROVE  Cardinality(Above(q)) < Cardinality(Above(p))
  <2>0. \A x \in New : x \in Nat
    OBVIOUS
  <2>1. ASSUME NEW x \in New, x >= q PROVE x >= p
    BY <1>5, <2>0, <2>1
  <2>2. Above(q) \in SUBSET Above(p)
    BY <2>1
  <2>3. p \in Above(p) /\ p \notin Above(q)
    BY <1>5, <2>0
  <2>4. Cardinality(Above(q)) <= Cardinality(Above(p))
        /\ Cardinality(Above(q)) # Cardinality(Above(p))
    BY <1>4, <2>2, <2>3, FS_Subset
  <2>5. Cardinality(Above(q)) \in Nat /\ Cardinality(Above(p)) \in Nat
    BY <1>4, FS_CardinalityType
  <2> HIDE DEF Above, New
  <2> QED BY <2>4, <2>5
<1>6. \A p \in D : w[p] = ids[p] /\ ids[p] \in 1..c
  BY <1>2 DEF Numbered
<1>7. ASSUME NEW p \in New PROVE w[p] = c + Cardinality(Above(p))
  BY <1>2
<1> HIDE DEF w, Above, c, d
<1>8. ASSUME NEW p \in New PROVE w[p] \in (c + 1)..d
  BY <1>3, <1>4, <1>7
<1>9. \A p \in D \cup S : w[p] \in 1..d
  <2>1. \A p \in D \cup S : p \in D \/ p \in New
    OBVIOUS
  <2>2. ASSUME NEW p \in D PROVE w[p] \in 1..d
    BY <1>3, <1>6
  <2>3. ASSUME NEW p \in New PROVE w[p] \in 1..d
    BY <1>3, <1>8
  <2> HIDE DEF D, New
  <2> QED BY <2>1, <2>2, <2>3
<1>10. ASSUME NEW p \in D \cup S, NEW q \in D \cup S, w[p] = w[q] PROVE p = q
  <2>1. CASE p \in D /\ q \in D
    BY <1>6, <1>10, <2>1 DEF Numbered
  <2>2. CASE p \in D /\ q \in New
    BY <1>3, <1>6, <1>8, <1>10, <2>2
  <2>3. CASE p \in New /\ q \in D
    BY <1>3, <1>6, <1>8, <1>10, <2>3
  <2>4. CASE p \in New /\ q \in New
    <3>1. p \in Nat /\ q \in Nat
      BY <1>0
    <3>2. Cardinality(Above(p)) = Cardinality(Above(q))
      BY <1>3, <1>4, <1>7, <1>10, <2>4
    <3>3. ~(p < q) /\ ~(q < p)
      BY <1>4, <1>5, <2>4, <3>2
    <3> QED BY <3>1, <3>3
  <2> QED BY <2>1, <2>2, <2>3, <2>4
<1>11. w \in [D \cup S -> 1..d]
  <2>1. w = [p \in D \cup S |-> w[p]]
    BY <1>2
  <2> QED BY <1>9, <2>1
<1>12. Numbered(w)
  <2> HIDE DEF D
  <2> QED BY <1>2, <1>10, <1>11 DEF Numbered, d
<1>13. \A p \in New : w[p] > c
  BY <1>3, <1>8
<1>14. c <= d
  BY <1>3
<1> QED BY <1>2, <1>3, <1>6, <1>12, <1>13, <1>14 DEF w, c, d

\* The rows among the n ids after a mark: at most n, and none only if the mark
\* has reached the last row.
LEMMA RowsAfterMark ==
  ASSUME NEW ids, Numbered(ids), IsFiniteSet(DOMAIN ids),
         NEW mark \in 0..Cardinality(DOMAIN ids), NEW n \in Nat \ {0},
         NEW R, R = {q \in DOMAIN ids : ids[q] > mark /\ ids[q] <= mark + n}
  PROVE  /\ Cardinality(R) \in 0..n
         /\ mark + Cardinality(R) <= Cardinality(DOMAIN ids)
         /\ R = {} => mark = Cardinality(DOMAIN ids)
         /\ Cardinality(DOMAIN ids) <= mark + n => Cardinality(DOMAIN ids) = mark + Cardinality(R)
<1> DEFINE c == Cardinality(DOMAIN ids)
<1>1. c \in Nat
  BY FS_CardinalityType
<1>2. /\ \A q \in DOMAIN ids : ids[q] \in 1..c
      /\ \A p, q \in DOMAIN ids : ids[p] = ids[q] => p = q
  BY DEF Numbered
<1>3. Cardinality(R) \in 0..n
  <2>1. \A q \in R : ids[q] \in (mark + 1)..(mark + n)
    BY <1>1, <1>2
  <2>2. \A p, q \in R : ids[p] = ids[q] => p = q
    BY <1>2
  <2>3. mark \in Nat /\ mark + n \in Nat /\ mark <= mark + n
    BY <1>1
  <2>4. Cardinality(R) \in 0..((mark + n) - mark)
    BY <2>1, <2>2, <2>3, DistinctBetween
  <2> QED BY <1>1, <2>4
<1>4. Cardinality(R) \in 0..(c - mark)
  <2>1. \A q \in R : ids[q] \in (mark + 1)..c
    BY <1>1, <1>2
  <2>2. \A p, q \in R : ids[p] = ids[q] => p = q
    BY <1>2
  <2>3. mark \in Nat /\ mark <= c
    BY <1>1
  <2> HIDE DEF c
  <2> QED BY <1>1, <2>1, <2>2, <2>3, DistinctBetween
<1>5. ASSUME mark # c PROVE R # {}
  <2>1. mark + 1 \in 1..c
    BY <1>1, <1>5
  <2>2. PICK q \in DOMAIN ids : ids[q] = mark + 1
    BY <2>1, NumberedOnto
  <2> QED BY <1>1, <2>2
<1>6. ASSUME c <= mark + n PROVE c <= mark + Cardinality(R)
  <2> DEFINE L == {q \in DOMAIN ids : ids[q] <= mark}
  <2>1. \A q \in DOMAIN ids : q \in L \/ q \in R
    BY <1>1, <1>2, <1>6
  <2>2. L \in SUBSET DOMAIN ids /\ R \in SUBSET DOMAIN ids
    OBVIOUS
  <2>3. Cardinality(L) \in 0..(mark - 0)
    <3>1. \A q \in L : ids[q] \in (0 + 1)..mark
      BY <1>1, <1>2
    <3>2. \A p, q \in L : ids[p] = ids[q] => p = q
      BY <1>2
    <3>3. mark \in Nat /\ 0 \in Nat /\ 0 <= mark
      BY <1>1
    <3> HIDE DEF L
    <3> QED BY <3>1, <3>2, <3>3, DistinctBetween
  <2>4. IsFiniteSet(L) /\ IsFiniteSet(R)
    BY <2>2, FS_Subset
  <2>5. DOMAIN ids = L \cup R
    BY <2>1, <2>2
  <2> HIDE DEF L
  <2>6. /\ Cardinality(L \cup R) = Cardinality(L) + Cardinality(R) - Cardinality(L \cap R)
        /\ Cardinality(L \cap R) \in Nat
    BY <2>4, FS_Union, FS_Intersection, FS_CardinalityType
  <2>7. c = Cardinality(L \cup R)
    BY <2>5
  <2>8. mark \in Nat /\ Cardinality(R) \in Nat /\ Cardinality(L) \in Nat
        /\ Cardinality(L) <= mark
    BY <1>1, <1>3, <2>3
  <2> HIDE DEF c
  <2> QED BY <2>6, <2>7, <2>8
<1> QED BY <1>1, <1>3, <1>4, <1>5, <1>6

-----------------------------------------------------------------------------
(* The chain grows at its end.                                             *)

\* What a step may do to the chain: append events of the open ledger, or close
\* that ledger.
Appends ==
    /\ ChainInv'
    /\ Len(chain) <= Len(chain')
    /\ \A p \in Positions : chain'[p] = chain[p]
    /\ \A p \in Positions' : p \notin Positions => chain'[p].ledger = tip + 1
    /\ tip' \in {tip, tip + 1}
    /\ tip' # tip => chain' = chain

\* What the entries of the chain are.
LEMMA EventFacts ==
  ASSUME ChainInv
  PROVE  \A p \in Positions : chain[p] \in EventRecords /\ chain[p].ledger \in Int
<1>1. ASSUME NEW p \in Positions PROVE chain[p] \in EventRecords
  BY DEF ChainInv, Positions
<1>2. \A e \in EventRecords : e.ledger \in Int
  BY LimitsArePositive DEF EventRecords
<1> QED BY <1>1, <1>2

\* What Emit appends.
LEMMA EmitShape ==
  ASSUME ChainInv, NEW events \in Seq(EventRecords), Emit(events)
  PROVE  /\ chain' \in Seq(EventRecords)
         /\ Len(chain') = Len(chain) + Len(events)
         /\ \A p \in Positions : chain'[p] = chain[p]
         /\ \A i \in 1..Len(events) : chain'[Len(chain) + i] = events[i]
<1> DEFINE n == Len(chain)
           k == Len(events)
<1>1. n \in Nat /\ k \in Nat /\ chain' = chain \o events /\ chain \in Seq(EventRecords)
  BY LimitsArePositive DEF Emit, ChainInv
<1> HIDE DEF k
<1>2. /\ chain' \in Seq(EventRecords)
      /\ Len(chain') = n + k
      /\ \A p \in 1..(n + k) : chain'[p] = IF p <= n THEN chain[p] ELSE events[p - n]
  BY <1>1, ConcatProperties DEF k
<1>3. ASSUME NEW i \in 1..k PROVE chain'[n + i] = events[i]
  <2>1. n + i \in 1..(n + k) /\ ~(n + i <= n) /\ (n + i) - n = i
    BY <1>1
  <2> QED BY <1>2, <2>1
<1>4. \A p \in Positions : chain'[p] = chain[p]
  BY <1>1, <1>2 DEF Positions
<1> QED BY <1>2, <1>3, <1>4 DEF k

\* Events of the open ledger extend the chain.
LEMMA EmitAppends ==
  ASSUME ChainInv, NEW events \in Seq(EventRecords), Emit(events),
         \A i \in 1..Len(events) : events[i].ledger = tip + 1
  PROVE  Appends
<1> DEFINE n == Len(chain)
           k == Len(events)
<1>1. n \in Nat /\ k \in Nat /\ n + k <= MaxEvents /\ MaxEvents \in Nat
      /\ tip \in 1..MaxLedger /\ MaxLedger \in Nat /\ tip < MaxLedger /\ tip' = tip
  BY LimitsArePositive DEF Emit, ChainInv
<1>4. /\ chain' \in Seq(EventRecords)
      /\ Len(chain') = n + k
      /\ \A p \in 1..n : chain'[p] = chain[p]
      /\ \A i \in 1..k : chain'[n + i].ledger = tip + 1
  BY EmitShape DEF Positions
<1> HIDE DEF k
<1>5. ASSUME NEW p \in 1..(n + k), p \notin 1..n PROVE chain'[p].ledger = tip + 1
  <2>1. p - n \in 1..k /\ n + (p - n) = p
    BY <1>1, <1>5
  <2> QED BY <1>4, <2>1
<1>6. \A p \in 1..n : chain[p].ledger \in Int /\ chain[p].ledger <= tip + 1
  BY <1>1, EventFacts DEF ChainInv, Positions
<1>7. ChainInv'
  <2>1. \A p \in Positions' : chain'[p].ledger <= tip' + 1
    BY <1>1, <1>4, <1>5, <1>6 DEF Positions
  <2>2. ASSUME NEW p \in Positions', NEW q \in Positions', q <= p
        PROVE  chain'[q].ledger <= chain'[p].ledger
    <3>1. p \in 1..(n + k) /\ q \in 1..(n + k)
      BY <1>4 DEF Positions
    <3>2. CASE p \in 1..n
      <4>1. q \in 1..n
        BY <2>2, <3>1, <3>2
      <4> QED BY <1>4, <2>2, <3>2, <4>1 DEF ChainInv, Positions
    <3>3. CASE p \notin 1..n
      BY <1>1, <1>4, <1>5, <1>6, <3>1, <3>3
    <3> QED BY <3>2, <3>3
  <2>3. Len(chain') \in 0..MaxEvents
    BY <1>1, <1>4
  <2> QED BY <1>1, <1>4, <2>1, <2>2, <2>3 DEF ChainInv
<1> QED BY <1>1, <1>4, <1>5, <1>7 DEF Appends, Positions

\* What is emitted at once: a pool transaction's nullifier and output, or one
\* event of another kind.
Emitted(events) ==
    /\ events \in Seq(EventRecords)
    /\ \A i \in 1..Len(events) : events[i].ledger = tip + 1
    /\ \/ Len(events) = 1 /\ events[1].kind # "nullifier"
       \/ Len(events) = 2 /\ events[1].kind = "nullifier" /\ events[2].kind = "commitment"

LEMMA EnvironmentShape ==
  ASSUME ChainInv, Environment
  PROVE  CloseLedger \/ \E events : Emit(events) /\ Emitted(events)
<1> DEFINE Kinds == {"nullifier", "commitment", "leaf", "key", "other"}
           Args == Owners \cup 0 .. MaxEvents
           Inputs == {0} \cup OfKind(Positions, "commitment")
<1>1. /\ \A o \in NoteOwners \cup LeafOwners \cup KeyOwners \cup {Stranger} : o \in Args
      /\ Inputs \subseteq 0..MaxEvents /\ 0 \in 0..MaxEvents
      /\ \A v \in BadOutputs : v \in SUBSET Accounts
  <2>1. Positions \subseteq 0..MaxEvents /\ 0 \in 0..MaxEvents
    BY LimitsArePositive DEF ChainInv, Positions
  <2>2. Inputs \subseteq 0..MaxEvents
    BY <2>1 DEF OfKind
  <2>3. \A o \in NoteOwners \cup LeafOwners \cup KeyOwners \cup {Stranger} : o \in Args
    BY OwnersAreKnown DEF Owners
  <2> HIDE DEF Args, Inputs
  <2> QED BY <2>1, <2>2, <2>3, OwnersAreKnown
<1>2. tip < MaxLedger => tip + 1 \in 2..(MaxLedger + 1)
  BY LimitsArePositive DEF ChainInv
<1>3. ASSUME NEW kind \in Kinds, NEW arg \in Args, tip < MaxLedger
      PROVE  /\ Event(kind, arg) \in EventRecords
             /\ Event(kind, arg).ledger = tip + 1 /\ Event(kind, arg).kind = kind
  BY <1>1, <1>2, <1>3 DEF Event, EventRecords
<1>4. ASSUME NEW output, tip < MaxLedger => output \in EventRecords,
             output.kind = "commitment", output.ledger = tip + 1,
             NEW input \in Inputs, PoolEmits(input, output)
      PROVE  \E events : Emit(events) /\ Emitted(events)
  <2> DEFINE spend == Event("nullifier", input)
             events == <<spend, output>>
  <2>1. Emit(events)
    BY <1>4 DEF PoolEmits
  <2>2. tip < MaxLedger
    BY <2>1 DEF Emit
  <2>3. spend \in EventRecords /\ spend.ledger = tip + 1 /\ spend.kind = "nullifier"
    BY <1>1, <1>3, <2>2
  <2>4. Emitted(events)
    <3> HIDE DEF spend
    <3> QED BY <1>4, <2>2, <2>3 DEF Emitted
  <2> HIDE DEF events
  <2> QED BY <2>1, <2>4
<1>5. ASSUME NEW kind \in {"leaf", "key", "other"}, NEW arg \in Args,
             Emit(<<Event(kind, arg)>>)
      PROVE  \E events : Emit(events) /\ Emitted(events)
  <2> DEFINE e == Event(kind, arg)
             events == <<e>>
  <2>1. tip < MaxLedger
    BY <1>5 DEF Emit
  <2>2. e \in EventRecords /\ e.ledger = tip + 1 /\ e.kind # "nullifier"
    BY <1>3, <2>1
  <2>3. Emitted(events)
    <3> HIDE DEF e
    <3> QED BY <2>2 DEF Emitted
  <2>4. Emit(events)
    BY <1>5
  <2> HIDE DEF events
  <2> QED BY <2>3, <2>4
<1>6. ASSUME NEW input \in Inputs, NEW o \in NoteOwners, PoolTransact(input, o)
      PROVE  \E events : Emit(events) /\ Emitted(events)
  <2> DEFINE output == Event("commitment", o)
  <2>1. tip < MaxLedger => output \in EventRecords
    BY <1>1, <1>3
  <2>2. output.kind = "commitment" /\ output.ledger = tip + 1
    BY DEF Event
  <2>3. PoolEmits(input, output)
    BY <1>6 DEF PoolTransact
  <2> HIDE DEF output
  <2> QED BY <1>4, <2>1, <2>2, <2>3
<1>7. ASSUME NEW input \in Inputs, NEW victims \in BadOutputs, MalformedOutput(input, victims)
      PROVE  \E events : Emit(events) /\ Emitted(events)
  <2> DEFINE e == Event("commitment", Stranger)
             output == [e EXCEPT !.fails = victims]
  <2>1. /\ tip < MaxLedger => e \in EventRecords
        /\ e = [ledger |-> tip + 1, kind |-> "commitment", arg |-> Stranger, twin |-> 0,
                fails |-> {}]
    BY <1>1, <1>3 DEF Event
  <2>2. PoolEmits(input, output)
    BY <1>7 DEF MalformedOutput
  <2> HIDE DEF e
  <2>3. tip < MaxLedger => output \in EventRecords
    BY <1>1, <2>1 DEF EventRecords
  <2>4. output.kind = "commitment" /\ output.ledger = tip + 1
    BY <2>1
  <2> HIDE DEF output
  <2> QED BY <1>4, <2>2, <2>3, <2>4
<1>8. ASSUME NEW input \in Inputs, NEW p \in OfKind(Positions, "commitment"),
             RepeatedCommitment(input, p)
      PROVE  \E events : Emit(events) /\ Emitted(events)
  <2>1. PICK owner \in {chain[p].arg, Stranger} :
           PoolEmits(input, [Event("commitment", owner) EXCEPT !.twin = p])
    BY <1>8 DEF RepeatedCommitment
  <2> DEFINE e == Event("commitment", owner)
             output == [e EXCEPT !.twin = p]
  <2>2. owner \in Args /\ p \in 0..MaxEvents
    <3>1. chain[p].arg \in Args
      <4>1. chain[p] \in EventRecords
        BY EventFacts DEF OfKind
      <4> QED BY <4>1 DEF EventRecords
    <3> QED BY <1>1, <2>1, <3>1
  <2>3. /\ tip < MaxLedger => e \in EventRecords
        /\ e = [ledger |-> tip + 1, kind |-> "commitment", arg |-> owner, twin |-> 0,
                fails |-> {}]
    BY <1>3, <2>2 DEF Event
  <2>4. PoolEmits(input, output)
    BY <2>1
  <2> HIDE DEF e
  <2>5. tip < MaxLedger => output \in EventRecords
    BY <2>2, <2>3 DEF EventRecords
  <2>6. output.kind = "commitment" /\ output.ledger = tip + 1
    BY <2>3
  <2> HIDE DEF output
  <2> QED BY <1>4, <2>4, <2>5, <2>6
<1>9. ASSUME NEW o \in LeafOwners, AspInsertLeaf(o)
      PROVE  \E events : Emit(events) /\ Emitted(events)
  BY <1>1, <1>5, <1>9 DEF AspInsertLeaf
<1>10. ASSUME NEW o \in KeyOwners, RegisterKey(o)
       PROVE  \E events : Emit(events) /\ Emitted(events)
  BY <1>1, <1>5, <1>10 DEF RegisterKey
<1>11. ASSUME UnhandledEvent
       PROVE  \E events : Emit(events) /\ Emitted(events)
  <2>1. 0 \in Args
    BY <1>1
  <2> QED BY <1>5, <1>11, <2>1 DEF UnhandledEvent
<1> QED BY <1>6, <1>7, <1>8, <1>9, <1>10, <1>11 DEF Environment

\* Only the chain's own steps touch the chain, and they append.
LEMMA EnvironmentAppends ==
  ASSUME ChainInv, Environment
  PROVE  /\ Appends
         /\ UNCHANGED <<indexVars, rowVars, noteVars, idx, kicked, proc, client, faults>>
<1>1. CASE CloseLedger
  <2>1. \A p \in Positions : chain[p].ledger \in Int
    BY EventFacts
  <2>2. /\ UNCHANGED <<indexVars, rowVars, noteVars, idx, kicked, proc, client, faults>>
        /\ chain' = chain /\ tip' = tip + 1 /\ tip < MaxLedger
    BY <1>1 DEF CloseLedger
  <2>3. Positions' = Positions /\ tip' \in 1..MaxLedger
    BY <2>2, LimitsArePositive DEF ChainInv, Positions
  <2>4. ChainInv'
    BY <2>1, <2>2, <2>3 DEF ChainInv
  <2>5. Len(chain) <= Len(chain')
    BY <2>2, LimitsArePositive DEF ChainInv
  <2> QED BY <2>2, <2>3, <2>4, <2>5 DEF Appends
<1>2. ASSUME NEW events, Emit(events), Emitted(events)
      PROVE  /\ Appends
             /\ UNCHANGED <<indexVars, rowVars, noteVars, idx, kicked, proc, client, faults>>
  BY <1>2, EmitAppends DEF Emitted, Emit
<1> QED BY <1>1, <1>2, EnvironmentShape

\* A commitment stays refused, and an account blocked, whatever is added to the
\* chain, the tables and the accounts.
LEMMA Stays ==
  ASSUME DOMAIN commitId \subseteq Positions, Positions \subseteq Positions',
         \A p \in Positions : chain'[p] = chain[p]
  PROVE  /\ \A p \in Positions : Commitment(p)' = Commitment(p)
         /\ DOMAIN commitId' = DOMAIN commitId => \A q : Refused(q) => Refused(q)'
         /\ /\ DOMAIN commitId \subseteq DOMAIN commitId'
            /\ DOMAIN accounts \subseteq DOMAIN accounts'
            /\ \A i \in DOMAIN accounts : accounts'[i] = accounts[i]
            => (Blocked => Blocked')
<1>1. \A p \in Positions : Commitment(p)' = Commitment(p)
  BY DEF Commitment
<1>2. ASSUME DOMAIN commitId' = DOMAIN commitId, NEW q, Refused(q) PROVE Refused(q)'
  BY <1>1, <1>2 DEF Refused, OfKind
<1>3. ASSUME DOMAIN commitId \subseteq DOMAIN commitId', Blocked,
             DOMAIN accounts \subseteq DOMAIN accounts',
             \A i \in DOMAIN accounts : accounts'[i] = accounts[i]
      PROVE  Blocked'
  BY <1>3 DEF Blocked
<1> QED BY <1>1, <1>2, <1>3

\* What is stored and known stays true of the longer chain.
LEMMA EnvironmentKeeps ==
  ASSUME StoreInv, Environment
  PROVE  StoreInv'
<1> USE DEF StoreInv
<1>1. Appends
      /\ UNCHANGED <<indexVars, rowVars, noteVars, idx, kicked, proc, client, faults>>
  BY EnvironmentAppends
<1>2. UNCHANGED <<raw, meta, nullId, commitId, keyRows, leafRows, accounts, scanned,
                  reconciled, notes, idx, kicked, proc, client, faults>>
  BY <1>1 DEF indexVars, rowVars, noteVars
<1>3. /\ ChainInv /\ ChainInv'
      /\ Positions \subseteq Positions'
      /\ \A p \in Positions : chain'[p] = chain[p]
      /\ \A p \in Positions' : p \notin Positions => chain'[p].ledger = tip + 1
      /\ tip \in 1..MaxLedger /\ tip' \in Nat /\ tip <= tip'
  <2>1. Len(chain) \in Nat /\ Len(chain') \in Nat /\ Len(chain) <= Len(chain')
    BY <1>1, LimitsArePositive DEF Appends, ChainInv
  <2>2. Positions \subseteq Positions'
    BY <2>1 DEF Positions
  <2>3. tip \in 1..MaxLedger /\ tip' \in Nat /\ tip <= tip'
    BY <1>1 DEF Appends, ChainInv
  <2> QED BY <1>1, <2>2, <2>3 DEF Appends
<1>4. raw \subseteq Positions /\ raw' = raw
  BY <1>2 DEF IndexInv
<1>5. ASSUME NEW S, S \subseteq Positions, NEW kind
      PROVE  OfKind(S, kind)' = {p \in S' : chain'[p].kind = kind}
  BY DEF OfKind
<1>6. ASSUME NEW ledger \in 0..tip
      PROVE  /\ StoredBelow(ledger) =>
                  \A p \in Positions' : chain'[p].ledger < ledger => p \in raw'
             /\ StoredUpTo(ledger) =>
                  \A p \in Positions' : chain'[p].ledger <= ledger => p \in raw'
  BY <1>3, <1>4 DEF StoredBelow, StoredUpTo
<1>7. IndexInv'
  <2>1. MetaInv'
    <3>1. meta.indexed \in 0..tip /\ meta.fully \in 0..tip
      BY DEF IndexInv, MetaInv
    <3>2. StoredBelow(meta.indexed)' /\ StoredUpTo(meta.fully)'
      BY <1>2, <1>6, <3>1 DEF IndexInv, MetaInv, StoredBelow, StoredUpTo
    <3>3. 0..tip \subseteq 0..tip'
      BY <1>3
    <3>4. meta' \in [cursor : {NoCursor} \cup 0 .. MaxEvents, indexed : 0 .. tip',
                     fully : 0 .. tip']
      BY <1>2, <3>3 DEF IndexInv, MetaInv
    <3> QED BY <1>2, <3>2, <3>4 DEF IndexInv, MetaInv
  <2>2. RoundInv'
    <3>1. 0..tip \subseteq 0..tip'
      BY <1>3
    <3>2. idx' \in [pc : {"idle", "page", "save", "progress", "stopped"},
                cursor : {NoCursor} \cup 0 .. MaxEvents, start : 0 .. tip', pages : Int,
                resp : [events : SUBSET Positions', latest : 0 .. tip']]
      <4> DEFINE A == [events : SUBSET Positions, latest : 0 .. tip]
                 B == [events : SUBSET Positions', latest : 0 .. tip']
      <4>1. SUBSET Positions \subseteq SUBSET Positions'
        BY <1>3
      <4>2. A \subseteq B
        BY <3>1, <4>1
      <4>3. idx \in [pc : {"idle", "page", "save", "progress", "stopped"},
                     cursor : {NoCursor} \cup 0 .. MaxEvents, start : 0 .. tip, pages : Int,
                     resp : A]
        BY DEF IndexInv, RoundInv
      <4> HIDE DEF A, B
      <4>4. idx \in [pc : {"idle", "page", "save", "progress", "stopped"},
                     cursor : {NoCursor} \cup 0 .. MaxEvents, start : 0 .. tip', pages : Int,
                     resp : B]
        BY <3>1, <4>2, <4>3
      <4> QED BY <1>2, <4>4 DEF B
    <3>3. CASE idx.pc = "page"
      <4>1. StoredBelow(idx.start) => StoredBelow(idx.start)'
        <5>1. idx.start \in 0..tip
          BY DEF IndexInv, RoundInv
        <5> QED BY <1>2, <1>6, <5>1 DEF StoredBelow
      <4> QED BY <1>2, <3>2, <3>3, <4>1 DEF IndexInv, RoundInv
    <3>4. CASE idx.pc \in {"save", "progress"}
      <4> DEFINE E == idx.resp.events
      <4>1. PageInv /\ idx.resp.latest \in 0..tip /\ E \subseteq Positions
        BY <3>4 DEF IndexInv, RoundInv
      <4>2. E \subseteq Visible'
        <5>1. \A p \in E : p \in Positions /\ chain[p].ledger <= tip
          BY <4>1 DEF PageInv, Visible
        <5>2. \A p \in E : chain[p].ledger \in Int
          BY <1>3, <4>1, EventFacts
        <5> QED BY <1>2, <1>3, <5>1, <5>2 DEF Visible
      <4>3. StoredUpTo(idx.resp.latest) => StoredUpTo(idx.resp.latest)'
        BY <1>2, <1>6, <4>1 DEF StoredUpTo
      <4>4. PageInv'
        BY <1>2, <4>1, <4>2, <4>3 DEF PageInv, Downward
      <4> QED BY <1>2, <3>2, <3>4, <4>4 DEF RoundInv
    <3> QED BY <1>2, <3>2, <3>3, <3>4 DEF RoundInv
  <2> QED BY <1>2, <1>3, <1>4, <2>1, <2>2 DEF IndexInv, Downward
<1>8. /\ DOMAIN nullId \subseteq Positions /\ DOMAIN commitId \subseteq Positions
      /\ leafRows \subseteq Positions
      /\ \A S, kind : S \subseteq raw => {p \in S : chain'[p].kind = kind} = OfKind(S, kind)
  BY <1>3, <1>4 DEF RowsInv, OfKind
<1>9. LeavesGapFree'
  <2>1. ASSUME NEW p \in Positions, NEW q \in 1..p PROVE q \in Positions /\ chain'[q] = chain[q]
    <3>1. q \in Positions
      BY DEF Positions
    <3> QED BY <1>3, <3>1
  <2>2. ~HasGap(leafRows, "leaf")'
    BY <1>2, <1>8, <2>1 DEF RowsInv, LeavesGapFree, HasGap, OfKind
  <2>3. ASSUME NEW p \in DOMAIN commitId, NEW q \in 1..p, chain'[q].kind = "commitment"
        PROVE  q \in DOMAIN commitId \/ Refused(q)'
    <3>1. q \in OfKind(1..p, "commitment")
      BY <1>8, <2>1, <2>3 DEF OfKind
    <3>2. q \in DOMAIN commitId \/ Refused(q)
      BY <3>1 DEF RowsInv, LeavesGapFree
    <3> QED BY <1>2, <1>3, <1>8, <3>2, Stays
  <2> QED BY <1>2, <2>2, <2>3 DEF LeavesGapFree, OfKind
<1>10. RowsInv'
  <2>1. \A kind : OfKind(raw, kind)' = OfKind(raw, kind)
    BY <1>2, <1>8 DEF OfKind
  <2>2. Numbered(nullId)' /\ Numbered(commitId)'
    BY <1>2 DEF RowsInv, Numbered
  <2> QED BY <1>2, <1>9, <2>1, <2>2 DEF RowsInv
<1>12. /\ \A p \in DOMAIN nullId : chain'[p] = chain[p]
       /\ \A p \in DOMAIN commitId : chain'[p] = chain[p]
  BY <1>3, <1>8
<1>11. ProcInv'
  BY <1>2, <1>12 DEF ProcInv, ProcType, CommitCount, Processed, BelowFailures
<1>13. \A p : NullifierRowOf(p)' = NullifierRowOf(p)
  BY <1>2, <1>12 DEF NullifierRowOf
<1>14. NothingLost'
  BY <1>2, <1>12, <1>13 DEF NotesInv, NothingLost, NoLostNote, NoSkippedOutput, NoLostSpend
<1>15. NotesInv'
  BY <1>2, <1>13, <1>14 DEF NotesInv, CommitCount
<1>16. WorkInv'
  <2>1. Blocked => Blocked'
    BY <1>2, <1>3, <1>8, Stays
  <2> QED BY <1>2, <2>1 DEF WorkInv, Busy, Processed, AllAt, CommitCount
<1>17. TaskInv'
  BY <1>2, <1>3 DEF TaskInv, ClientType
<1> QED BY <1>3, <1>7, <1>10, <1>11, <1>15, <1>16, <1>17

-----------------------------------------------------------------------------
(* The steps of the wallet's tasks leave the chain alone.                  *)

\* Each part of the invariant is about the variables named here.
LEMMA Frames ==
  ASSUME StoreInv, UNCHANGED ledgerVars
  PROVE  /\ ChainInv'
         /\ UNCHANGED <<indexVars, idx>> => IndexInv'
         /\ UNCHANGED <<raw, rowVars>> => RowsInv'
         /\ UNCHANGED <<raw, rowVars, accounts, proc>> => ProcInv'
         /\ UNCHANGED <<rowVars, noteVars>> => NotesInv'
         /\ UNCHANGED <<raw, rowVars, noteVars, kicked, proc>> => WorkInv'
<1> USE DEF StoreInv, ledgerVars
<1>1. ChainInv'
  BY DEF ChainInv, Positions
<1>2. ASSUME UNCHANGED <<indexVars, idx>> PROVE IndexInv'
  <2>1. MetaInv'
    BY <1>2 DEF IndexInv, MetaInv, StoredBelow, StoredUpTo, Positions, indexVars
  <2>2. RoundInv'
    BY <1>2 DEF IndexInv, RoundInv, PageInv, StoredBelow, StoredUpTo, Positions, Visible,
                Downward, indexVars
  <2> QED BY <1>2, <2>1, <2>2 DEF IndexInv, Downward, Positions, indexVars
<1>3. ASSUME UNCHANGED <<raw, rowVars>> PROVE RowsInv'
  <2>1. LeavesGapFree'
    BY <1>3 DEF RowsInv, LeavesGapFree, Refused, Commitment, HasGap, OfKind, Positions, rowVars
  <2> QED BY <1>3, <2>1 DEF RowsInv, OfKind, Numbered, rowVars
<1>4. ASSUME UNCHANGED <<raw, rowVars, accounts, proc>> PROVE ProcInv'
  BY <1>4 DEF ProcInv, ProcType, CommitCount, Processed, BelowFailures, rowVars
<1>5. ASSUME UNCHANGED <<rowVars, noteVars>> PROVE NotesInv'
  <2>1. \A p : NullifierRowOf(p)' = NullifierRowOf(p)
    BY <1>5 DEF NullifierRowOf, rowVars
  <2>2. NothingLost'
    BY <1>5, <2>1 DEF NotesInv, NothingLost, NoLostNote, NoSkippedOutput, NoLostSpend, rowVars,
       noteVars
  <2> QED BY <1>5, <2>1, <2>2 DEF NotesInv, CommitCount, rowVars, noteVars
<1>6. ASSUME UNCHANGED <<raw, rowVars, noteVars, kicked, proc>> PROVE WorkInv'
  BY <1>6 DEF WorkInv, Busy, Blocked, Processed, AllAt, CommitCount, rowVars, noteVars
<1> QED BY <1>1, <1>2, <1>3, <1>4, <1>5, <1>6

\* The events of the closed ledgers are a prefix of the chain.
LEMMA VisiblePrefix ==
  ASSUME ChainInv
  PROVE  /\ Visible \subseteq Positions /\ Downward(Visible)
         /\ Cardinality(Visible) \in 0..MaxEvents
         /\ Visible = 1..Cardinality(Visible)
         /\ Positions = 1..Len(chain) /\ Len(chain) \in Nat /\ Len(chain) <= MaxEvents
<1> DEFINE n == Len(chain)
<1>1. n \in Nat /\ n <= MaxEvents /\ MaxEvents \in Nat /\ tip \in Int
  BY LimitsArePositive DEF ChainInv
<1>2. Visible \subseteq 1..n
  BY DEF Visible, Positions
<1>3. ASSUME NEW p \in Visible, NEW q \in 1..p PROVE q \in Visible
  <2>1. p \in Positions /\ chain[p].ledger <= tip
    BY DEF Visible
  <2>2. q \in Positions /\ q <= p
    BY <1>1, <2>1 DEF Positions
  <2>3. chain[q].ledger <= chain[p].ledger
    BY <2>1, <2>2 DEF ChainInv
  <2>4. chain[q].ledger \in Int /\ chain[p].ledger \in Int
    BY <2>1, <2>2, EventFacts
  <2> QED BY <1>1, <2>1, <2>2, <2>3, <2>4 DEF Visible
<1>4. \A p \in Visible : 1..p \subseteq Visible
  BY <1>3
<1>5. Cardinality(Visible) \in 0..n /\ Visible = 1..Cardinality(Visible)
  BY <1>1, <1>2, <1>4, DownwardInterval
<1> QED BY <1>1, <1>2, <1>4, <1>5 DEF Downward, Positions

\* A round starts where the stored events end.
LEMMA StartRoundKeeps ==
  ASSUME StoreInv, StartRound
  PROVE  IndexInv'
<1> USE DEF StoreInv, StartRound, ledgerVars, indexVars
<1>1. NoPage \in [events : SUBSET Positions, latest : 0 .. tip]
  BY DEF NoPage, ChainInv
<1>2. StartLedger \in 0..tip /\ StoredBelow(StartLedger)
  <2>1. meta.indexed \in 0..tip /\ StoredBelow(meta.indexed)
    BY DEF IndexInv, MetaInv
  <2>2. \A p \in Positions : ~(chain[p].ledger < 1)
    <3>1. \A e \in EventRecords : ~(e.ledger < 1)
      BY LimitsArePositive DEF EventRecords
    <3> QED BY <3>1, EventFacts
  <2> QED BY <2>1, <2>2 DEF StartLedger, StoredBelow, ChainInv
<1>3. MaxPages \in Int
  BY LimitsArePositive
<1>4. RoundInv'
  <2>1. meta.cursor \in {NoCursor} \cup 0..MaxEvents
        /\ (meta.cursor # NoCursor => 1 .. meta.cursor \subseteq raw)
    BY DEF IndexInv, MetaInv
  <2>2. idx' = [pc |-> "page", cursor |-> meta.cursor, start |-> StartLedger,
                pages |-> MaxPages, resp |-> NoPage]
    OBVIOUS
  <2> QED BY <1>1, <1>2, <1>3, <2>1, <2>2 DEF RoundInv, StoredBelow, Positions
<1> QED BY <1>4 DEF IndexInv, MetaInv, StoredBelow, StoredUpTo, Downward, Positions

\* A page continues the stored events without a gap, and an empty one proves
\* that none is missing.
LEMMA FetchPageKeeps ==
  ASSUME StoreInv, FetchPage
  PROVE  IndexInv'
<1> USE DEF StoreInv, ledgerVars, indexVars
<1> DEFINE W == {p \in Visible : IF idx.cursor = NoCursor THEN chain[p].ledger >= idx.start
                                                           ELSE p > idx.cursor}
           E == RpcEvents(idx.cursor, idx.start)
           c == RpcCursor(E)
<1>1. /\ idx.pc = "page"
      /\ idx' = [idx EXCEPT !.pc = "save", !.cursor = c,
                            !.resp = [events |-> E, latest |-> tip]]
      /\ UNCHANGED <<chain, tip, raw, meta>>
  BY DEF FetchPage
<1>2. /\ E = FirstN(W, PageSize)
      /\ PageSize \in Nat \ {0} /\ MaxEvents \in Nat
  BY LimitsArePositive DEF RpcEvents
<1>3. /\ Visible \subseteq Positions /\ Downward(Visible)
      /\ Cardinality(Visible) \in 0..MaxEvents /\ Visible = 1..Cardinality(Visible)
      /\ W \subseteq 1..MaxEvents
  <2>1. W \subseteq Visible
    OBVIOUS
  <2>2. 1..Cardinality(Visible) \subseteq 1..MaxEvents
    BY <1>2, VisiblePrefix
  <2> HIDE DEF W
  <2> QED BY <2>1, <2>2, VisiblePrefix
<1>4. /\ E \subseteq W
      /\ \A p \in E, q \in W : q < p => q \in E
      /\ Cardinality(E) # PageSize => E = W
      /\ E = {} => W = {}
  <2> HIDE DEF W, E
  <2> QED BY <1>2, <1>3, FirstNFacts
<1>5. ASSUME NEW q \in Visible, q \notin W PROVE q \in raw
  <2>1. q \in Positions /\ q \in Nat /\ chain[q].ledger \in Int
    BY <1>3, EventFacts DEF Positions
  <2>2. idx.cursor \in {NoCursor} \cup 0..MaxEvents /\ idx.start \in 0..tip /\ tip \in Nat
    BY DEF IndexInv, RoundInv, ChainInv
  <2>3. CASE idx.cursor = NoCursor
    <3>1. StoredBelow(idx.start)
      BY <1>1, <2>3 DEF IndexInv, RoundInv
    <3>2. chain[q].ledger < idx.start
      BY <1>5, <2>1, <2>2, <2>3
    <3> QED BY <2>1, <3>1, <3>2 DEF StoredBelow
  <2>4. CASE idx.cursor # NoCursor
    <3>1. 1 .. idx.cursor \subseteq raw
      BY <1>1, <2>4 DEF IndexInv, RoundInv
    <3>2. q \in 1..idx.cursor
      <4>1. q >= 1
        BY <1>3
      <4> QED BY <1>2, <1>5, <2>1, <2>2, <2>4, <4>1 DEF NoCursor
    <3> QED BY <3>1, <3>2
  <2> QED BY <2>3, <2>4
<1>6. E \subseteq Visible /\ E \subseteq Positions
  BY <1>3, <1>4
<1> HIDE DEF W, E
<1>7. Downward(raw \cup E)
  <2>1. ASSUME NEW p \in raw PROVE 1..p \subseteq raw \cup E
    BY DEF IndexInv, Downward
  <2>2. ASSUME NEW p \in E, NEW q \in 1..p PROVE q \in raw \cup E
    <3>1. q \in Visible
      BY <1>3, <1>6 DEF Downward
    <3>2. CASE q \in W
      <4>1. p \in Nat
        BY <1>6 DEF Positions
      <4>2. CASE q = p
        BY <4>2
      <4>3. CASE q # p
        <5>1. q < p
          BY <4>1, <4>3
        <5> QED BY <1>4, <3>2, <5>1
      <4> QED BY <4>2, <4>3
    <3>3. CASE q \notin W
      BY <1>5, <3>1, <3>3
    <3> QED BY <3>2, <3>3
  <2> QED BY <2>1, <2>2 DEF Downward
<1>8. ASSUME E = W PROVE Visible \subseteq raw \cup E
  BY <1>5, <1>8
<1>9. c \in 0..MaxEvents /\ 1..c \subseteq raw \cup E
  <2>1. CASE Cardinality(E) = PageSize
    <3>1. E # {}
      BY <1>2, <2>1, FS_EmptySet
    <3>2. E \subseteq 0..MaxEvents
      BY <1>3, <1>4
    <3>3. c = MaxOf(E)
      BY <2>1 DEF RpcCursor
    <3>4. c \in E
      BY <1>2, <3>1, <3>2, <3>3, Extremes
    <3>5. 1..c \subseteq raw \cup E
      BY <1>7, <3>4 DEF Downward
    <3> QED BY <3>2, <3>4, <3>5
  <2>2. CASE Cardinality(E) # PageSize
    <3>1. c = Cardinality(Visible)
      BY <2>2 DEF RpcCursor
    <3>2. E = W
      BY <1>4, <2>2
    <3> QED BY <1>3, <1>8, <3>1, <3>2
  <2> QED BY <2>1, <2>2
<1>10. ASSUME E = {} PROVE StoredUpTo(tip)
  <2>1. E = W
    BY <1>4, <1>10
  <2> QED BY <1>8, <1>10, <2>1 DEF StoredUpTo, Visible
<1>11. c # NoCursor /\ tip \in 0..tip /\ NoCursor = -1
  BY <1>9 DEF NoCursor, ChainInv
<1> HIDE DEF c
<1>12. /\ idx' \in [pc : {"idle", "page", "save", "progress", "stopped"},
                    cursor : {NoCursor} \cup 0 .. MaxEvents, start : 0 .. tip, pages : Int,
                    resp : [events : SUBSET Positions, latest : 0 .. tip]]
       /\ idx'.pc = "save" /\ idx'.cursor = c
       /\ idx'.resp.events = E /\ idx'.resp.latest = tip
  <2>1. idx \in [pc : {"idle", "page", "save", "progress", "stopped"},
                 cursor : {NoCursor} \cup 0 .. MaxEvents, start : 0 .. tip, pages : Int,
                 resp : [events : SUBSET Positions, latest : 0 .. tip]]
    BY DEF IndexInv, RoundInv
  <2>2. [events |-> E, latest |-> tip] \in [events : SUBSET Positions, latest : 0 .. tip]
    BY <1>6, <1>11
  <2> QED BY <1>1, <1>9, <2>1, <2>2
<1>13. PageInv'
  <2>1. Visible' = Visible
    BY <1>1 DEF Visible, Positions
  <2>2. StoredUpTo(tip) => StoredUpTo(idx.resp.latest)'
    BY <1>1, <1>12 DEF StoredUpTo, Positions
  <2> QED BY <1>1, <1>6, <1>7, <1>9, <1>10, <1>11, <1>12, <2>1, <2>2 DEF PageInv, Downward
<1>14. RoundInv'
  BY <1>1, <1>12, <1>13 DEF RoundInv, Positions
<1> QED BY <1>1, <1>14 DEF IndexInv, MetaInv, StoredBelow, StoredUpTo, Downward, Positions

\* Storing a page: the tables built from raw events stay, and the processor is
\* woken.
LEMMA SaveEventsBatchKeeps ==
  ASSUME StoreInv, SaveEventsBatch
  PROVE  StoreInv'
<1> USE DEF StoreInv
<1> DEFINE E == idx.resp.events
<1>1. /\ idx.pc = "save" /\ ~Busy /\ raw' = raw \cup E /\ kicked' = TRUE
      /\ idx' = [idx EXCEPT !.pc = "progress"]
      /\ UNCHANGED <<chain, tip, meta, nullId, commitId, keyRows, leafRows, accounts, scanned,
                     reconciled, notes, proc, client, faults>>
  BY DEF SaveEventsBatch, KickProcessor, ledgerVars, rowVars, noteVars
<1>2. /\ ChainInv'
      /\ NotesInv'
  BY <1>1, Frames DEF ledgerVars, rowVars, noteVars
<1>3. PageInv /\ E \subseteq Positions /\ Positions' = Positions
  BY <1>1 DEF IndexInv, RoundInv, Positions
<1>4. raw \subseteq raw' /\ raw' \subseteq Positions' /\ Downward(raw')
  BY <1>1, <1>3 DEF IndexInv, PageInv
<1>5. /\ idx' \in [pc : {"idle", "page", "save", "progress", "stopped"},
                   cursor : {NoCursor} \cup 0 .. MaxEvents, start : 0 .. tip, pages : Int,
                   resp : [events : SUBSET Positions, latest : 0 .. tip]]
      /\ idx'.pc = "progress" /\ idx'.cursor = idx.cursor /\ idx'.resp = idx.resp
  <2>1. idx \in [pc : {"idle", "page", "save", "progress", "stopped"},
                 cursor : {NoCursor} \cup 0 .. MaxEvents, start : 0 .. tip, pages : Int,
                 resp : [events : SUBSET Positions, latest : 0 .. tip]]
    BY DEF IndexInv, RoundInv
  <2> QED BY <1>1, <2>1
<1>6. IndexInv'
  <2>1. MetaInv'
    <3>1. StoredBelow(meta.indexed)' /\ StoredUpTo(meta.fully)'
      BY <1>1, <1>3, <1>4 DEF IndexInv, MetaInv, StoredBelow, StoredUpTo
    <3> QED BY <1>1, <1>4, <3>1 DEF IndexInv, MetaInv
  <2>2. PageInv'
    <3>1. StoredUpTo(idx.resp.latest) => StoredUpTo(idx.resp.latest)'
      BY <1>1, <1>3, <1>4, <1>5 DEF StoredUpTo
    <3>2. Visible' = Visible
      BY <1>1 DEF Visible, Positions
    <3>3. raw' \cup idx'.resp.events = raw'
      BY <1>1, <1>5
    <3> QED BY <1>1, <1>3, <1>4, <1>5, <3>1, <3>2, <3>3 DEF PageInv
  <2>3. RoundInv'
    BY <1>1, <1>3, <1>5, <2>2 DEF RoundInv
  <2> QED BY <1>4, <2>1, <2>3 DEF IndexInv
<1>7. RowsInv'
  <2>1. \A kind : OfKind(raw, kind) \subseteq OfKind(raw, kind)'
    BY <1>1, <1>4 DEF OfKind
  <2>2. LeavesGapFree'
    BY <1>1 DEF RowsInv, LeavesGapFree, Refused, Commitment, HasGap, OfKind, Positions
  <2>3. Numbered(nullId)' /\ Numbered(commitId)'
    BY <1>1 DEF RowsInv, Numbered
  <2> QED BY <1>1, <2>1, <2>2, <2>3 DEF RowsInv
<1>8. ProcInv'
  <2>1. SUBSET raw \subseteq SUBSET raw'
    BY <1>4
  <2>2. CommitCount' = CommitCount /\ Processed' = Processed
    BY <1>1 DEF CommitCount, Processed
  <2>3. proc' \in ProcType'
    BY <1>1, <2>1, <2>2 DEF ProcInv, ProcType
  <2> QED BY <1>1, <2>2, <2>3 DEF ProcInv, BelowFailures
<1>9. WorkInv'
  BY <1>1 DEF WorkInv, Busy
<1>10. TaskInv'
  BY <1>1, <1>3 DEF TaskInv, ClientType
<1> QED BY <1>2, <1>6, <1>7, <1>8, <1>9, <1>10

\* The progress saved is covered by the stored events.
LEMMA SaveSyncProgressKeeps ==
  ASSUME StoreInv, SaveSyncProgress
  PROVE  IndexInv'
<1> USE DEF StoreInv
<1> DEFINE E == idx.resp.events
           ledgers == {chain[p].ledger : p \in E}
           more == idx.resp.events # {} /\ idx.pages > 1
<1>1. /\ idx.pc = "progress"
      /\ meta' = [cursor |-> idx.cursor, indexed |-> ProgressLedger(idx.resp),
                  fully |-> FullyIndexed(idx.resp)]
      /\ idx' = IF more THEN [idx EXCEPT !.pc = "page", !.pages = @ - 1, !.resp = NoPage]
                        ELSE IdleRound
      /\ UNCHANGED <<chain, tip, raw>>
  BY DEF SaveSyncProgress, ledgerVars
<1>2. /\ PageInv /\ E \subseteq raw /\ E \subseteq Visible /\ Downward(raw)
      /\ idx.cursor # NoCursor /\ 1..idx.cursor \subseteq raw
      /\ idx.cursor \in {NoCursor} \cup 0..MaxEvents
      /\ idx.resp.latest \in 0..tip /\ tip \in Nat
      /\ E = {} => StoredUpTo(idx.resp.latest)
  <2>1. PageInv /\ E \subseteq raw
    BY <1>1 DEF IndexInv, RoundInv, PageInv
  <2>2. raw \cup E = raw
    BY <2>1
  <2>3. tip \in Nat
    BY DEF ChainInv
  <2> QED BY <2>1, <2>2, <2>3 DEF IndexInv, RoundInv, PageInv
<1>3. ProgressLedger(idx.resp) \in 0..tip /\ StoredBelow(ProgressLedger(idx.resp))
  <2>1. CASE E = {}
    <3>1. \A p \in Positions : chain[p].ledger \in Int
      BY EventFacts
    <3> QED BY <1>2, <2>1, <3>1 DEF ProgressLedger, StoredBelow, StoredUpTo
  <2>2. CASE E # {}
    <3>1. \A p \in E : p \in Positions /\ chain[p].ledger \in 0..tip
      <4>1. \A p \in E : p \in Positions /\ chain[p].ledger <= tip
        BY <1>2 DEF Visible
      <4>2. \A e \in EventRecords : e.ledger \in Nat
        BY LimitsArePositive DEF EventRecords
      <4> QED BY <1>2, <4>1, <4>2, EventFacts
    <3>2. ledgers \subseteq 0..tip /\ ledgers # {}
      BY <2>2, <3>1
    <3>3. ProgressLedger(idx.resp) = MaxOf(ledgers)
      BY <2>2 DEF ProgressLedger
    <3>4. MaxOf(ledgers) \in ledgers
      <4> HIDE DEF ledgers
      <4> QED BY <1>2, <3>2, Extremes
    <3>5. PICK p \in E : MaxOf(ledgers) = chain[p].ledger
      BY <3>4
    <3>6. ASSUME NEW q \in Positions, chain[q].ledger < chain[p].ledger PROVE q \in raw
      <4>1. p \in Nat /\ q \in Nat /\ q >= 1
        BY <3>1 DEF Positions
      <4>2. CASE p <= q
        <5>1. chain[p].ledger <= chain[q].ledger
          BY <3>1, <4>2 DEF ChainInv
        <5> QED BY <3>1, <3>6, <5>1, EventFacts
      <4>3. CASE ~(p <= q)
        <5>1. q \in 1..p
          BY <4>1, <4>3
        <5> QED BY <1>2, <5>1 DEF Downward
      <4> QED BY <4>2, <4>3
    <3>7. StoredBelow(chain[p].ledger)
      BY <3>6 DEF StoredBelow
    <3> HIDE DEF ledgers
    <3> QED BY <3>1, <3>3, <3>5, <3>7
  <2> QED BY <2>1, <2>2
<1>4. FullyIndexed(idx.resp) \in 0..tip /\ StoredUpTo(FullyIndexed(idx.resp))
  BY <1>2 DEF FullyIndexed, ProgressLedger, IndexInv, MetaInv
<1>5. MetaInv'
  <2>1. /\ meta'.cursor = idx.cursor /\ meta'.indexed = ProgressLedger(idx.resp)
        /\ meta'.fully = FullyIndexed(idx.resp)
        /\ meta' \in [cursor : {NoCursor} \cup 0 .. MaxEvents, indexed : 0 .. tip,
                      fully : 0 .. tip]
    BY <1>1, <1>2, <1>3, <1>4
  <2>2. StoredBelow(meta.indexed)' /\ StoredUpTo(meta.fully)'
    BY <1>1, <1>3, <1>4, <2>1 DEF StoredBelow, StoredUpTo, Positions
  <2> QED BY <1>1, <1>2, <2>1, <2>2 DEF MetaInv
<1>6. RoundInv'
  <2>1. NoPage \in [events : SUBSET Positions, latest : 0 .. tip] /\ 0 \in 0..tip
    BY <1>2 DEF NoPage
  <2>2. idx \in [pc : {"idle", "page", "save", "progress", "stopped"},
                 cursor : {NoCursor} \cup 0 .. MaxEvents, start : 0 .. tip, pages : Int,
                 resp : [events : SUBSET Positions, latest : 0 .. tip]]
    BY DEF IndexInv, RoundInv
  <2>3. CASE more
    <3>1. idx' = [idx EXCEPT !.pc = "page", !.pages = @ - 1, !.resp = NoPage]
      BY <1>1, <2>3
    <3>2. idx.pages - 1 \in Int
      BY <2>2
    <3>3. /\ idx' \in [pc : {"idle", "page", "save", "progress", "stopped"},
                 cursor : {NoCursor} \cup 0 .. MaxEvents, start : 0 .. tip, pages : Int,
                 resp : [events : SUBSET Positions, latest : 0 .. tip]]
          /\ idx'.pc = "page" /\ idx'.cursor = idx.cursor
      BY <2>1, <2>2, <3>1, <3>2
    <3> QED BY <1>1, <1>2, <3>3 DEF RoundInv, Positions
  <2>4. CASE ~more
    <3>1. idx' = IdleRound
      BY <1>1, <2>4
    <3>2. Positions' = Positions /\ tip' = tip
      BY <1>1 DEF Positions
    <3> QED BY <2>1, <3>1, <3>2 DEF RoundInv, IdleRound
  <2> QED BY <2>3, <2>4
<1> QED BY <1>1, <1>5, <1>6 DEF IndexInv, Downward, Positions

\* A round given up leaves nothing behind.
LEMMA IdleRoundKeeps ==
  ASSUME StoreInv, UNCHANGED <<ledgerVars, indexVars>>,
         idx' \in {IdleRound, [IdleRound EXCEPT !.pc = "stopped"]}
  PROVE  IndexInv'
<1> USE DEF StoreInv, ledgerVars, indexVars
<1>1. NoPage \in [events : SUBSET Positions, latest : 0 .. tip] /\ 0 \in 0..tip
  BY DEF NoPage, ChainInv
<1>2. RoundInv'
  BY <1>1 DEF RoundInv, IdleRound, Positions
<1> QED BY <1>2 DEF IndexInv, MetaInv, StoredBelow, StoredUpTo, Downward, Positions

\* Without a cursor the next round starts with the ledger last indexed.
LEMMA ClearKeeps ==
  ASSUME StoreInv, ClearIndexingCursors
  PROVE  IndexInv'
<1> USE DEF StoreInv
<1>1. meta' = [meta EXCEPT !.cursor = NoCursor] /\ UNCHANGED <<chain, tip, raw, idx>>
  BY DEF ClearIndexingCursors, ledgerVars
<1>2. MetaInv'
  <2>1. /\ meta' \in [cursor : {NoCursor} \cup 0 .. MaxEvents, indexed : 0 .. tip,
                      fully : 0 .. tip]
        /\ meta'.cursor = NoCursor /\ meta'.indexed = meta.indexed
        /\ meta'.fully = meta.fully
    BY <1>1 DEF IndexInv, MetaInv
  <2> QED BY <1>1, <2>1 DEF IndexInv, MetaInv, StoredBelow, StoredUpTo, Positions
<1>3. RoundInv'
  BY <1>1 DEF IndexInv, RoundInv, PageInv, StoredBelow, StoredUpTo, Positions, Visible, Downward
<1> QED BY <1>1, <1>2, <1>3 DEF IndexInv, Downward, Positions

-----------------------------------------------------------------------------
(* The processor's iteration.                                              *)

\* The tables are finite, and their rows are at most as many as the events.
LEMMA Counts ==
  ASSUME StoreInv
  PROVE  /\ raw \subseteq 1..MaxEvents /\ MaxEvents \in Nat
         /\ DOMAIN nullId \subseteq raw /\ DOMAIN commitId \subseteq raw
         /\ keyRows \subseteq raw /\ leafRows \subseteq raw
         /\ IsFiniteSet(DOMAIN nullId) /\ Cardinality(DOMAIN nullId) \in 0..MaxEvents
         /\ IsFiniteSet(DOMAIN commitId) /\ CommitCount \in 0..MaxEvents
<1>1. raw \subseteq 1..MaxEvents /\ MaxEvents \in Nat
  <2>1. Len(chain) \in Nat /\ Len(chain) <= MaxEvents /\ MaxEvents \in Nat
    BY LimitsArePositive DEF StoreInv, ChainInv
  <2>2. 1..Len(chain) \subseteq 1..MaxEvents
    BY <2>1
  <2> QED BY <2>1, <2>2 DEF StoreInv, IndexInv, Positions
<1>2. /\ DOMAIN nullId \subseteq raw /\ DOMAIN commitId \subseteq raw
      /\ keyRows \subseteq raw /\ leafRows \subseteq raw
  BY DEF StoreInv, RowsInv, OfKind
<1>3. ASSUME NEW S \in SUBSET raw
      PROVE  IsFiniteSet(S) /\ Cardinality(S) \in 0..MaxEvents
  <2>1. IsFiniteSet(1..MaxEvents) /\ Cardinality(1..MaxEvents) = MaxEvents
    BY <1>1, FS_Interval
  <2>2. S \in SUBSET (1..MaxEvents)
    BY <1>1
  <2>3. IsFiniteSet(S) /\ Cardinality(S) <= MaxEvents
    BY <2>1, <2>2, FS_Subset
  <2>4. Cardinality(S) \in Nat
    BY <2>3, FS_CardinalityType
  <2> QED BY <1>1, <2>3, <2>4
<1> QED BY <1>1, <1>2, <1>3 DEF CommitCount

\* An iteration takes the first stored events that have no row; if there are
\* none, every stored event has one.
LEMMA BeginIterationKeeps ==
  ASSUME StoreInv, BeginIteration
  PROVE  StoreInv'
<1> USE DEF StoreInv
<1> DEFINE B == UnprocessedEvents
<1>1. /\ kicked' \in {kicked, FALSE}
      /\ proc' = [IdleProc EXCEPT !.pc = IF B = {} THEN "notes" ELSE "nullifiers",
                                  !.batch = B, !.did = B # {}]
      /\ UNCHANGED <<ledgerVars, indexVars, rowVars, noteVars, idx, client, faults>>
  BY DEF BeginIteration
<1>2. UNCHANGED <<chain, tip, raw, meta, nullId, commitId, keyRows, leafRows, accounts, scanned,
                  reconciled, notes>>
  BY <1>1 DEF ledgerVars, indexVars, rowVars, noteVars
<1>3. ChainInv' /\ IndexInv' /\ RowsInv' /\ NotesInv'
  BY <1>1, <1>2, Frames DEF rowVars, noteVars, ledgerVars, indexVars
<1>4. /\ B \subseteq raw \ Processed
      /\ \A p \in B, q \in raw \ Processed : q < p => q \in B
      /\ B = {} => raw \ Processed = {}
  <2>1. raw \ Processed \subseteq 1..MaxEvents /\ MaxEvents \in Nat /\ FetchLimit \in Nat \ {0}
    BY Counts, LimitsArePositive
  <2> QED BY <2>1, FirstNFacts DEF UnprocessedEvents
<1> HIDE DEF B
<1>5. /\ proc' \in ProcType /\ proc'.batch = B /\ proc'.did = (B # {})
      /\ proc'.pc = IF B = {} THEN "notes" ELSE "nullifiers"
      /\ ~proc'.moved
  <2>1. [a \in Accounts |-> 0] \in [Accounts -> 0..CommitCount]
    BY Counts
  <2>2. 0 \in 0..FetchLimit
    BY LimitsArePositive
  <2>3. B \in SUBSET raw /\ (B # {}) \in BOOLEAN
    BY <1>4
  <2>4. /\ proc' = [pc |-> IF B = {} THEN "notes" ELSE "nullifiers", batch |-> B,
                    did |-> B # {}, marks |-> [a \in Accounts |-> 0], quota |-> 0, turn |-> 0,
                    moved |-> FALSE]
    BY <1>1 DEF IdleProc
  <2> QED BY <2>1, <2>2, <2>3, <2>4 DEF ProcType
<1>6. ProcInv'
  <2>1. ASSUME NEW p \in B, NEW q \in 1..p PROVE q \in B \cup Processed
    <3>1. p \in raw /\ p \in Nat
      BY <1>4, Counts
    <3>2. q \in raw /\ (q = p \/ q < p)
      BY <3>1 DEF IndexInv, Downward
    <3> QED BY <1>4, <3>2
  <2>2. ProcType' = ProcType /\ Processed' = Processed
    BY <1>2 DEF ProcType, CommitCount, Processed
  <2> QED BY <1>5, <2>1, <2>2 DEF ProcInv
<1>7. WorkInv'
  <2>1. ~proc'.did => raw \subseteq Processed
    BY <1>4, <1>5
  <2>2. Processed' = Processed
    BY <1>2 DEF Processed
  <2> QED BY <1>2, <1>5, <2>1, <2>2 DEF WorkInv
<1>8. TaskInv'
  <2>1. kicked' \in BOOLEAN
    BY <1>1 DEF TaskInv, ClientType
  <2> QED BY <1>1, <1>2, <2>1 DEF TaskInv, ClientType, Positions
<1> QED BY <1>3, <1>6, <1>7, <1>8

\* A table that has every earlier leaf still has it when a batch is added.
LEMMA GapFreeUnion ==
  ASSUME StoreInv, NEW kind, NEW rows, ~HasGap(rows, kind),
         OfKind(Processed, kind) \subseteq rows
  PROVE  ~HasGap(rows \cup OfKind(proc.batch, kind), kind)
<1>1. ASSUME NEW p \in rows, NEW q \in OfKind(1..p, kind) PROVE q \in rows
  BY DEF HasGap
<1>2. ASSUME NEW p \in OfKind(proc.batch, kind), NEW q \in OfKind(1..p, kind)
      PROVE  q \in rows \cup OfKind(proc.batch, kind)
  <2>1. q \in proc.batch \cup Processed /\ chain[q].kind = kind
    BY DEF StoreInv, ProcInv, OfKind
  <2> QED BY <2>1 DEF OfKind
<1> QED BY <1>1, <1>2 DEF HasGap

\* The processed events of a kind are in the table of that kind.
LEMMA TablesByKind ==
  ASSUME StoreInv
  PROVE  /\ OfKind(Processed, "commitment") \subseteq DOMAIN commitId
         /\ OfKind(Processed, "leaf") \subseteq leafRows
         /\ OfKind(Processed, "nullifier") \subseteq DOMAIN nullId
BY DEF StoreInv, RowsInv, OfKind, Processed

\* What the four saves have in common: only rows are added.
LEMMA RowsAdded ==
  ASSUME StoreInv, RowsInv', NotesInv',
         UNCHANGED <<ledgerVars, indexVars, noteVars, idx, kicked, client, faults>>,
         Processed \subseteq Processed', CommitCount' \in Nat, CommitCount <= CommitCount',
         proc.pc \in {"nullifiers", "commitments", "keys", "leaves"},
         NEW next \in {"commitments", "keys", "leaves", "notes"}, NEW b \in {proc.batch, {}},
         proc' = [proc EXCEPT !.pc = next, !.batch = b]
  PROVE  StoreInv'
<1> USE DEF StoreInv
<1>1. UNCHANGED <<chain, tip, raw, meta, accounts, scanned, reconciled, notes, idx, kicked,
                  client, faults>>
  BY DEF ledgerVars, indexVars, noteVars
<1>2. ChainInv' /\ IndexInv'
  BY Frames
<1>3. /\ proc'.pc = next /\ proc'.batch = b /\ proc'.did = proc.did /\ proc'.moved = proc.moved
      /\ proc' \in ProcType'
  <2>1. CommitCount' \in Nat /\ CommitCount \in Nat /\ 0..CommitCount \subseteq 0..CommitCount'
    BY Counts
  <2>2. [Accounts -> 0..CommitCount] \subseteq [Accounts -> 0..CommitCount']
    BY <2>1
  <2>3. proc \in ProcType
    BY DEF ProcInv
  <2>4. proc' \in ProcType
    BY <2>3 DEF ProcType
  <2>5. ProcType' = [pc : {"idle", "nullifiers", "commitments", "keys", "leaves", "notes",
                           "scan", "commit", "reconcile", "yield"},
                     batch : SUBSET raw, did : BOOLEAN, marks : [Accounts -> 0..CommitCount'],
                     quota : 0..FetchLimit, turn : Nat, moved : BOOLEAN]
    BY <1>1 DEF ProcType
  <2>6. proc' \in ProcType'
    BY <2>2, <2>4, <2>5 DEF ProcType
  <2> QED BY <2>3, <2>6 DEF ProcType
<1>4. ProcInv'
  BY <1>3 DEF ProcInv
<1>5. WorkInv'
  <2>1. ~proc.did => raw \subseteq Processed
    BY DEF WorkInv, Busy
  <2> QED BY <1>1, <1>3, <2>1 DEF WorkInv
<1>6. TaskInv'
  BY <1>1 DEF TaskInv, ClientType, Positions
<1> QED BY <1>2, <1>4, <1>5, <1>6

\* New nullifier rows are ahead of the reconciliation mark.
LEMMA SaveNullifiersKeeps ==
  ASSUME StoreInv, SaveNullifierEvents
  PROVE  StoreInv'
<1> USE DEF StoreInv
<1> DEFINE S == OfKind(proc.batch, "nullifier")
           c == Cardinality(DOMAIN nullId)
<1>1. /\ proc.pc = "nullifiers" /\ nullId' = WithRows(nullId, S)
      /\ proc' = [proc EXCEPT !.pc = "commitments"]
      /\ UNCHANGED <<ledgerVars, indexVars, noteVars, idx, kicked, client, faults>>
      /\ UNCHANGED <<chain, raw, commitId, keyRows, leafRows, accounts, scanned, reconciled,
                     notes>>
  BY DEF SaveNullifierEvents, ledgerVars, indexVars, noteVars
<1>2. proc.batch \subseteq raw /\ S \subseteq OfKind(raw, "nullifier")
  BY DEF ProcInv, ProcType, OfKind
<1>3. /\ DOMAIN nullId \subseteq 1..MaxEvents /\ S \subseteq 1..MaxEvents /\ MaxEvents \in Nat
      /\ CommitCount \in Nat
  BY <1>2, Counts DEF OfKind
<1>4. /\ Numbered(nullId')
      /\ DOMAIN nullId' = DOMAIN nullId \cup S
      /\ \A p \in DOMAIN nullId : nullId'[p] = nullId[p]
      /\ \A p \in S \ DOMAIN nullId : nullId'[p] > c
      /\ c \in Nat /\ Cardinality(DOMAIN nullId') \in Nat
      /\ c <= Cardinality(DOMAIN nullId')
  <2>1. Numbered(nullId)
    BY DEF RowsInv
  <2> HIDE DEF S
  <2> QED BY <1>1, <1>3, <2>1, WithRowsNumbered
<1> HIDE DEF S, c
<1>5. CommitCount' = CommitCount /\ CommitCount <= CommitCount
  BY <1>1, <1>3 DEF CommitCount
<1>6. RowsInv'
  <2>1. \A kind : OfKind(raw, kind)' = OfKind(raw, kind)
    BY <1>1 DEF OfKind
  <2>2. DOMAIN nullId' \subseteq OfKind(raw, "nullifier")
    BY <1>2, <1>4 DEF RowsInv
  <2>3. LeavesGapFree' /\ Numbered(commitId)' /\ Numbered(nullId)'
    <3>1. LeavesGapFree'
      BY <1>1 DEF RowsInv, LeavesGapFree, Refused, Commitment, HasGap, OfKind, Positions
    <3> QED BY <1>1, <1>4, <3>1 DEF RowsInv, Numbered
  <2> QED BY <1>1, <2>1, <2>2, <2>3 DEF RowsInv
<1>7. NotesInv'
  <2>1. reconciled \in 0..c
    BY DEF NotesInv, c
  <2>2. \A p : NullifierRowOf(p) \subseteq NullifierRowOf(p)'
    BY <1>1, <1>4 DEF NullifierRowOf
  <2>3. NoLostSpend'
    <3>1. ASSUME NEW n \in notes, n.spent = 0, NEW q \in NullifierRowOf(n.pos)'
          PROVE  nullId'[q] > reconciled
      <4>1. q \in DOMAIN nullId \cup S /\ chain[q].arg = n.pos
        BY <1>1, <1>4 DEF NullifierRowOf
      <4>2. CASE q \in DOMAIN nullId
        <5>1. q \in NullifierRowOf(n.pos)
          BY <4>1, <4>2 DEF NullifierRowOf
        <5> QED BY <1>4, <3>1, <4>2, <5>1 DEF NotesInv, NothingLost, NoLostSpend
      <4>3. CASE q \notin DOMAIN nullId
        <5>1. nullId'[q] > c
          BY <1>4, <4>1, <4>3
        <5>2. nullId'[q] \in Int
          BY <1>4, <4>1 DEF Numbered
        <5> QED BY <1>4, <2>1, <5>1, <5>2
      <4> QED BY <4>2, <4>3
    <3> QED BY <1>1, <3>1 DEF NoLostSpend
  <2>4. NoLostNote' /\ NoSkippedOutput'
    BY <1>1 DEF NotesInv, NothingLost, NoLostNote, NoSkippedOutput
  <2>5. reconciled' \in 0..Cardinality(DOMAIN nullId')
    BY <1>1, <1>4, <2>1
  <2> QED BY <1>1, <1>5, <2>2, <2>3, <2>4, <2>5 DEF NotesInv, NothingLost
<1>8. Processed \subseteq Processed'
  BY <1>1, <1>4 DEF Processed
<1>9. proc' = [proc EXCEPT !.pc = "commitments", !.batch = proc.batch]
  BY <1>1 DEF ProcInv, ProcType
<1> QED BY <1>1, <1>3, <1>5, <1>6, <1>7, <1>8, <1>9, RowsAdded

\* What is not accepted has its commitment stored under another event.
LEMMA AcceptedCovers ==
  ASSUME NEW m \in Nat, NEW B, B \subseteq 1..m, NEW q \in B,
         q \notin DOMAIN commitId \cup Accepted(B)
  PROVE  \E r \in DOMAIN commitId \cup Accepted(B) : Commitment(r) = Commitment(q)
<1> DEFINE Same == {r \in B : Commitment(r) = Commitment(q)}
           last == MaxOf(Same)
<1>1. last \in Same /\ \A r \in Same : r <= last
  <2>1. Same \subseteq 0..m /\ Same # {}
    <3>1. 1..m \subseteq 0..m
      OBVIOUS
    <3>2. Same \subseteq B /\ q \in Same
      OBVIOUS
    <3> HIDE DEF Same
    <3> QED BY <3>1, <3>2
  <2> HIDE DEF Same
  <2> QED BY <2>1, Extremes
<1> HIDE DEF last
<1>2. last \in B /\ Commitment(last) = Commitment(q)
  BY <1>1
<1>3. \A r \in B : r > last => Commitment(r) # Commitment(last)
  <2>1. ASSUME NEW r \in B, r > last, Commitment(r) = Commitment(last) PROVE FALSE
    <3>1. r \in Same
      BY <1>2, <2>1
    <3>2. r \in Nat /\ last \in Nat
      BY <1>2
    <3> QED BY <1>1, <2>1, <3>1, <3>2
  <2> QED BY <2>1
<1>4. CASE \E r \in DOMAIN commitId : Commitment(r) = Commitment(last)
  BY <1>2, <1>4
<1>5. CASE \A r \in DOMAIN commitId : Commitment(r) # Commitment(last)
  <2>1. last \in Accepted(B)
    BY <1>2, <1>3, <1>5 DEF Accepted
  <2> QED BY <1>2, <2>1
<1> QED BY <1>4, <1>5

\* New commitment rows are ahead of every scan mark, and leave no gap but at a
\* refused commitment.
LEMMA SaveCommitmentsKeeps ==
  ASSUME StoreInv, SaveCommitmentEvents
  PROVE  StoreInv'
<1> USE DEF StoreInv
<1> DEFINE B == OfKind(proc.batch, "commitment")
           S == Accepted(B)
           c == CommitCount
<1>1. /\ proc.pc = "commitments" /\ commitId' = WithRows(commitId, S)
      /\ proc' = [proc EXCEPT !.pc = "keys"]
      /\ UNCHANGED <<ledgerVars, indexVars, noteVars, idx, kicked, client, faults>>
      /\ UNCHANGED <<chain, raw, nullId, keyRows, leafRows, accounts, scanned, reconciled,
                     notes>>
  BY DEF SaveCommitmentEvents, ledgerVars, indexVars, noteVars
<1>2. proc.batch \subseteq raw /\ S \subseteq B /\ B \subseteq OfKind(raw, "commitment")
  BY DEF ProcInv, ProcType, OfKind, Accepted
<1>3. DOMAIN commitId \subseteq 1..MaxEvents /\ S \subseteq 1..MaxEvents /\ MaxEvents \in Nat
  BY <1>2, Counts DEF OfKind
<1>4. /\ Numbered(commitId')
      /\ DOMAIN commitId' = DOMAIN commitId \cup S
      /\ \A p \in DOMAIN commitId : commitId'[p] = commitId[p]
      /\ \A p \in S \ DOMAIN commitId : commitId'[p] > c
      /\ c \in Nat /\ CommitCount' \in Nat
      /\ c <= CommitCount'
  <2>1. Numbered(commitId)
    BY DEF RowsInv
  <2> HIDE DEF S
  <2> QED BY <1>1, <1>3, <2>1, WithRowsNumbered DEF CommitCount
<1>5. LeavesGapFree'
  <2>1. \A p : Commitment(p)' = Commitment(p)
    BY <1>1 DEF Commitment
  <2>2. ASSUME NEW q \in B, q \notin DOMAIN commitId \cup S
        PROVE  \E r \in DOMAIN commitId \cup S : Commitment(r) = Commitment(q)
    <3>1. B \subseteq 1..MaxEvents /\ MaxEvents \in Nat
      BY <1>2, Counts DEF OfKind
    <3> HIDE DEF B
    <3> QED BY <2>2, <3>1, AcceptedCovers
  <2>3. ASSUME NEW p \in DOMAIN commitId', NEW q \in OfKind(1..p, "commitment")
        PROVE  q \in DOMAIN commitId' \/ Refused(q)'
    <3>1. q \in Positions /\ chain[q].kind = "commitment"
      <4>1. p \in Positions
        BY <1>2, <1>4, Counts DEF OfKind, IndexInv
      <4> QED BY <4>1 DEF OfKind, Positions
    <3>2. SUFFICES ASSUME q \notin DOMAIN commitId'
                   PROVE  \E r \in DOMAIN commitId' : Commitment(r) = Commitment(q)
      BY <1>1, <2>1, <3>1 DEF Refused, OfKind, Positions
    <3>3. CASE p \in DOMAIN commitId
      <4>1. Refused(q)
        BY <1>4, <3>2, <3>3 DEF RowsInv, LeavesGapFree
      <4> QED BY <1>4, <4>1 DEF Refused
    <3>4. CASE p \in S
      <4>1. q \in proc.batch \cup Processed
        BY <1>2, <3>4 DEF ProcInv, OfKind
      <4>2. q \in B
        BY <1>4, <3>1, <3>2, <4>1, TablesByKind DEF OfKind
      <4> HIDE DEF S
      <4> QED BY <1>4, <2>2, <3>2, <4>2
    <3> QED BY <1>4, <3>3, <3>4
  <2> HIDE DEF S
  <2> QED BY <1>1, <2>3 DEF RowsInv, LeavesGapFree, HasGap, OfKind
<1> HIDE DEF B
<1> HIDE DEF S, c
<1>6. RowsInv'
  <2>1. \A kind : OfKind(raw, kind)' = OfKind(raw, kind)
    BY <1>1 DEF OfKind
  <2>2. DOMAIN commitId' \subseteq OfKind(raw, "commitment")
    BY <1>2, <1>4 DEF RowsInv
  <2>3. Numbered(commitId)' /\ Numbered(nullId)'
    BY <1>1, <1>4 DEF RowsInv, Numbered
  <2> QED BY <1>1, <1>5, <2>1, <2>2, <2>3 DEF RowsInv
<1>7. NotesInv'
  <2>1. scanned \in [Accounts -> 0..c]
    BY DEF NotesInv, c
  <2>2. \A p : NullifierRowOf(p)' = NullifierRowOf(p)
    BY <1>1 DEF NullifierRowOf
  <2>3. NoLostNote'
    <3>1. ASSUME NEW a \in Accounts, NEW p \in DOMAIN commitId', chain[p].arg = a,
                 commitId'[p] <= scanned[a]
          PROVE  \E n \in notes : n.acct = a /\ n.pos = p
      <4>1. scanned[a] \in 0..c /\ commitId'[p] \in Int
        BY <1>4, <2>1 DEF Numbered
      <4>2. p \in DOMAIN commitId
        BY <1>4, <3>1, <4>1
      <4> QED BY <1>4, <3>1, <4>2 DEF NotesInv, NothingLost, NoLostNote
    <3> QED BY <1>1, <3>1 DEF NoLostNote
  <2>7. NoSkippedOutput'
    <3>1. ASSUME NEW p \in DOMAIN commitId', NEW a \in chain[p].fails
          PROVE  commitId'[p] > scanned[a]
      <4>1. a \in Accounts
        <5>1. chain[p] \in EventRecords
          BY <1>2, <1>4, Counts, EventFacts DEF OfKind, IndexInv
        <5> QED BY <5>1 DEF EventRecords
      <4>2. scanned[a] \in 0..c /\ commitId'[p] \in Int
        BY <1>4, <2>1, <4>1 DEF Numbered
      <4>3. CASE p \in DOMAIN commitId
        BY <1>4, <4>3 DEF NotesInv, NothingLost, NoSkippedOutput
      <4>4. CASE p \notin DOMAIN commitId
        BY <1>4, <4>2, <4>4
      <4> QED BY <4>3, <4>4
    <3> QED BY <1>1, <3>1 DEF NoSkippedOutput
  <2>4. NoLostSpend'
    BY <1>1, <2>2 DEF NotesInv, NothingLost, NoLostSpend
  <2>5. scanned' \in [Accounts -> 0..CommitCount']
    <3>1. 0..c \subseteq 0..CommitCount'
      BY <1>4
    <3> QED BY <1>1, <2>1, <3>1
  <2>6. notes' \subseteq [acct : Accounts, pos : DOMAIN commitId', spent : Nat]
    <3>1. notes \subseteq [acct : Accounts, pos : DOMAIN commitId, spent : Nat]
      BY DEF NotesInv
    <3>2. ASSUME NEW n \in notes
          PROVE  n \in [acct : Accounts, pos : DOMAIN commitId', spent : Nat]
      <4>1. n \in [acct : Accounts, pos : DOMAIN commitId, spent : Nat]
        BY <3>1
      <4>2. DOMAIN commitId \subseteq DOMAIN commitId'
        BY <1>4
      <4> QED BY <4>1, <4>2
    <3> QED BY <1>1, <3>2
  <2> QED BY <1>1, <2>2, <2>3, <2>4, <2>5, <2>6, <2>7 DEF NotesInv, NothingLost
<1>8. Processed \subseteq Processed'
  BY <1>1, <1>4 DEF Processed
<1>9. proc' = [proc EXCEPT !.pc = "keys", !.batch = proc.batch]
  BY <1>1 DEF ProcInv, ProcType
<1> QED BY <1>1, <1>4, <1>6, <1>7, <1>8, <1>9, RowsAdded DEF c

\* Public keys.
LEMMA SaveKeysKeeps ==
  ASSUME StoreInv, SavePublicKeyEvents
  PROVE  StoreInv'
<1> USE DEF StoreInv
<1>1. /\ proc.pc = "keys" /\ keyRows' = keyRows \cup OfKind(proc.batch, "key")
      /\ proc' = [proc EXCEPT !.pc = "leaves"]
      /\ UNCHANGED <<ledgerVars, indexVars, noteVars, idx, kicked, client, faults>>
      /\ UNCHANGED <<chain, raw, nullId, commitId, leafRows, accounts, scanned, reconciled,
                     notes>>
  BY DEF SavePublicKeyEvents, ledgerVars, indexVars, noteVars
<1>2. OfKind(proc.batch, "key") \subseteq OfKind(raw, "key")
  BY DEF ProcInv, ProcType, OfKind
<1>3. RowsInv'
  <2>1. \A kind : OfKind(raw, kind)' = OfKind(raw, kind)
    BY <1>1 DEF OfKind
  <2>2. LeavesGapFree' /\ Numbered(commitId)' /\ Numbered(nullId)'
    BY <1>1 DEF RowsInv, LeavesGapFree, Refused, Commitment, HasGap, OfKind, Positions, Numbered
  <2> QED BY <1>1, <1>2, <2>1, <2>2 DEF RowsInv
<1>4. NotesInv'
  <2>1. \A p : NullifierRowOf(p)' = NullifierRowOf(p)
    BY <1>1 DEF NullifierRowOf
  <2>2. NothingLost'
    BY <1>1, <2>1 DEF NotesInv, NothingLost, NoLostNote, NoSkippedOutput, NoLostSpend
  <2> QED BY <1>1, <2>1, <2>2 DEF NotesInv, CommitCount
<1>5. Processed \subseteq Processed'
  BY <1>1 DEF Processed
<1>6. proc' = [proc EXCEPT !.pc = "leaves", !.batch = proc.batch]
  BY <1>1 DEF ProcInv, ProcType
<1>7. CommitCount' \in Nat /\ CommitCount <= CommitCount'
  <2>1. CommitCount \in Nat
    BY Counts
  <2> QED BY <1>1, <2>1 DEF CommitCount
<1> QED BY <1>1, <1>3, <1>4, <1>5, <1>6, <1>7, RowsAdded

\* New leaves leave no gap.
LEMMA SaveLeavesKeeps ==
  ASSUME StoreInv, SaveLeafAddedEvents
  PROVE  StoreInv'
<1> USE DEF StoreInv
<1> DEFINE S == OfKind(proc.batch, "leaf")
<1>1. /\ proc.pc = "leaves" /\ leafRows' = leafRows \cup S
      /\ proc' = [proc EXCEPT !.pc = "notes", !.batch = {}]
      /\ UNCHANGED <<ledgerVars, indexVars, noteVars, idx, kicked, client, faults>>
      /\ UNCHANGED <<chain, raw, nullId, commitId, keyRows, accounts, scanned, reconciled,
                     notes>>
  BY DEF SaveLeafAddedEvents, ledgerVars, indexVars, noteVars
<1>2. S \subseteq OfKind(raw, "leaf")
  BY DEF ProcInv, ProcType, OfKind
<1>3. RowsInv'
  <2>1. \A kind : OfKind(raw, kind)' = OfKind(raw, kind)
    BY <1>1 DEF OfKind
  <2>2. ~HasGap(leafRows, "leaf")
    BY DEF RowsInv, LeavesGapFree
  <2>3. ~HasGap(leafRows \cup S, "leaf")
    BY <2>2, GapFreeUnion, TablesByKind
  <2> HIDE DEF S
  <2>4. ~HasGap(leafRows, "leaf")'
    BY <1>1, <2>3 DEF HasGap, OfKind
  <2>5. LeavesGapFree'
    BY <1>1, <2>4 DEF RowsInv, LeavesGapFree, Refused, Commitment, OfKind, Positions
  <2>6. Numbered(commitId)' /\ Numbered(nullId)'
    BY <1>1 DEF RowsInv, Numbered
  <2> QED BY <1>1, <1>2, <2>1, <2>5, <2>6 DEF RowsInv
<1>4. NotesInv'
  <2>1. \A p : NullifierRowOf(p)' = NullifierRowOf(p)
    BY <1>1 DEF NullifierRowOf
  <2>2. NothingLost'
    BY <1>1, <2>1 DEF NotesInv, NothingLost, NoLostNote, NoSkippedOutput, NoLostSpend
  <2> QED BY <1>1, <2>1, <2>2 DEF NotesInv, CommitCount
<1>5. Processed \subseteq Processed'
  BY <1>1 DEF Processed
<1>6. CommitCount' \in Nat /\ CommitCount <= CommitCount'
  <2>1. CommitCount \in Nat
    BY Counts
  <2> QED BY <1>1, <2>1 DEF CommitCount
<1> QED BY <1>1, <1>3, <1>4, <1>5, <1>6, RowsAdded

\* What the steps that only move the processor have in common.
LEMMA ProcOnly ==
  ASSUME StoreInv, ProcInv', WorkInv',
         UNCHANGED <<ledgerVars, indexVars, rowVars, noteVars, idx, kicked, client, faults>>
  PROVE  StoreInv'
<1>1. ChainInv' /\ IndexInv' /\ RowsInv' /\ NotesInv'
  BY Frames DEF indexVars
<1>2. TaskInv'
  BY DEF StoreInv, TaskInv, ClientType, Positions, ledgerVars
<1> QED BY <1>1, <1>2 DEF StoreInv

\* The scan starts from the saved marks; with no account or no commitment there
\* is nothing to scan.
LEMMA BeginScanKeeps ==
  ASSUME StoreInv, BeginScan
  PROVE  StoreInv'
<1> USE DEF StoreInv
<1> DEFINE none == accounts = <<>> \/ CommitCount = 0
<1>1. /\ proc.pc = "notes"
      /\ proc' = IF none THEN [proc EXCEPT !.pc = "reconcile"]
                 ELSE [proc EXCEPT !.pc = "scan", !.marks = scanned, !.quota = FetchLimit,
                                   !.turn = 1]
      /\ UNCHANGED <<ledgerVars, indexVars, rowVars, noteVars, idx, kicked, client, faults>>
  BY DEF BeginScan
<1>2. UNCHANGED <<chain, tip, raw, nullId, commitId, keyRows, leafRows, accounts, scanned,
                  reconciled, notes, kicked>>
  BY <1>1 DEF ledgerVars, indexVars, rowVars, noteVars
<1>3. /\ ProcType' = ProcType /\ Processed' = Processed /\ CommitCount' = CommitCount
      /\ CommitCount \in Nat /\ FetchLimit \in 0..FetchLimit
      /\ accounts \in Seq(Accounts) /\ Len(accounts) \in Nat
      /\ scanned \in [Accounts -> 0..CommitCount]
      /\ proc \in ProcType
  <2>1. CommitCount \in Nat
    BY Counts
  <2>2. accounts \in Seq(Accounts)
    BY DEF NotesInv
  <2> QED BY <1>2, <2>1, <2>2, LimitsArePositive
      DEF ProcType, Processed, CommitCount, NotesInv, ProcInv
<1>4. ~proc.did => raw \subseteq Processed
  BY <1>1 DEF WorkInv, Busy
<1>5. CASE none
  <2>1. proc' = [proc EXCEPT !.pc = "reconcile"]
    BY <1>1, <1>5
  <2>2. /\ proc' \in ProcType /\ proc'.pc = "reconcile" /\ proc'.did = proc.did
        /\ proc'.batch = proc.batch
    BY <1>3, <2>1 DEF ProcType
  <2>3. ProcInv'
    BY <1>3, <2>2 DEF ProcInv
  <2>4. AllAt(scanned)
    <3>1. CASE accounts = <<>>
      BY <3>1 DEF AllAt
    <3>2. CASE CommitCount = 0
      <4>1. ASSUME NEW i \in 1..Len(accounts) PROVE scanned[accounts[i]] = CommitCount
        <5>1. accounts[i] \in Accounts
          BY <1>3
        <5>2. scanned[accounts[i]] \in 0..0
          BY <1>3, <3>2, <5>1
        <5> QED BY <3>2, <5>2
      <4> QED BY <4>1 DEF AllAt
    <3> QED BY <1>5, <3>1, <3>2
  <2>5. WorkInv'
    BY <1>2, <1>3, <1>4, <2>2, <2>4 DEF WorkInv, AllAt
  <2> QED BY <1>1, <2>3, <2>5, ProcOnly
<1>6. CASE ~none
  <2>1. proc' = [proc EXCEPT !.pc = "scan", !.marks = scanned, !.quota = FetchLimit, !.turn = 1]
    BY <1>1, <1>6
  <2>2. /\ proc' \in ProcType /\ proc'.pc = "scan" /\ proc'.did = proc.did
        /\ proc'.batch = proc.batch /\ proc'.turn = 1 /\ proc'.quota = FetchLimit
        /\ proc'.moved = proc.moved
    BY <1>3, <2>1 DEF ProcType
  <2>3. 1 \in 1..Len(accounts)
    BY <1>3, <1>6
  <2>7. proc'.marks = scanned
    BY <1>3, <2>1 DEF ProcType
  <2>4. ProcInv'
    BY <1>2, <1>3, <2>2, <2>3, <2>7
       DEF ProcInv, BelowFailures, NotesInv, NothingLost, NoSkippedOutput
  <2>5. ~proc.moved
    BY <1>1 DEF ProcInv
  <2>6. WorkInv'
    BY <1>2, <1>3, <1>4, <2>2, <2>5 DEF WorkInv
  <2> QED BY <1>1, <2>4, <2>6, ProcOnly
<1> QED BY <1>5, <1>6

\* A chunk moves a mark forward, never past the last commitment, and finds
\* nothing only if the mark is there already.
LEMMA ChunkFacts ==
  ASSUME StoreInv, NEW a \in Accounts
  PROVE  /\ ChunkSize(a) \in Nat /\ ChunkSize(a) <= proc.quota
         /\ proc.marks[a] + ChunkSize(a) \in 0..CommitCount
         /\ ChunkSize(a) = 0 /\ proc.quota # 0 => proc.marks[a] = CommitCount
         /\ proc.marks[a] \in Nat /\ proc.quota \in Nat
<1> DEFINE left == CommitCount - proc.marks[a]
           T == {proc.quota, AccountChunk, left}
<1>1. /\ proc.marks[a] \in 0..CommitCount /\ CommitCount \in Nat
      /\ proc.quota \in 0..FetchLimit /\ FetchLimit \in Nat /\ AccountChunk \in Nat \ {0}
  BY Counts, LimitsArePositive DEF StoreInv, ProcInv, ProcType
<1>2. left \in Nat /\ proc.quota \in Nat
  BY <1>1
<1>3. PICK m \in Nat : T \subseteq 0..m
  <2>1. T \subseteq 0..(proc.quota + AccountChunk + left) /\ proc.quota + AccountChunk + left \in Nat
    BY <1>1, <1>2
  <2> QED BY <2>1
<1>4. MinOf(T) \in T /\ \A y \in T : MinOf(T) <= y
  BY <1>3, Extremes
<1>5. ChunkSize(a) = MinOf(T)
  BY DEF ChunkSize
<1> HIDE DEF left
<1>6. /\ ChunkSize(a) \in {proc.quota, AccountChunk, left}
      /\ ChunkSize(a) <= proc.quota /\ ChunkSize(a) <= left
  BY <1>4, <1>5
<1> QED BY <1>1, <1>2, <1>6 DEF left

\* A turn of the scan.
LEMMA ScanChunkKeeps ==
  ASSUME StoreInv, ScanChunk
  PROVE  StoreInv'
<1> USE DEF StoreInv
<1> DEFINE a == accounts[proc.turn]
           n == ChunkSize(a)
           last == proc.turn = Len(accounts)
           moved == proc.moved \/ n > 0
           over == proc.quota = n \/ (last /\ ~moved)
           new == [proc EXCEPT !.pc = IF over THEN "commit" ELSE "scan",
                               !.marks[a] = @ + n,
                               !.quota = @ - n,
                               !.did = @ \/ n > 0,
                               !.turn = IF last THEN 1 ELSE @ + 1,
                               !.moved = moved /\ ~last]
<1>1. /\ proc.pc = "scan" /\ proc' = new
      /\ UNCHANGED <<ledgerVars, indexVars, rowVars, noteVars, idx, kicked, client, faults>>
      /\ \A p \in DOMAIN commitId : a \in chain[p].fails =>
           ~(proc.marks[a] < commitId[p] /\ commitId[p] <= proc.marks[a] + n)
  BY DEF ScanChunk, DeriveFails
<1>2. UNCHANGED <<chain, tip, raw, nullId, commitId, keyRows, leafRows, accounts, scanned,
                  reconciled, notes, kicked>>
  BY <1>1 DEF ledgerVars, indexVars, rowVars, noteVars
<1>3. /\ ProcType' = ProcType /\ Processed' = Processed /\ CommitCount' = CommitCount
      /\ CommitCount \in Nat /\ FetchLimit \in Nat \ {0}
      /\ Len(accounts) \in Nat /\ proc.turn \in 1..Len(accounts) /\ a \in Accounts
      /\ proc \in ProcType
  <2>1. CommitCount \in Nat
    BY Counts
  <2>2. accounts \in Seq(Accounts) /\ proc.turn \in 1..Len(accounts)
    BY <1>1 DEF NotesInv, ProcInv
  <2> QED BY <1>2, <2>1, <2>2, LimitsArePositive
      DEF ProcType, Processed, CommitCount, ProcInv
<1>4. /\ n \in Nat /\ n <= proc.quota /\ proc.marks[a] + n \in 0..CommitCount
      /\ n = 0 /\ proc.quota # 0 => proc.marks[a] = CommitCount
      /\ proc.quota \in 0..FetchLimit /\ proc.marks[a] \in Nat
      /\ proc.marks \in [Accounts -> 0..CommitCount]
  BY <1>3, ChunkFacts DEF ProcType
<1> HIDE DEF a, n
<1>5. /\ proc' \in ProcType
      /\ proc'.pc = (IF over THEN "commit" ELSE "scan")
      /\ proc'.marks = [proc.marks EXCEPT ![a] = @ + n]
      /\ proc'.quota = proc.quota - n
      /\ proc'.did = (proc.did \/ n > 0)
      /\ proc'.turn = (IF last THEN 1 ELSE proc.turn + 1)
      /\ proc'.moved = (moved /\ ~last)
      /\ proc'.batch = proc.batch
  <2>1. [proc.marks EXCEPT ![a] = @ + n] \in [Accounts -> 0..CommitCount]
    BY <1>3, <1>4
  <2>2. proc.quota - n \in 0..FetchLimit
    BY <1>3, <1>4
  <2>3. (IF last THEN 1 ELSE proc.turn + 1) \in Nat
    BY <1>3
  <2>4. (proc.did \/ n > 0) \in BOOLEAN /\ (moved /\ ~last) \in BOOLEAN
    BY <1>3 DEF ProcType
  <2>5. (IF over THEN "commit" ELSE "scan") \in {"commit", "scan"}
    OBVIOUS
  <2> HIDE DEF over, last, moved
  <2> QED BY <1>1, <1>3, <2>1, <2>2, <2>3, <2>4, <2>5 DEF ProcType
<1> HIDE DEF new
<1>6. ProcInv'
  <2>1. proc'.turn \in 1..Len(accounts)
    BY <1>3, <1>5
  <2>2. proc'.pc \in {"commit", "scan"}
    BY <1>5
  <2>3. ASSUME NEW p \in DOMAIN commitId, NEW b \in chain[p].fails
        PROVE  commitId[p] > proc'.marks[b]
    <3>1. b \in Accounts
      <4>1. chain[p] \in EventRecords
        BY Counts, EventFacts DEF IndexInv
      <4> QED BY <4>1 DEF EventRecords
    <3>2. commitId[p] \in Int /\ commitId[p] > proc.marks[b]
      BY <1>1, Counts DEF ProcInv, BelowFailures, RowsInv, Numbered, CommitCount
    <3>3. CASE b = a
      BY <1>1, <1>3, <1>4, <1>5, <3>2, <3>3
    <3>4. CASE b # a
      BY <1>4, <1>5, <3>1, <3>2, <3>4
    <3> QED BY <3>3, <3>4
  <2> QED BY <1>2, <1>3, <1>5, <2>1, <2>2, <2>3 DEF ProcInv, BelowFailures
<1>7. ASSUME ~proc'.did
      PROVE  /\ ~proc.did /\ n = 0 /\ proc.quota = FetchLimit /\ ~proc.moved
             /\ proc'.marks = proc.marks /\ proc'.quota = FetchLimit
             /\ \A i \in 1..proc.turn : proc.marks[accounts[i]] = CommitCount
  <2>1. ~proc.did /\ ~(n > 0)
    BY <1>5, <1>7
  <2>2. n = 0
    BY <1>4, <2>1
  <2>3. /\ proc.quota = FetchLimit /\ ~proc.moved
        /\ \A i \in 1..(proc.turn - 1) : proc.marks[accounts[i]] = CommitCount
    BY <1>1, <2>1 DEF WorkInv
  <2>4. proc'.quota = FetchLimit
    BY <1>3, <1>5, <2>2, <2>3
  <2>5. proc.marks[accounts[proc.turn]] = CommitCount
    BY <1>3, <1>4, <2>2, <2>3 DEF a
  <2>6. \A i \in 1..proc.turn : proc.marks[accounts[i]] = CommitCount
    BY <1>3, <2>3, <2>5
  <2>7. proc'.marks = proc.marks
    BY <1>3, <1>4, <1>5, <2>2
  <2> QED BY <2>1, <2>2, <2>3, <2>4, <2>6, <2>7
<1>8. WorkInv'
  <2>1. ~proc'.did => raw \subseteq Processed
    BY <1>1, <1>7 DEF WorkInv, Busy
  <2>2. CASE over
    <3>1. ASSUME ~proc'.did PROVE AllAt(proc.marks)
      <4>1. proc.turn = Len(accounts)
        BY <1>3, <1>7, <2>2, <3>1
      <4> QED BY <1>7, <3>1, <4>1 DEF AllAt
    <3> QED BY <1>2, <1>3, <1>5, <1>7, <2>1, <2>2, <3>1 DEF WorkInv, AllAt
  <2>3. CASE ~over
    <3>1. ASSUME ~proc'.did
          PROVE  /\ ~proc'.moved
                 /\ \A i \in 1..(proc'.turn - 1) : proc'.marks[accounts[i]] = CommitCount
      <4>1. ~moved /\ ~last
        BY <1>4, <1>7, <2>3, <3>1
      <4>2. proc'.turn - 1 = proc.turn
        BY <1>3, <1>5, <4>1
      <4> QED BY <1>5, <1>7, <3>1, <4>1, <4>2
    <3>2. proc'.pc = "scan"
      BY <1>5, <2>3
    <3> QED BY <1>2, <1>3, <1>7, <2>1, <3>1, <3>2 DEF WorkInv
  <2> QED BY <2>2, <2>3
<1> QED BY <1>1, <1>6, <1>8, ProcOnly

\* The state of a fresh processor.
LEMMA IdleProcFacts ==
  ASSUME StoreInv
  PROVE  IdleProc \in ProcType /\ IdleProc.batch = {} /\ IdleProc.pc = "idle" /\ ~IdleProc.moved
<1>1. [a \in Accounts |-> 0] \in [Accounts -> 0..CommitCount]
  BY Counts
<1>2. 0 \in 0..FetchLimit
  BY LimitsArePositive
<1> QED BY <1>1, <1>2 DEF IdleProc, ProcType

\* A scan that cannot pass an output leaves the marks alone, and is the reason
\* why the processor is idle with work left.
LEMMA ScanAbortsKeeps ==
  ASSUME StoreInv, ScanAborts
  PROVE  StoreInv' /\ Blocked'
<1> USE DEF StoreInv
<1>1. /\ proc.pc = "scan" /\ DeriveFails /\ proc' = IdleProc
      /\ UNCHANGED <<ledgerVars, indexVars, rowVars, noteVars, idx, kicked, client, faults>>
  BY DEF ScanAborts
<1>2. UNCHANGED <<chain, tip, raw, nullId, commitId, keyRows, leafRows, accounts, scanned,
                  reconciled, notes, kicked>>
  BY <1>1 DEF ledgerVars, indexVars, rowVars, noteVars
<1>3. Blocked'
  <2>1. proc.turn \in 1..Len(accounts) /\ accounts \in Seq(Accounts)
    BY <1>1 DEF ProcInv, NotesInv
  <2>2. proc.turn \in DOMAIN accounts
    BY <2>1
  <2>3. PICK p \in DOMAIN commitId : accounts[proc.turn] \in chain[p].fails
    BY <1>1 DEF DeriveFails
  <2> QED BY <1>2, <2>2, <2>3 DEF Blocked
<1>4. ProcInv'
  <2>1. ProcType' = ProcType
    BY <1>2 DEF ProcType, CommitCount
  <2> QED BY <1>1, <2>1, IdleProcFacts DEF ProcInv
<1>5. WorkInv'
  BY <1>1, <1>3, IdleProcFacts DEF WorkInv, Busy
<1> QED BY <1>1, <1>3, <1>4, <1>5, ProcOnly

\* The spend found for a new note is stored, and none is found only if none is.
LEMMA SpendFacts ==
  ASSUME StoreInv, NEW p
  PROVE  /\ SpendOf(p) \in 0..MaxEvents
         /\ SpendOf(p) # 0 => SpendOf(p) \in NullifierRowOf(p)
         /\ SpendOf(p) = 0 => NullifierRowOf(p) = {}
<1> DEFINE R == NullifierRowOf(p)
<1>1. R \subseteq 1..MaxEvents /\ MaxEvents \in Nat
  BY Counts DEF NullifierRowOf
<1>2. ASSUME R # {} PROVE MinOf(R) \in R
  <2>1. R \subseteq 0..MaxEvents
    BY <1>1
  <2> HIDE DEF R
  <2> QED BY <1>1, <1>2, <2>1, Extremes
<1> HIDE DEF R
<1>3. SpendOf(p) = IF R = {} THEN 0 ELSE MinOf(R)
  BY DEF SpendOf, R
<1>4. SpendOf(p) \in 0..MaxEvents /\ (SpendOf(p) # 0 => SpendOf(p) \in R)
      /\ (SpendOf(p) = 0 => R = {})
  <2>1. CASE R = {}
    BY <1>1, <1>3, <2>1
  <2>2. CASE R # {}
    <3>1. SpendOf(p) \in R /\ SpendOf(p) \in 1..MaxEvents
      BY <1>1, <1>2, <1>3, <2>2
    <3> QED BY <1>1, <2>2, <3>1
  <2> QED BY <2>1, <2>2
<1> QED BY <1>4 DEF R

\* The end of the scan: every commitment between the old and the new mark that
\* the account can decrypt has become a note.
LEMMA ScanCommitKeeps ==
  ASSUME StoreInv, ScanCommit
  PROVE  StoreInv'
<1> USE DEF StoreInv
<1> DEFINE D == UNION {DerivedNotes(a) : a \in Accounts}
<1>1. /\ proc.pc = "commit" /\ scanned' = proc.marks /\ notes' = notes \cup D
      /\ proc' = [proc EXCEPT !.pc = "reconcile"]
      /\ UNCHANGED <<ledgerVars, indexVars, rowVars, accounts, reconciled, idx, kicked, client,
                     faults>>
  BY DEF ScanCommit
<1>2. UNCHANGED <<chain, tip, raw, nullId, commitId, keyRows, leafRows, accounts, reconciled,
                  kicked, client, faults>>
  BY <1>1 DEF ledgerVars, indexVars, rowVars
<1>3. ChainInv' /\ IndexInv' /\ RowsInv'
  BY <1>1, <1>2, Frames
<1>4. /\ ProcType' = ProcType /\ Processed' = Processed /\ CommitCount' = CommitCount
      /\ proc' \in ProcType /\ proc'.pc = "reconcile" /\ proc'.did = proc.did
      /\ proc'.batch = proc.batch /\ proc.marks \in [Accounts -> 0..CommitCount]
      /\ \A p : NullifierRowOf(p)' = NullifierRowOf(p)
  BY <1>1, <1>2 DEF ProcType, Processed, CommitCount, ProcInv, NullifierRowOf
<1>5. ProcInv'
  BY <1>4 DEF ProcInv
<1>6. WorkInv'
  BY <1>1, <1>2, <1>4 DEF WorkInv, Busy, AllAt
<1>7. ASSUME NEW n \in D
      PROVE  /\ n \in [acct : Accounts, pos : DOMAIN commitId, spent : Nat]
             /\ n.spent = SpendOf(n.pos)
  <2>1. PICK a \in Accounts : n \in DerivedNotes(a)
    OBVIOUS
  <2>2. PICK p \in DOMAIN commitId : n = [acct |-> a, pos |-> p, spent |-> SpendOf(p)]
    BY <2>1 DEF DerivedNotes
  <2>3. SpendOf(p) \in Nat
    BY SpendFacts, Counts
  <2> QED BY <2>2, <2>3
<1>8. ASSUME NEW a \in Accounts, NEW p \in DOMAIN commitId, chain[p].arg = a,
             commitId[p] <= proc.marks[a]
      PROVE  \E n \in notes \cup D : n.acct = a /\ n.pos = p
  <2>1. CASE commitId[p] <= scanned[a]
    BY <1>8, <2>1 DEF NotesInv, NothingLost, NoLostNote
  <2>2. CASE ~(commitId[p] <= scanned[a])
    <3> DEFINE n == [acct |-> a, pos |-> p, spent |-> SpendOf(p)]
    <3>1. commitId[p] \in Nat /\ scanned[a] \in Nat
      BY Counts DEF RowsInv, Numbered, NotesInv
    <3>2. scanned[a] < commitId[p]
      BY <2>2, <3>1
    <3>3. n \in DerivedNotes(a)
      BY <1>8, <3>2 DEF DerivedNotes
    <3>4. n \in D
      BY <3>3
    <3>5. n.acct = a /\ n.pos = p
      OBVIOUS
    <3> HIDE DEF n, D
    <3> QED BY <3>4, <3>5
  <2> QED BY <2>1, <2>2
<1> HIDE DEF D
<1>9. NotesInv'
  <2>1. NoLostNote'
    BY <1>1, <1>2, <1>8 DEF NoLostNote
  <2>2. \A n \in notes' : n.spent # 0 => n.spent \in NullifierRowOf(n.pos)
    BY <1>1, <1>7, SpendFacts DEF NotesInv
  <2>3. \A n \in notes' : n.spent = 0 => \A q \in NullifierRowOf(n.pos) : nullId[q] > reconciled
    BY <1>1, <1>7, SpendFacts DEF NotesInv, NothingLost, NoLostSpend
  <2>4. NoLostSpend'
    BY <1>2, <1>4, <2>3 DEF NoLostSpend
  <2>5. notes' \subseteq [acct : Accounts, pos : DOMAIN commitId, spent : Nat]
    BY <1>1, <1>7 DEF NotesInv
  <2>6. NoSkippedOutput'
    BY <1>1, <1>2 DEF ProcInv, BelowFailures, NoSkippedOutput
  <2> QED BY <1>1, <1>2, <1>4, <2>1, <2>2, <2>4, <2>5, <2>6 DEF NotesInv, NothingLost
<1>10. TaskInv'
  BY <1>2 DEF TaskInv, ClientType, Positions
<1> QED BY <1>3, <1>5, <1>6, <1>9, <1>10

\* Reconciliation marks every note its rows spend before the mark moves past
\* them; the loop ends only when no row is left.
LEMMA ReconcileKeeps ==
  ASSUME StoreInv, ReconcileNullifiers
  PROVE  StoreInv'
<1> USE DEF StoreInv
<1> DEFINE R == ReconcileRows
           c == Cardinality(DOMAIN nullId)
           Spends(n) == {q \in R : chain[q].arg = n.pos}
           Marked(n) == IF n.spent = 0 /\ Spends(n) # {}
                        THEN [n EXCEPT !.spent = MinOf(Spends(n))] ELSE n
<1>1. /\ proc.pc = "reconcile" /\ notes' = {Marked(n) : n \in notes}
      /\ reconciled' = reconciled + Cardinality(R)
      /\ proc' = [IdleProc EXCEPT !.pc = IF DidWork THEN "yield" ELSE "idle"]
      /\ UNCHANGED <<ledgerVars, indexVars, rowVars, accounts, scanned, idx, kicked, client,
                     faults>>
  BY DEF ReconcileNullifiers, ReconcileMark
<1>2. UNCHANGED <<chain, tip, raw, nullId, commitId, keyRows, leafRows, accounts, scanned,
                  kicked, client, faults>>
  BY <1>1 DEF ledgerVars, indexVars, rowVars
<1>3. ChainInv' /\ IndexInv' /\ RowsInv'
  BY <1>1, <1>2, Frames
<1>4. /\ Cardinality(R) \in 0..FetchLimit /\ reconciled + Cardinality(R) <= c
      /\ R = {} => reconciled = c
      /\ reconciled \in Nat /\ c \in Nat /\ FetchLimit \in Nat
      /\ R = {q \in DOMAIN nullId : nullId[q] > reconciled /\ nullId[q] <= reconciled + FetchLimit}
      /\ \A q \in DOMAIN nullId : nullId[q] \in Nat
  <2>1. R = {q \in DOMAIN nullId : nullId[q] > reconciled /\ nullId[q] <= reconciled + FetchLimit}
    BY DEF ReconcileRows
  <2>2. Numbered(nullId) /\ reconciled \in 0..c
    BY DEF RowsInv, NotesInv
  <2>3. IsFiniteSet(DOMAIN nullId) /\ c \in Nat /\ FetchLimit \in Nat \ {0}
    BY Counts, LimitsArePositive
  <2> HIDE DEF R
  <2>4. /\ Cardinality(R) \in 0..FetchLimit /\ reconciled + Cardinality(R) <= c
        /\ R = {} => reconciled = c
    BY <2>1, <2>2, <2>3, RowsAfterMark
  <2>5. reconciled \in Nat /\ \A q \in DOMAIN nullId : nullId[q] \in Nat
    BY <2>2, <2>3 DEF Numbered
  <2> QED BY <2>1, <2>3, <2>4, <2>5
<1> HIDE DEF R, c
<1>5. ASSUME NEW n \in notes
      PROVE  /\ Marked(n) \in [acct : Accounts, pos : DOMAIN commitId, spent : Nat]
             /\ Marked(n).acct = n.acct /\ Marked(n).pos = n.pos
             /\ Marked(n).spent # 0 => Marked(n).spent \in NullifierRowOf(n.pos)
             /\ Marked(n).spent = 0 => n.spent = 0 /\ Spends(n) = {}
  <2>1. n \in [acct : Accounts, pos : DOMAIN commitId, spent : Nat]
        /\ (n.spent # 0 => n.spent \in NullifierRowOf(n.pos))
    BY DEF NotesInv
  <2>2. CASE n.spent = 0 /\ Spends(n) # {}
    <3> DEFINE T == Spends(n)
    <3>1. T \subseteq NullifierRowOf(n.pos) /\ NullifierRowOf(n.pos) \subseteq DOMAIN nullId
      BY <1>4 DEF NullifierRowOf
    <3>2. T \subseteq 1..MaxEvents /\ MaxEvents \in Nat /\ T # {}
      BY <2>2, <3>1, Counts
    <3>3. MinOf(T) \in T
      <4>1. T \subseteq 0..MaxEvents
        BY <3>2
      <4> HIDE DEF T
      <4> QED BY <3>2, <4>1, Extremes
    <3>4. Marked(n) = [n EXCEPT !.spent = MinOf(T)]
      BY <2>2
    <3> HIDE DEF T, Marked
    <3>5. MinOf(T) \in Nat /\ MinOf(T) # 0 /\ MinOf(T) \in NullifierRowOf(n.pos)
      <4>1. MinOf(T) \in 1..MaxEvents /\ MinOf(T) \in NullifierRowOf(n.pos)
        BY <3>1, <3>2, <3>3
      <4> QED BY <4>1
    <3> QED BY <2>1, <3>4, <3>5
  <2>3. CASE ~(n.spent = 0 /\ Spends(n) # {})
    <3>1. Marked(n) = n
      BY <2>3
    <3> HIDE DEF Marked, Spends
    <3> QED BY <2>1, <2>3, <3>1
  <2> QED BY <2>2, <2>3
<1>6. /\ CommitCount' = CommitCount /\ Processed' = Processed
      /\ \A p : NullifierRowOf(p)' = NullifierRowOf(p)
  BY <1>2 DEF CommitCount, Processed, NullifierRowOf
<1>7. NotesInv'
  <2>1. NoLostNote'
    <3>1. ASSUME NEW a \in Accounts, NEW p \in DOMAIN commitId, chain[p].arg = a,
                 commitId[p] <= scanned[a]
          PROVE  \E n \in notes' : n.acct = a /\ n.pos = p
      <4>1. PICK n \in notes : n.acct = a /\ n.pos = p
        BY <3>1 DEF NotesInv, NothingLost, NoLostNote
      <4>2. Marked(n) \in notes' /\ Marked(n).acct = a /\ Marked(n).pos = p
        BY <1>1, <1>5, <4>1
      <4> HIDE DEF Marked
      <4> QED BY <4>2
    <3> QED BY <1>2, <3>1 DEF NoLostNote
  <2>2. ASSUME NEW m \in notes'
        PROVE  /\ m \in [acct : Accounts, pos : DOMAIN commitId, spent : Nat]
               /\ m.spent # 0 => m.spent \in NullifierRowOf(m.pos)
               /\ m.spent = 0 => \A q \in NullifierRowOf(m.pos) : nullId[q] > reconciled'
    <3>1. PICK n \in notes : m = Marked(n)
      BY <1>1
    <3>2. /\ m \in [acct : Accounts, pos : DOMAIN commitId, spent : Nat]
          /\ m.pos = n.pos
          /\ m.spent # 0 => m.spent \in NullifierRowOf(n.pos)
          /\ m.spent = 0 => n.spent = 0 /\ Spends(n) = {}
      <4> HIDE DEF Marked, Spends
      <4> QED BY <1>5, <3>1
    <3>3. ASSUME m.spent = 0, NEW q \in NullifierRowOf(m.pos) PROVE nullId[q] > reconciled'
      <4>1. n.spent = 0 /\ Spends(n) = {} /\ q \in NullifierRowOf(n.pos)
        BY <3>2, <3>3
      <4>2. nullId[q] > reconciled
        BY <4>1 DEF NotesInv, NothingLost, NoLostSpend
      <4>3. q \in DOMAIN nullId /\ q \notin R
        BY <4>1 DEF NullifierRowOf
      <4> QED BY <1>1, <1>4, <4>2, <4>3
    <3> HIDE DEF Marked, Spends
    <3> QED BY <3>2, <3>3
  <2>3. NoLostSpend'
    BY <1>2, <1>6, <2>2 DEF NoLostSpend
  <2>4. notes' \subseteq [acct : Accounts, pos : DOMAIN commitId, spent : Nat]
    BY <2>2
  <2>5. reconciled' \in 0..c
    BY <1>1, <1>4
  <2>6. NoSkippedOutput'
    BY <1>2 DEF NotesInv, NothingLost, NoSkippedOutput
  <2> HIDE DEF Marked, Spends
  <2> QED BY <1>2, <1>6, <2>1, <2>2, <2>3, <2>4, <2>5, <2>6 DEF NotesInv, NothingLost, c
<1>8. /\ proc' \in ProcType /\ proc'.batch = {} /\ ~proc'.moved
      /\ proc'.pc = IF DidWork THEN "yield" ELSE "idle"
  <2>1. [a \in Accounts |-> 0] \in [Accounts -> 0..CommitCount]
    BY Counts
  <2>2. 0 \in 0..FetchLimit
    BY <1>4
  <2>3. proc' = [pc |-> IF DidWork THEN "yield" ELSE "idle", batch |-> {}, did |-> FALSE,
                 marks |-> [a \in Accounts |-> 0], quota |-> 0, turn |-> 0, moved |-> FALSE]
    BY <1>1 DEF IdleProc
  <2> QED BY <2>1, <2>2, <2>3 DEF ProcType
<1>9. ProcInv'
  <2>1. ProcType' = ProcType
    BY <1>2 DEF ProcType, CommitCount
  <2> QED BY <1>8, <2>1 DEF ProcInv
<1>10. WorkInv'
  <2>1. CASE DidWork
    BY <1>8, <2>1 DEF WorkInv, Busy
  <2>2. CASE ~DidWork
    <3>1. ~proc.did /\ R = {}
      BY <2>2 DEF DidWork, R
    <3>2. raw \subseteq Processed /\ AllAt(scanned)
      BY <1>1, <3>1 DEF WorkInv, Busy
    <3>3. Cardinality(R) = 0
      BY <3>1, FS_EmptySet
    <3>4. reconciled' = c
      BY <1>1, <1>4, <3>1, <3>3
    <3> QED BY <1>2, <1>6, <1>8, <2>2, <3>2, <3>4 DEF WorkInv, Busy, AllAt, c
  <2> QED BY <2>1, <2>2
<1>11. TaskInv'
  BY <1>2 DEF TaskInv, ClientType, Positions
<1> QED BY <1>3, <1>7, <1>9, <1>10, <1>11

-----------------------------------------------------------------------------
(* The client, faults and the theorems.                                    *)

\* A new account wakes the processor, which then scans for it.
LEMMA SaveUserKeysKeeps ==
  ASSUME StoreInv, NEW a \in Accounts, SaveUserKeys(a)
  PROVE  StoreInv'
<1> USE DEF StoreInv
<1>1. /\ ~Busy /\ kicked' = TRUE
      /\ accounts' = accounts \/ accounts' = Append(accounts, a)
      /\ UNCHANGED <<ledgerVars, indexVars, rowVars, scanned, reconciled, notes, idx, proc,
                     client, faults>>
  BY DEF SaveUserKeys, KickProcessor
<1>2. UNCHANGED <<chain, tip, raw, nullId, commitId, keyRows, leafRows, scanned, reconciled,
                  notes, proc, client, faults>>
  BY <1>1 DEF ledgerVars, indexVars, rowVars
<1>3. ChainInv' /\ IndexInv' /\ RowsInv'
  BY <1>1, <1>2, Frames
<1>4. accounts' \in Seq(Accounts)
  <2>1. accounts \in Seq(Accounts)
    BY DEF NotesInv
  <2>2. Append(accounts, a) \in Seq(Accounts)
    BY <2>1, AppendProperties
  <2> QED BY <1>1, <2>1, <2>2
<1>5. NotesInv'
  <2>1. \A p : NullifierRowOf(p)' = NullifierRowOf(p)
    BY <1>2 DEF NullifierRowOf
  <2>2. NothingLost'
    BY <1>2, <2>1 DEF NotesInv, NothingLost, NoLostNote, NoSkippedOutput, NoLostSpend
  <2> QED BY <1>2, <1>4, <2>1, <2>2 DEF NotesInv, CommitCount
<1>6. ProcInv'
  <2>1. proc.pc \notin {"scan", "commit"}
    BY <1>1 DEF Busy
  <2> QED BY <1>2, <2>1 DEF ProcInv, ProcType, CommitCount, Processed
<1>7. WorkInv'
  BY <1>1, <1>2 DEF WorkInv, Busy
<1>8. TaskInv'
  BY <1>1, <1>2 DEF TaskInv, ClientType, Positions
<1> QED BY <1>3, <1>5, <1>6, <1>7, <1>8

\* What the steps that only move the client have in common.
LEMMA ClientOnly ==
  ASSUME StoreInv, TaskInv',
         UNCHANGED <<ledgerVars, indexVars, rowVars, noteVars, idx, kicked, proc, faults>>
  PROVE  StoreInv'
<1>1. UNCHANGED <<raw, accounts>>
  BY DEF indexVars, noteVars
<1>2. ChainInv' /\ IndexInv' /\ RowsInv' /\ NotesInv' /\ ProcInv' /\ WorkInv'
  BY <1>1, Frames
<1> QED BY <1>2 DEF StoreInv

\* The request of the client.
LEMMA ClientKeeps ==
  ASSUME StoreInv, Client
  PROVE  StoreInv'
<1> USE DEF StoreInv
<1>1. ASSUME NEW a \in Accounts, SaveUserKeys(a) PROVE StoreInv'
  BY <1>1, SaveUserKeysKeeps
<1>2. ASSUME NEW a \in Askers, NEW input \in {0} \cup {n.pos : n \in notes}, Plan(a, input)
      PROVE  StoreInv'
  <2>1. /\ client' = [IdleClient EXCEPT !.pc = "fetch", !.acct = a, !.input = input]
        /\ UNCHANGED <<ledgerVars, indexVars, rowVars, noteVars, idx, kicked, proc, faults>>
    BY <1>2 DEF Plan
  <2>2. input \in 0..MaxEvents
    <3>1. ASSUME NEW n \in notes PROVE n.pos \in 0..MaxEvents
      <4>1. n.pos \in DOMAIN commitId
        BY DEF NotesInv
      <4> QED BY <4>1, Counts
    <3> QED BY <3>1, Counts
  <2>3. a \in Owners
    BY OwnersAreKnown DEF Owners
  <2>4. client' = [pc |-> "fetch", acct |-> a, input |-> input, ledger |-> 0, asp |-> {},
                   pool |-> {}]
    BY <2>1 DEF IdleClient
  <2>5. TaskInv'
    BY <2>1, <2>2, <2>3, <2>4, LimitsArePositive DEF TaskInv, ClientType, Positions, ledgerVars
  <2> QED BY <2>1, <2>5, ClientOnly
<1>3. CASE FetchChainState
  <2>1. /\ client' = [client EXCEPT !.pc = "ask", !.ledger = tip,
                                    !.asp = OfKind(Visible, "leaf"),
                                    !.pool = OfKind(Visible, "commitment")]
        /\ UNCHANGED <<ledgerVars, indexVars, rowVars, noteVars, idx, kicked, proc, faults>>
    BY <1>3 DEF FetchChainState
  <2>2. /\ tip \in 0..MaxLedger /\ Positions' = Positions
        /\ OfKind(Visible, "leaf") \in SUBSET Positions
        /\ OfKind(Visible, "commitment") \in SUBSET Positions
    BY <2>1 DEF ChainInv, OfKind, Visible, Positions, ledgerVars
  <2>3. TaskInv'
    BY <2>1, <2>2 DEF TaskInv, ClientType
  <2> QED BY <2>1, <2>3, ClientOnly
<1>4. CASE Transact
  <2>1. /\ client' = [client EXCEPT !.pc = TransactAnswer(client)]
        /\ UNCHANGED <<ledgerVars, indexVars, rowVars, noteVars, idx, kicked, proc, faults>>
    BY <1>4 DEF Transact
  <2>2. TransactAnswer(client) \in {"fetch", "params", "register", "error"}
    <3>1. AspMembershipSync(client) \in {"fetch", "params", "register", "error"}
      BY DEF AspMembershipSync
    <3>2. PoolInputs(client) \in {"fetch", "params", "error"}
      BY DEF PoolInputs
    <3> QED BY <3>1, <3>2 DEF TransactAnswer
  <2>3. TaskInv'
    BY <2>1, <2>2 DEF TaskInv, ClientType, Positions, ledgerVars
  <2> QED BY <2>1, <2>3, ClientOnly
<1> QED BY <1>1, <1>2, <1>3, <1>4 DEF Client

\* The rounds of the indexer.
LEMMA IndexerKeeps ==
  ASSUME StoreInv, Indexer
  PROVE  StoreInv'
<1>1. ASSUME IndexInv',
             UNCHANGED <<ledgerVars, raw, rowVars, noteVars, kicked, proc, client, faults>>
      PROVE  StoreInv'
  <2>1. UNCHANGED accounts
    BY <1>1 DEF noteVars
  <2>2. ChainInv' /\ RowsInv' /\ NotesInv' /\ ProcInv' /\ WorkInv'
    BY <1>1, <2>1, Frames
  <2>3. TaskInv'
    BY <1>1 DEF StoreInv, TaskInv, ClientType, Positions, ledgerVars
  <2> QED BY <1>1, <2>2, <2>3 DEF StoreInv
<1>2. CASE StartRound
  BY <1>1, <1>2, StartRoundKeeps DEF StartRound, indexVars
<1>3. CASE FetchPage
  BY <1>1, <1>3, FetchPageKeeps DEF FetchPage, indexVars
<1>4. CASE SaveEventsBatch
  BY <1>4, SaveEventsBatchKeeps
<1>5. CASE SaveSyncProgress
  BY <1>1, <1>5, SaveSyncProgressKeeps DEF SaveSyncProgress
<1> QED BY <1>2, <1>3, <1>4, <1>5 DEF Indexer

\* An aborted round, a cleared cursor, a listener that returns, a crash.
LEMMA FaultsKeep ==
  ASSUME StoreInv, Faults
  PROVE  StoreInv'
<1> USE DEF StoreInv
<1>1. /\ faults' \in 0..MaxFaults
      /\ UNCHANGED <<ledgerVars, raw, rowVars, noteVars>>
      /\ UNCHANGED <<chain, tip, accounts>>
  <2>1. faults < MaxFaults /\ faults' = faults + 1
    BY DEF Faults, AbortRound, ClearIndexingCursors, ListenerReturns, Restart
  <2>2. faults' \in 0..MaxFaults
    BY <2>1, LimitsArePositive DEF TaskInv, ClientType
  <2> QED BY <2>2 DEF Faults, AbortRound, ClearIndexingCursors, ListenerReturns, Restart,
                      ledgerVars, indexVars, noteVars
<1>2. ChainInv' /\ RowsInv' /\ NotesInv'
  BY <1>1, Frames
<1>3. CASE AbortRound \/ ClearIndexingCursors \/ ListenerReturns
  <2>1. UNCHANGED <<kicked, proc, client>>
    BY <1>3 DEF AbortRound, ClearIndexingCursors, ListenerReturns
  <2>2. IndexInv'
    BY <1>3, IdleRoundKeeps, ClearKeeps DEF AbortRound, ListenerReturns
  <2>3. ProcInv' /\ WorkInv'
    BY <1>1, <2>1, Frames
  <2>4. TaskInv'
    BY <1>1, <2>1 DEF TaskInv, ClientType, Positions
  <2> QED BY <1>2, <2>2, <2>3, <2>4
<1>4. CASE Restart
  <2>1. idx' = IdleRound /\ proc' = IdleProc /\ client' = IdleClient /\ kicked' = TRUE
        /\ UNCHANGED <<ledgerVars, indexVars, rowVars>>
    BY <1>4 DEF Restart, KickProcessor
  <2>2. IndexInv'
    BY <2>1, IdleRoundKeeps
  <2>3. ProcInv'
    <3>1. ProcType' = ProcType
      BY <1>1, <2>1 DEF ProcType, CommitCount, rowVars
    <3> QED BY <2>1, <3>1, IdleProcFacts DEF ProcInv
  <2>4. WorkInv'
    BY <2>1 DEF WorkInv, Busy, IdleProc
  <2>5. TaskInv'
    BY <1>1, <2>1, LimitsArePositive DEF TaskInv, ClientType, IdleClient, Owners, Positions
  <2> QED BY <1>2, <2>2, <2>3, <2>4, <2>5
<1> QED BY <1>3, <1>4 DEF Faults

\* The wallet starts with empty tables.
LEMMA StoreInit == Init => StoreInv
<1> SUFFICES ASSUME Init PROVE StoreInv
  OBVIOUS
<1> USE DEF Init
<1>1. /\ Positions = {} /\ Len(chain) = 0 /\ MaxLedger \in Nat \ {0} /\ MaxEvents \in Nat
      /\ MaxFaults \in Nat /\ FetchLimit \in Nat
  BY LimitsArePositive DEF Positions
<1>2. ChainInv
  BY <1>1 DEF ChainInv
<1>3. IndexInv
  <2>1. MetaInv
    BY <1>1 DEF MetaInv, NoCursor, StoredBelow, StoredUpTo
  <2>2. RoundInv
    BY <1>1 DEF RoundInv, IdleRound, NoPage
  <2> QED BY <2>1, <2>2 DEF IndexInv, Downward
<1>4. DOMAIN nullId = {} /\ DOMAIN commitId = {} /\ Cardinality({}) = 0 /\ CommitCount = 0
  BY FS_EmptySet DEF CommitCount
<1>5. RowsInv
  <2>1. Numbered(nullId) /\ Numbered(commitId)
    BY <1>4 DEF Numbered
  <2> QED BY <1>4, <2>1 DEF RowsInv, LeavesGapFree, HasGap
<1>6. ProcInv
  BY <1>1, <1>4 DEF ProcInv, ProcType, IdleProc
<1>7. NotesInv
  BY <1>4 DEF NotesInv, NothingLost, NoLostNote, NoSkippedOutput, NoLostSpend
<1>8. WorkInv
  BY <1>4 DEF WorkInv, Busy, IdleProc, AllAt
<1>9. TaskInv
  <2>1. /\ client = [pc |-> "idle", acct |-> Stranger, input |-> 0, ledger |-> 0, asp |-> {},
                     pool |-> {}]
        /\ Stranger \in Owners /\ 0 \in 0..MaxEvents /\ 0 \in 0..MaxLedger
        /\ {} \in SUBSET Positions /\ 0 \in 0..MaxFaults
    BY <1>1 DEF IdleClient, Owners
  <2>2. client \in ClientType
    <3> HIDE DEF Init
    <3> QED BY <2>1 DEF ClientType
  <2>3. kicked \in BOOLEAN /\ faults \in 0..MaxFaults
    BY <2>1
  <2> QED BY <2>2, <2>3 DEF TaskInv
<1> QED BY <1>2, <1>3, <1>5, <1>6, <1>7, <1>8, <1>9 DEF StoreInv

\* Every step of the wallet and of the chain preserves the invariant.
LEMMA StoreStep == StoreInv /\ [Next]_vars => StoreInv'
<1> SUFFICES ASSUME StoreInv, [Next]_vars PROVE StoreInv'
  OBVIOUS
<1>1. CASE Environment
  BY <1>1, EnvironmentKeeps
<1>2. CASE Indexer
  BY <1>2, IndexerKeeps
<1>3. CASE Processor
  BY <1>3, BeginIterationKeeps, SaveNullifiersKeeps, SaveCommitmentsKeeps, SaveKeysKeeps,
     SaveLeavesKeeps, BeginScanKeeps, ScanChunkKeeps, ScanAbortsKeeps, ScanCommitKeeps,
     ReconcileKeeps
     DEF Processor
<1>4. CASE Client
  BY <1>4, ClientKeeps
<1>5. CASE Faults
  BY <1>5, FaultsKeep
<1>6. CASE UNCHANGED vars
  BY <1>6, ClientOnly DEF vars, TaskInv, ClientType, StoreInv, Positions, ledgerVars
<1> QED BY <1>1, <1>2, <1>3, <1>4, <1>5, <1>6 DEF Next

\* In every state the invariant allows, the tables mirror the chain.
LEMMA StoreInvImplies == StoreInv => TypeOK /\ MirrorSound /\ NothingLost
<1> SUFFICES ASSUME StoreInv PROVE TypeOK /\ MirrorSound /\ NothingLost
  OBVIOUS
<1> USE DEF StoreInv
<1>1. NothingLost
  BY DEF NotesInv
<1>2. FullyIndexedComplete /\ LeavesGapFree
  BY DEF IndexInv, MetaInv, StoredUpTo, FullyIndexedComplete, RowsInv
<1>3. DrainedMirrors
  <2> SUFFICES ASSUME proc.pc = "idle", ~kicked, ~Blocked
               PROVE  /\ raw = Processed
                      /\ \A i \in DOMAIN accounts, p \in OfKind(raw, "commitment") :
                           chain[p].arg = accounts[i] =>
                             \E n \in notes : /\ n.acct = accounts[i] /\ n.pos = p
                                              /\ (n.spent # 0) = (NullifierRowOf(p) # {})
    BY DEF DrainedMirrors
  <2>1. raw \subseteq Processed /\ AllAt(scanned) /\ reconciled = Cardinality(DOMAIN nullId)
    BY DEF WorkInv
  <2>2. raw = Processed
    BY <2>1, Counts DEF Processed
  <2>3. ASSUME NEW i \in DOMAIN accounts, NEW p \in OfKind(raw, "commitment"),
               chain[p].arg = accounts[i]
        PROVE  \E n \in notes : /\ n.acct = accounts[i] /\ n.pos = p
                                /\ (n.spent # 0) = (NullifierRowOf(p) # {})
    <3>1. accounts \in Seq(Accounts) /\ DOMAIN accounts = 1..Len(accounts)
      BY DEF NotesInv
    <3>2. accounts[i] \in Accounts /\ scanned[accounts[i]] = CommitCount
      BY <2>1, <3>1 DEF AllAt
    <3>3. p \in DOMAIN commitId
      <4>1. p \in OfKind(Processed, "commitment")
        BY <2>2
      <4> QED BY <4>1, TablesByKind
    <3>4. commitId[p] <= CommitCount
      BY <3>3, Counts DEF RowsInv, Numbered, CommitCount
    <3>5. PICK n \in notes : n.acct = accounts[i] /\ n.pos = p
      BY <2>3, <3>2, <3>3, <3>4, <1>1 DEF NothingLost, NoLostNote
    <3>6. ASSUME n.spent = 0, NEW q \in NullifierRowOf(p) PROVE FALSE
      <4>1. nullId[q] > reconciled
        BY <1>1, <3>5, <3>6 DEF NothingLost, NoLostSpend
      <4>2. q \in DOMAIN nullId /\ nullId[q] \in 1..Cardinality(DOMAIN nullId)
        BY DEF NullifierRowOf, RowsInv, Numbered
      <4> QED BY <2>1, <4>1, <4>2, Counts
    <3>7. n.spent # 0 => n.spent \in NullifierRowOf(p)
      BY <3>5 DEF NotesInv
    <3> QED BY <3>5, <3>6, <3>7
  <2> QED BY <2>2, <2>3
<1>4. TypeOK
  <2>1. /\ chain \in Seq([ledger : 2 .. MaxLedger + 1,
                      kind : {"nullifier", "commitment", "leaf", "key", "other"},
                      arg : Owners \cup 0 .. MaxEvents, twin : 0 .. MaxEvents,
                      fails : SUBSET Accounts])
        /\ tip \in 1..MaxLedger /\ raw \subseteq Positions
    BY DEF ChainInv, EventRecords, IndexInv
  <2>2. meta \in [cursor : {NoCursor} \cup 0 .. MaxEvents, indexed : 0 .. MaxLedger,
                  fully : 0 .. MaxLedger]
    <3>1. 0..tip \subseteq 0..MaxLedger
      BY <2>1, LimitsArePositive
    <3> QED BY <3>1 DEF IndexInv, MetaInv
  <2>3. ASSUME NEW ids, Numbered(ids), Cardinality(DOMAIN ids) \in 0..MaxEvents
        PROVE  ids \in [DOMAIN ids -> 1..MaxEvents]
    <3>1. 1..Cardinality(DOMAIN ids) \subseteq 1..MaxEvents
      BY <2>3, Counts
    <3> QED BY <2>3, <3>1 DEF Numbered
  <2>4. nullId \in [DOMAIN nullId -> 1..MaxEvents] /\ commitId \in [DOMAIN commitId -> 1..MaxEvents]
    BY <2>3, Counts DEF RowsInv, CommitCount
  <2>5. scanned \in [Accounts -> 0..MaxEvents] /\ reconciled \in 0..MaxEvents
    <3>1. 0..CommitCount \subseteq 0..MaxEvents
      BY Counts
    <3>2. 0..Cardinality(DOMAIN nullId) \subseteq 0..MaxEvents
      BY Counts
    <3> QED BY <3>1, <3>2 DEF NotesInv
  <2>6. notes \subseteq [acct : Accounts, pos : 1..MaxEvents, spent : 0..MaxEvents]
    <3>1. ASSUME NEW n \in notes
          PROVE  n \in [acct : Accounts, pos : 1..MaxEvents, spent : 0..MaxEvents]
      <4>1. n \in [acct : Accounts, pos : DOMAIN commitId, spent : Nat]
            /\ (n.spent # 0 => n.spent \in NullifierRowOf(n.pos))
        BY DEF NotesInv
      <4>2. DOMAIN commitId \subseteq 1..MaxEvents /\ DOMAIN nullId \subseteq 1..MaxEvents
        BY Counts
      <4>3. n.spent \in 0..MaxEvents
        <5>1. CASE n.spent = 0
          BY <5>1, Counts
        <5>2. CASE n.spent # 0
          <6>1. n.spent \in 1..MaxEvents
            BY <4>1, <4>2, <5>2 DEF NullifierRowOf
          <6> QED BY <6>1
        <5> QED BY <5>1, <5>2
      <4> QED BY <4>1, <4>2, <4>3
    <3> QED BY <3>1
  <2>7. /\ idx.pc \in {"idle", "page", "save", "progress", "stopped"}
        /\ proc.pc \in {"idle", "nullifiers", "commitments", "keys", "leaves", "notes", "scan",
                        "commit", "reconcile", "yield"}
    BY DEF IndexInv, RoundInv, ProcInv, ProcType
  <2> QED BY <2>1, <2>2, <2>4, <2>5, <2>6, <2>7, Counts DEF TypeOK, TaskInv, ClientType
<1> QED BY <1>1, <1>2, <1>3, <1>4 DEF MirrorSound

\* The inductive invariant holds in every reachable state.
LEMMA StoreInvariant == Spec => []StoreInv
<1> QED BY StoreInit, StoreStep, PTL DEF Spec

\* Every reachable state of the local store is well typed.
THEOREM StoreTypeCorrect == Spec => []TypeOK
<1>1. StoreInv => TypeOK
  BY StoreInvImplies
<1> QED BY <1>1, StoreInvariant, PTL

\* The local tables are a true image of a prefix of the chain, whatever is
\* interleaved, aborted, replayed or lost in a crash: the indexing progress is
\* never overstated, the leaf tables have no gap but at the second event of a
\* commitment, and a processor that is idle with no message waiting has left
\* nothing undone, unless its scan cannot pass an output.
THEOREM StoreMirrorsChain == Spec => []MirrorSound
<1>1. StoreInv => MirrorSound
  BY StoreInvImplies
<1> QED BY <1>1, StoreInvariant, PTL

\* No note, no output that a scan failed to derive from and no spend is passed
\* over, on whichever of the two paths it is learned: the scan of new
\* commitments or the reconciliation of nullifiers.
THEOREM StoreLosesNothing == Spec => []NothingLost
<1>1. StoreInv => NothingLost
  BY StoreInvImplies
<1> QED BY <1>1, StoreInvariant, PTL

-----------------------------------------------------------------------------
(* The answers to the client's request.                                    *)

\* The events of a kind up to a ledger, as the client reads them off the chain.
EventsUpTo(ledger, kind) == {p \in Positions : chain[p].ledger <= ledger /\ chain[p].kind = kind}

\* What the client has read stays true of that ledger.
AskInv ==
    client.pc = "ask" =>
        /\ client.ledger \in 0 .. tip
        /\ client.asp = EventsUpTo(client.ledger, "leaf")
        /\ client.pool = EventsUpTo(client.ledger, "commitment")

\* A pool transaction's nullifier is followed by its commitment.
PairInv ==
    \A q \in OfKind(Positions, "nullifier") :
        /\ q + 1 \in OfKind(Positions, "commitment")
        /\ chain[q + 1].ledger = chain[q].ledger

\* A commitment is stored after the nullifiers before it.
OrderInv ==
    /\ \A p \in DOMAIN commitId : OfKind(1 .. p, "nullifier") \subseteq DOMAIN nullId
    /\ proc.pc = "commitments" => OfKind(proc.batch, "nullifier") \subseteq DOMAIN nullId

\* Without a crash and an output that stops the scan, an iteration reconciles
\* all the nullifiers it has stored.
BacklogInv ==
    LET rows == Cardinality(DOMAIN nullId)
    IN  /\ IsFiniteSet(proc.batch) /\ Cardinality(proc.batch) <= FetchLimit
        /\ faults = 0 /\ ~Blocked =>
               /\ rows <= reconciled + FetchLimit
               /\ proc.pc \in {"idle", "yield", "nullifiers"} => rows = reconciled

RequestInv == StoreInv /\ AskInv /\ PairInv /\ OrderInv /\ BacklogInv

\* The answers the worker can give.
LEMMA AnswerFacts == TransactAnswer(client) \in {"fetch", "params", "register", "error"}
<1>1. AspMembershipSync(client) \in {"fetch", "params", "register", "error"}
  BY DEF AspMembershipSync
<1>2. PoolInputs(client) \in {"fetch", "params", "error"}
  BY DEF PoolInputs
<1> QED BY <1>1, <1>2 DEF TransactAnswer

\* Only the environment touches the chain.
LEMMA OthersKeepChain ==
  ASSUME [Next]_vars, ~Environment
  PROVE  UNCHANGED <<chain, tip>>
<1>1. CASE Indexer
  BY <1>1 DEF Indexer, StartRound, FetchPage, SaveEventsBatch, SaveSyncProgress, ledgerVars
<1>2. CASE Processor
  BY <1>2 DEF Processor, BeginIteration, SaveNullifierEvents, SaveCommitmentEvents,
     SavePublicKeyEvents, SaveLeafAddedEvents, BeginScan, ScanChunk, ScanAborts, ScanCommit,
     ReconcileNullifiers, ledgerVars
<1>3. CASE Client
  BY <1>3 DEF Client, SaveUserKeys, Plan, FetchChainState, Transact, ledgerVars
<1>4. CASE Faults
  BY <1>4 DEF Faults, AbortRound, ClearIndexingCursors, ListenerReturns, Restart, ledgerVars
<1>5. CASE UNCHANGED vars
  BY <1>5 DEF vars, ledgerVars
<1> QED BY <1>1, <1>2, <1>3, <1>4, <1>5 DEF Next

\* The chain state a request carries stays what the chain held at its ledger.
LEMMA AskStep ==
  ASSUME RequestInv, [Next]_vars
  PROVE  AskInv'
<1> USE DEF RequestInv, StoreInv
<1>1. CASE Environment
  <2>1. Appends /\ client' = client
    BY <1>1, EnvironmentAppends
  <2>2. ASSUME client.pc = "ask", NEW kind
        PROVE  client.ledger \in 0..tip'
               /\ EventsUpTo(client.ledger, kind)' = EventsUpTo(client.ledger, kind)
    <3>1. client.ledger \in 0..tip /\ tip \in Nat
      BY <2>2 DEF AskInv, ChainInv
    <3>2. /\ Positions \subseteq Positions' /\ \A p \in Positions : chain'[p] = chain[p]
          /\ \A p \in Positions' : p \notin Positions => chain'[p].ledger = tip + 1
          /\ tip' \in {tip, tip + 1}
      <4>1. Len(chain) \in Nat /\ Len(chain') \in Nat /\ Len(chain) <= Len(chain')
        BY <2>1 DEF Appends, ChainInv
      <4> QED BY <2>1, <4>1 DEF Appends, Positions
    <3>3. EventsUpTo(client.ledger, kind)' = EventsUpTo(client.ledger, kind)
      BY <2>1, <3>1, <3>2 DEF EventsUpTo
    <3> QED BY <3>1, <3>2, <3>3
  <2> QED BY <2>1, <2>2 DEF AskInv
<1>2. CASE ~Environment
  <2>1. UNCHANGED <<chain, tip>>
    BY <1>2, OthersKeepChain
  <2>2. CASE FetchChainState
    <3>1. client'.ledger = tip /\ client'.asp = OfKind(Visible, "leaf")
          /\ client'.pool = OfKind(Visible, "commitment")
      BY <2>2 DEF FetchChainState, TaskInv, ClientType
    <3>2. tip \in 0..tip
      BY DEF ChainInv
    <3> QED BY <2>1, <3>1, <3>2 DEF AskInv, EventsUpTo, OfKind, Visible, Positions
  <2>3. CASE client' = client
    BY <2>1, <2>3 DEF AskInv, EventsUpTo, Positions
  <2>4. CASE client'.pc # "ask"
    BY <2>4 DEF AskInv
  <2>5. FetchChainState \/ client' = client \/ client'.pc # "ask"
    <3>1. CASE Indexer
      BY <3>1 DEF Indexer, StartRound, FetchPage, SaveEventsBatch, SaveSyncProgress
    <3>2. CASE Processor
      BY <3>2 DEF Processor, BeginIteration, SaveNullifierEvents, SaveCommitmentEvents,
         SavePublicKeyEvents, SaveLeafAddedEvents, BeginScan, ScanChunk, ScanAborts,
         ScanCommit, ReconcileNullifiers
    <3>3. CASE Client
      <4>1. CASE Transact
        BY <4>1, AnswerFacts DEF Transact, TaskInv, ClientType
      <4> QED BY <3>3, <4>1 DEF Client, SaveUserKeys, Plan, IdleClient
    <3>4. CASE Faults
      BY <3>4 DEF Faults, AbortRound, ClearIndexingCursors, ListenerReturns, Restart, IdleClient
    <3>5. CASE UNCHANGED vars
      BY <3>5 DEF vars
    <3> QED BY <1>2, <3>1, <3>2, <3>3, <3>4, <3>5 DEF Next
  <2> QED BY <2>2, <2>3, <2>4, <2>5
<1> QED BY <1>1, <1>2

\* Pool transactions emit their two events together.
LEMMA PairStep ==
  ASSUME RequestInv, [Next]_vars
  PROVE  PairInv'
<1> USE DEF RequestInv, StoreInv
<1> DEFINE n == Len(chain)
<1>1. n \in Nat /\ Positions = 1..n /\ Positions' = 1..Len(chain')
  BY DEF ChainInv, Positions
<1>2. ASSUME NEW events, Emit(events), Emitted(events)
      PROVE  PairInv'
  <2> DEFINE k == Len(events)
  <2>1. /\ events \in Seq(EventRecords) /\ k \in {1, 2}
        /\ \A i \in 1..k : events[i].ledger = tip + 1
        /\ k = 1 => events[1].kind # "nullifier"
        /\ k = 2 => events[1].kind = "nullifier" /\ events[2].kind = "commitment"
    BY <1>2 DEF Emitted
  <2>2. /\ Len(chain') = n + k
        /\ \A p \in 1..n : chain'[p] = chain[p]
        /\ \A i \in 1..k : chain'[n + i] = events[i]
    BY <1>1, <1>2, <2>1, EmitShape
  <2> HIDE DEF k
  <2>3. ASSUME NEW q \in 1..(n + k), chain'[q].kind = "nullifier"
        PROVE  /\ q + 1 \in 1..(n + k) /\ chain'[q + 1].kind = "commitment"
               /\ chain'[q + 1].ledger = chain'[q].ledger
    <3>1. CASE q \in 1..n
      <4>1. q \in OfKind(Positions, "nullifier")
        BY <1>1, <2>2, <2>3, <3>1 DEF OfKind
      <4>2. q + 1 \in 1..n /\ chain[q + 1].kind = "commitment"
            /\ chain[q + 1].ledger = chain[q].ledger
        BY <1>1, <4>1 DEF PairInv, OfKind
      <4> QED BY <1>1, <2>1, <2>2, <3>1, <4>2
    <3>2. CASE q \notin 1..n
      <4>1. PICK i \in 1..k : q = n + i
        <5>1. q - n \in 1..k /\ q = n + (q - n)
          BY <1>1, <2>1, <3>2
        <5> QED BY <5>1
      <4>2. events[i].kind = "nullifier"
        BY <2>2, <2>3, <4>1
      <4>3. k = 2 /\ i = 1
        BY <2>1, <4>1, <4>2
      <4>4. chain'[n + 1] = events[1] /\ chain'[n + 2] = events[2]
        BY <2>2, <4>3
      <4>5. events[1].ledger = events[2].ledger
        BY <2>1, <4>3
      <4>6. q = n + 1 /\ q + 1 = n + 2 /\ n + 2 \in 1..(n + k)
        BY <1>1, <4>1, <4>3
      <4> QED BY <2>1, <4>3, <4>4, <4>5, <4>6
    <3> QED BY <3>1, <3>2
  <2> QED BY <1>1, <2>2, <2>3 DEF PairInv, OfKind
<1>3. CASE CloseLedger
  BY <1>3 DEF CloseLedger, PairInv, OfKind, Positions
<1>4. CASE Environment
  BY <1>2, <1>3, <1>4, EnvironmentShape
<1>5. CASE ~Environment
  BY <1>5, OthersKeepChain DEF PairInv, OfKind, Positions
<1> QED BY <1>4, <1>5

\* Nullifiers are stored before the commitments of their batch, and batches are
\* taken in the order of the events.
LEMMA OrderStep ==
  ASSUME RequestInv, [Next]_vars
  PROVE  OrderInv'
<1> USE DEF RequestInv, StoreInv
<1>1. CASE Environment
  <2>1. Appends /\ UNCHANGED <<nullId, commitId, proc>>
    BY <1>1, EnvironmentAppends DEF rowVars
  <2>2. \A p \in Positions : chain'[p] = chain[p] /\ 1..p \subseteq Positions
    BY <2>1 DEF Appends, Positions
  <2>3. /\ DOMAIN commitId \subseteq Positions /\ proc.batch \subseteq Positions
    BY Counts DEF IndexInv, ProcInv, ProcType
  <2>4. \A p \in DOMAIN commitId : OfKind(1..p, "nullifier")' = OfKind(1..p, "nullifier")
    BY <2>2, <2>3 DEF OfKind
  <2>5. OfKind(proc.batch, "nullifier")' = OfKind(proc.batch, "nullifier")
    BY <2>1, <2>2, <2>3 DEF OfKind
  <2> QED BY <2>1, <2>4, <2>5 DEF OrderInv
<1>2. CASE SaveNullifierEvents
  <2> DEFINE S == OfKind(proc.batch, "nullifier")
  <2>1. /\ nullId' = WithRows(nullId, S) /\ UNCHANGED <<chain, commitId>>
        /\ proc'.batch = proc.batch
    BY <1>2 DEF SaveNullifierEvents, ledgerVars, ProcInv, ProcType
  <2>2. DOMAIN nullId' = DOMAIN nullId \cup S
    BY <2>1 DEF WithRows
  <2> QED BY <2>1, <2>2 DEF OrderInv, OfKind
<1>3. CASE SaveCommitmentEvents
  <2> DEFINE S == Accepted(OfKind(proc.batch, "commitment"))
  <2>1. /\ commitId' = WithRows(commitId, S) /\ UNCHANGED <<chain, nullId>>
        /\ proc.pc = "commitments" /\ proc'.pc = "keys"
    BY <1>3 DEF SaveCommitmentEvents, ledgerVars, ProcInv, ProcType
  <2>2. DOMAIN commitId' = DOMAIN commitId \cup S
    BY <2>1 DEF WithRows
  <2>3. ASSUME NEW p \in S, NEW q \in OfKind(1..p, "nullifier") PROVE q \in DOMAIN nullId
    <3>1. q \in proc.batch \cup Processed /\ chain[q].kind = "nullifier"
      BY DEF ProcInv, OfKind, Accepted
    <3>2. CASE q \in proc.batch
      BY <2>1, <3>1, <3>2 DEF OrderInv, OfKind
    <3>3. CASE q \in Processed
      BY <3>1, <3>3, TablesByKind DEF OfKind
    <3> QED BY <3>1, <3>2, <3>3
  <2> HIDE DEF S
  <2> QED BY <2>1, <2>2, <2>3 DEF OrderInv, OfKind
<1>4. CASE ~Environment /\ ~SaveNullifierEvents /\ ~SaveCommitmentEvents
  <2>1. UNCHANGED <<chain, tip>>
    BY <1>4, OthersKeepChain
  <2>2. /\ UNCHANGED <<nullId, commitId>>
        /\ proc' = proc \/ proc'.pc # "commitments"
    <3>1. CASE Indexer
      BY <3>1 DEF Indexer, StartRound, FetchPage, SaveEventsBatch, SaveSyncProgress, rowVars
    <3>2. CASE Processor
      <4>1. CASE ScanAborts
        BY <4>1 DEF ScanAborts, rowVars, IdleProc
      <4> QED BY <1>4, <3>2, <4>1 DEF Processor, BeginIteration, SavePublicKeyEvents,
         SaveLeafAddedEvents, BeginScan, ScanChunk, ScanCommit, ReconcileNullifiers, rowVars,
         IdleProc, ProcInv, ProcType
    <3>3. CASE Client
      BY <3>3 DEF Client, SaveUserKeys, Plan, FetchChainState, Transact, rowVars
    <3>4. CASE Faults
      BY <3>4 DEF Faults, AbortRound, ClearIndexingCursors, ListenerReturns, Restart, rowVars,
         IdleProc
    <3>5. CASE UNCHANGED vars
      BY <3>5 DEF vars, rowVars
    <3> QED BY <1>4, <3>1, <3>2, <3>3, <3>4, <3>5 DEF Next
  <2> QED BY <2>1, <2>2 DEF OrderInv, OfKind
<1> QED BY <1>1, <1>2, <1>3, <1>4

\* An account that cannot derive from a stored output never can.
LEMMA BlockedStays ==
  ASSUME RequestInv, [Next]_vars
  PROVE  Blocked => Blocked'
<1> USE DEF RequestInv, StoreInv
<1>1. DOMAIN commitId \subseteq Positions
  BY Counts DEF IndexInv
<1>2. CASE Environment
  <2>1. Appends /\ UNCHANGED <<commitId, accounts>>
    BY <1>2, EnvironmentAppends DEF rowVars, noteVars
  <2>2. Positions \subseteq Positions' /\ \A p \in Positions : chain'[p] = chain[p]
    <3>1. Len(chain) \in Nat /\ Len(chain') \in Nat /\ Len(chain) <= Len(chain')
      BY <2>1 DEF Appends, ChainInv
    <3> QED BY <2>1, <3>1 DEF Appends, Positions
  <2> QED BY <1>1, <2>1, <2>2, Stays
<1>3. CASE ~Environment
  <2>1. UNCHANGED <<chain, tip>>
    BY <1>3, OthersKeepChain
  <2>2. DOMAIN commitId \subseteq DOMAIN commitId'
    <3>1. CASE SaveCommitmentEvents
      BY <3>1 DEF SaveCommitmentEvents, WithRows
    <3>2. CASE Processor /\ ~SaveCommitmentEvents
      BY <3>2 DEF Processor, BeginIteration, SaveNullifierEvents, SavePublicKeyEvents,
         SaveLeafAddedEvents, BeginScan, ScanChunk, ScanAborts, ScanCommit,
         ReconcileNullifiers, rowVars
    <3>3. CASE Indexer \/ Client
      BY <3>3 DEF Indexer, StartRound, FetchPage, SaveEventsBatch, SaveSyncProgress, Client,
         SaveUserKeys, Plan, FetchChainState, Transact, rowVars
    <3>4. CASE Faults
      BY <3>4 DEF Faults, AbortRound, ClearIndexingCursors, ListenerReturns, Restart, rowVars
    <3>5. CASE UNCHANGED vars
      BY <3>5 DEF vars, rowVars
    <3> QED BY <1>3, <3>1, <3>2, <3>3, <3>4, <3>5 DEF Next
  <2>3. DOMAIN accounts \subseteq DOMAIN accounts'
        /\ \A i \in DOMAIN accounts : accounts'[i] = accounts[i]
    <3>1. ASSUME NEW a \in Accounts, SaveUserKeys(a)
          PROVE  DOMAIN accounts \subseteq DOMAIN accounts'
                 /\ \A i \in DOMAIN accounts : accounts'[i] = accounts[i]
      <4>1. accounts \in Seq(Accounts)
        BY DEF NotesInv
      <4>2. CASE accounts' = accounts
        BY <4>2
      <4>3. CASE accounts' = Append(accounts, a)
        BY <4>1, <4>3, AppendProperties
      <4> QED BY <3>1, <4>2, <4>3 DEF SaveUserKeys
    <3>2. accounts' = accounts \/ \E a \in Accounts : SaveUserKeys(a)
      <4>1. CASE Processor
        BY <4>1 DEF Processor, BeginIteration, SaveNullifierEvents, SaveCommitmentEvents,
           SavePublicKeyEvents, SaveLeafAddedEvents, BeginScan, ScanChunk, ScanAborts,
           ScanCommit, ReconcileNullifiers, noteVars
      <4>2. CASE Indexer \/ Client
        BY <4>2 DEF Indexer, StartRound, FetchPage, SaveEventsBatch, SaveSyncProgress, Client,
           Plan, FetchChainState, Transact, noteVars
      <4>3. CASE Faults
        BY <4>3 DEF Faults, AbortRound, ClearIndexingCursors, ListenerReturns, Restart, noteVars
      <4>4. CASE UNCHANGED vars
        BY <4>4 DEF vars, noteVars
      <4> QED BY <1>3, <4>1, <4>2, <4>3, <4>4 DEF Next
    <3> QED BY <3>1, <3>2
  <2> QED BY <1>1, <2>1, <2>2, <2>3, Stays DEF Positions
<1> QED BY <1>2, <1>3

\* An iteration stores at most as many nullifiers as it reconciles.
LEMMA BacklogStep ==
  ASSUME RequestInv, [Next]_vars
  PROVE  BacklogInv'
<1> USE DEF RequestInv, StoreInv
<1> DEFINE rows == Cardinality(DOMAIN nullId)
<1>0. /\ rows \in Nat /\ IsFiniteSet(DOMAIN nullId) /\ reconciled \in 0..rows
      /\ FetchLimit \in Nat \ {0} /\ faults \in Nat
      /\ IsFiniteSet({}) /\ Cardinality({}) = 0
  BY Counts, LimitsArePositive, FS_EmptySet DEF NotesInv, TaskInv
<1>13. Blocked => Blocked'
  BY BlockedStays
<1>1. CASE BeginIteration
  <2> DEFINE B == UnprocessedEvents
  <2>1. /\ proc.pc \in {"idle", "yield"} /\ UNCHANGED <<nullId, reconciled, faults>>
        /\ proc'.batch = B
    BY <1>1 DEF BeginIteration, rowVars, noteVars, IdleProc
  <2>2. IsFiniteSet(B) /\ Cardinality(B) <= FetchLimit
    <3>1. raw \ Processed \subseteq 1..MaxEvents /\ MaxEvents \in Nat
      BY Counts
    <3> QED BY <1>0, <3>1, FirstNFacts DEF UnprocessedEvents
  <2> HIDE DEF B
  <2> QED BY <1>0, <1>13, <2>1, <2>2 DEF BacklogInv
<1>2. CASE SaveNullifierEvents
  <2> DEFINE S == OfKind(proc.batch, "nullifier")
  <2>1. /\ proc.pc = "nullifiers" /\ nullId' = WithRows(nullId, S)
        /\ UNCHANGED <<reconciled, faults>>
        /\ proc'.batch = proc.batch /\ proc'.pc = "commitments"
    BY <1>2 DEF SaveNullifierEvents, noteVars, ProcInv, ProcType
  <2>2. DOMAIN nullId' = DOMAIN nullId \cup S
    BY <2>1 DEF WithRows
  <2>3. IsFiniteSet(proc.batch) /\ Cardinality(proc.batch) <= FetchLimit
        /\ S \in SUBSET proc.batch
    BY DEF BacklogInv, OfKind
  <2>4. IsFiniteSet(S) /\ Cardinality(S) <= Cardinality(proc.batch)
        /\ Cardinality(proc.batch) \in Nat
    BY <2>3, FS_Subset, FS_CardinalityType
  <2>5. Cardinality(S) \in Nat /\ Cardinality(S) <= FetchLimit
    <3>1. Cardinality(S) \in Nat
      BY <2>4, FS_CardinalityType
    <3> HIDE DEF S
    <3> QED BY <1>0, <2>3, <2>4, <3>1
  <2>6. Cardinality(DOMAIN nullId \cup S)
          = rows + Cardinality(S) - Cardinality(DOMAIN nullId \cap S)
        /\ Cardinality(DOMAIN nullId \cap S) \in Nat
    <3> HIDE DEF S
    <3>1. IsFiniteSet(DOMAIN nullId \cap S)
      BY <1>0, <2>4, FS_Intersection
    <3> QED BY <1>0, <2>4, <3>1, FS_Union, FS_CardinalityType
  <2> HIDE DEF S
  <2>7. Cardinality(DOMAIN nullId') <= rows + FetchLimit
    BY <1>0, <2>2, <2>5, <2>6
  <2> QED BY <1>0, <1>13, <2>1, <2>3, <2>7 DEF BacklogInv
<1>3. CASE SaveLeafAddedEvents
  <2>1. /\ proc'.batch = {} /\ proc'.pc = "notes" /\ UNCHANGED <<nullId, reconciled, faults>>
    BY <1>3 DEF SaveLeafAddedEvents, noteVars, ProcInv, ProcType
  <2> QED BY <1>0, <1>13, <2>1 DEF BacklogInv
<1>4. CASE ReconcileNullifiers
  <2> DEFINE R == ReconcileRows
  <2>1. /\ proc'.batch = {} /\ UNCHANGED <<nullId, faults>>
        /\ reconciled' = reconciled + Cardinality(R)
    BY <1>4 DEF ReconcileNullifiers, ReconcileMark, rowVars, IdleProc
  <2>2. R = {q \in DOMAIN nullId : nullId[q] > reconciled /\ nullId[q] <= reconciled + FetchLimit}
    BY DEF ReconcileRows
  <2>3. Numbered(nullId)
    BY DEF RowsInv
  <2> HIDE DEF R
  <2>4. rows <= reconciled + FetchLimit => rows = reconciled + Cardinality(R)
    <3>1. /\ Cardinality(R) \in 0..FetchLimit
          /\ reconciled + Cardinality(R) <= Cardinality(DOMAIN nullId)
          /\ R = {} => reconciled = Cardinality(DOMAIN nullId)
          /\ Cardinality(DOMAIN nullId) <= reconciled + FetchLimit =>
               Cardinality(DOMAIN nullId) = reconciled + Cardinality(R)
      BY <1>0, <2>2, <2>3, RowsAfterMark
    <3> QED BY <3>1
  <2>5. faults = 0 /\ ~Blocked => rows = reconciled'
    BY <2>1, <2>4 DEF BacklogInv
  <2> QED BY <1>0, <1>13, <2>1, <2>5 DEF BacklogInv
<1>5. CASE Faults
  <2>1. faults' # 0 /\ (proc' = proc \/ proc'.batch = {})
    BY <1>0, <1>5 DEF Faults, AbortRound, ClearIndexingCursors, ListenerReturns, Restart,
       IdleProc
  <2>2. IsFiniteSet(proc'.batch) /\ Cardinality(proc'.batch) <= FetchLimit
    <3>1. CASE proc' = proc
      BY <3>1 DEF BacklogInv
    <3>2. CASE proc'.batch = {}
      <4>1. 0 <= FetchLimit
        BY <1>0
      <4> QED BY <1>0, <3>2, <4>1
    <3> QED BY <2>1, <3>1, <3>2
  <2> QED BY <2>1, <2>2 DEF BacklogInv
<1>6. ASSUME UNCHANGED <<nullId, reconciled, faults>>, proc'.batch = proc.batch,
             proc'.pc \notin {"idle", "yield", "nullifiers"} \/ proc'.pc = proc.pc
      PROVE  BacklogInv'
  BY <1>6, <1>13 DEF BacklogInv
<1>12. CASE ScanAborts
  <2>1. Blocked' /\ proc'.batch = {}
    BY <1>12, ScanAbortsKeeps DEF ScanAborts, IdleProc
  <2> QED BY <1>0, <2>1 DEF BacklogInv
<1>7. CASE Processor /\ ~BeginIteration /\ ~SaveNullifierEvents /\ ~SaveLeafAddedEvents
           /\ ~ScanAborts /\ ~ReconcileNullifiers
  BY <1>6, <1>7 DEF Processor, SaveCommitmentEvents, SavePublicKeyEvents, BeginScan, ScanChunk,
     ScanCommit, rowVars, noteVars, ProcInv, ProcType
<1>8. CASE Environment
  BY <1>6, <1>8, EnvironmentAppends DEF rowVars, noteVars
<1>9. CASE Indexer
  BY <1>6, <1>9 DEF Indexer, StartRound, FetchPage, SaveEventsBatch, SaveSyncProgress, rowVars,
     noteVars
<1>10. CASE Client
  BY <1>6, <1>10 DEF Client, SaveUserKeys, Plan, FetchChainState, Transact, rowVars, noteVars
<1>11. CASE UNCHANGED vars
  BY <1>6, <1>11 DEF vars, rowVars, noteVars
<1> QED BY <1>1, <1>2, <1>3, <1>4, <1>5, <1>7, <1>8, <1>9, <1>10, <1>11, <1>12 DEF Next

\* The invariant behind the worker's answers.
LEMMA RequestInvariant == Spec => []RequestInv
<1>1. Init => RequestInv
  <2> SUFFICES ASSUME Init PROVE RequestInv
    OBVIOUS
  <2>1. /\ Positions = {} /\ DOMAIN nullId = {} /\ DOMAIN commitId = {}
        /\ proc.pc = "idle" /\ proc.batch = {} /\ client.pc = "idle" /\ reconciled = 0
    BY DEF Init, Positions, IdleProc, IdleClient
  <2>2. IsFiniteSet({}) /\ Cardinality({}) = 0
    BY FS_EmptySet
  <2>3. BacklogInv
    BY <2>1, <2>2, LimitsArePositive DEF BacklogInv
  <2> QED BY <2>1, <2>3, StoreInit DEF RequestInv, AskInv, PairInv, OrderInv, OfKind
<1>2. RequestInv /\ [Next]_vars => RequestInv'
  BY StoreStep, AskStep, PairStep, OrderStep, BacklogStep DEF RequestInv
<1> QED BY <1>1, <1>2, PTL DEF Spec

\* An error answer with everything processed that can be and nothing newer
\* stored than the request's ledger: impossible, for the tables are then the
\* chain's.
LEMMA ErrorFacts ==
  ASSUME RequestInv, client.pc = "ask", TransactAnswer(client) = "error"
  PROVE  \/ client.ledger < meta.fully
         \/ \E p \in raw : chain[p].ledger > client.ledger
         \/ raw \ Processed # Dead
         \/ \E p \in raw : Refused(p)
<1> USE DEF RequestInv, StoreInv
<1> SUFFICES ASSUME ~(client.ledger < meta.fully), raw \ Processed = Dead,
                    \A p \in raw : ~Refused(p),
                    \A p \in raw : ~(chain[p].ledger > client.ledger)
             PROVE  FALSE
  OBVIOUS
<1>0. /\ client.ledger \in 0..tip /\ tip \in Nat /\ meta.fully \in 0..tip
      /\ raw \subseteq Positions /\ \A p \in Positions : chain[p].ledger \in Int
  BY EventFacts DEF AskInv, ChainInv, IndexInv, MetaInv
<1>1. ~HasGap(leafRows, "leaf") /\ ~HasGap(DOMAIN commitId, "commitment")
  <2>1. ASSUME NEW p \in DOMAIN commitId, NEW q \in OfKind(1..p, "commitment")
        PROVE  q \in DOMAIN commitId
    <3>1. q \in raw
      BY Counts DEF IndexInv, Downward, OfKind
    <3>2. q \in DOMAIN commitId \/ Refused(q)
      BY <2>1 DEF RowsInv, LeavesGapFree
    <3> QED BY <3>1, <3>2
  <2>2. ~HasGap(DOMAIN commitId, "commitment")
    BY <2>1 DEF HasGap
  <2> QED BY <2>2 DEF RowsInv, LeavesGapFree
<1>2. AspMembershipSync(client) \in {"error", "params"}
  BY DEF TransactAnswer
<1>3. meta.indexed # 0 /\ client.ledger = meta.fully /\ leafRows # {}
  <2>1. ~(client.ledger > meta.fully) /\ meta.indexed # 0 /\ leafRows # {}
    BY <1>2 DEF AspMembershipSync
  <2> QED BY <1>0, <2>1
<1>4. \A p \in Positions : p \in raw <=> chain[p].ledger <= client.ledger
  BY <1>0, <1>3 DEF IndexInv, MetaInv, StoredUpTo
<1>5. client.asp = leafRows /\ client.pool = DOMAIN commitId
  <2>1. client.asp = OfKind(raw, "leaf") /\ client.pool = OfKind(raw, "commitment")
    BY <1>0, <1>4 DEF AskInv, EventsUpTo, OfKind
  <2>2. OfKind(raw, "leaf") = leafRows /\ OfKind(raw, "commitment") = DOMAIN commitId
    <3>1. \A p \in raw : p \in Processed \/ chain[p].kind = "other"
      BY DEF Dead
    <3>2. OfKind(raw, "leaf") \subseteq leafRows
          /\ OfKind(raw, "commitment") \subseteq DOMAIN commitId
      BY <3>1, TablesByKind DEF OfKind
    <3> QED BY <3>2 DEF RowsInv
  <2> QED BY <2>1, <2>2
<1>6. leafRows = OfKind(1..MaxOf(leafRows), "leaf")
  <2> DEFINE last == MaxOf(leafRows)
  <2>1. leafRows \subseteq 1..MaxEvents /\ MaxEvents \in Nat
    BY Counts
  <2>2. last \in leafRows /\ \A y \in leafRows : y <= last
    <3>1. leafRows \subseteq 0..MaxEvents
      BY <2>1
    <3> QED BY <1>3, <2>1, <3>1, Extremes
  <2> HIDE DEF last
  <2>3. OfKind(1..last, "leaf") \subseteq leafRows
    BY <1>1, <2>2 DEF HasGap
  <2>4. \A p \in leafRows : p \in 1..last /\ chain[p].kind = "leaf"
    BY <2>1, <2>2 DEF RowsInv, OfKind
  <2>5. leafRows \subseteq OfKind(1..last, "leaf")
    BY <2>4 DEF OfKind
  <2> QED BY <2>3, <2>5 DEF last
<1>7. AspMembershipSync(client) # "error"
  BY <1>0, <1>1, <1>3, <1>5, <1>6 DEF AspMembershipSync
<1>8. PoolInputs(client) # "error"
  BY <1>1, <1>5 DEF PoolInputs
<1> QED BY <1>2, <1>7, <1>8 DEF TransactAnswer

\* Proof inputs: the tables hold the chain's commitments of the request's
\* ledger, so the nullifiers before them are stored, and without a crash and an
\* output that stops the scan they are reconciled.
LEMMA OfferedFacts ==
  ASSUME RequestInv, client.pc = "ask", ~Busy, client.input # 0,
         TransactAnswer(client) = "params",
         NEW q \in OfKind(Positions, "nullifier"), chain[q].arg = client.input
  PROVE  \/ chain[q].ledger > client.ledger
         \/ /\ faults > 0 \/ Blocked
            /\ q \in DOMAIN nullId /\ nullId[q] > reconciled
<1> USE DEF RequestInv, StoreInv
<1>0. /\ client.ledger \in 0..tip /\ tip \in Nat /\ faults \in Nat
      /\ \A p \in Positions : chain[p].ledger \in Int
      /\ Cardinality(DOMAIN nullId) \in Nat /\ q \in Positions /\ q \in Nat /\ q >= 1
  BY EventFacts, Counts, LimitsArePositive DEF AskInv, ChainInv, OfKind, Positions, TaskInv
<1> SUFFICES ASSUME chain[q].ledger <= client.ledger
             PROVE  /\ faults > 0 \/ Blocked
                    /\ q \in DOMAIN nullId /\ nullId[q] > reconciled
  BY <1>0
<1>1. PoolInputs(client) = "params"
  BY DEF TransactAnswer
<1>2. DOMAIN commitId = client.pool
      /\ \E n \in UnspentNotes(client.acct) : n.pos = client.input
  BY <1>1 DEF PoolInputs
<1>3. PICK n \in notes : n.spent = 0 /\ n.pos = client.input
  BY <1>2 DEF UnspentNotes
<1>4. q + 1 \in DOMAIN commitId
  <2>1. q + 1 \in OfKind(Positions, "commitment") /\ chain[q + 1].ledger = chain[q].ledger
    BY DEF PairInv
  <2> QED BY <1>2, <2>1 DEF AskInv, EventsUpTo, OfKind
<1>5. q \in DOMAIN nullId
  <2>1. q \in OfKind(1..(q + 1), "nullifier")
    BY <1>0 DEF OfKind
  <2> QED BY <1>4, <2>1 DEF OrderInv
<1>6. q \in NullifierRowOf(n.pos)
  BY <1>3, <1>5 DEF NullifierRowOf
<1>7. nullId[q] > reconciled
  BY <1>3, <1>6 DEF NotesInv, NothingLost, NoLostSpend
<1>8. ASSUME faults = 0, ~Blocked PROVE FALSE
  <2>1. reconciled = Cardinality(DOMAIN nullId)
    BY <1>8 DEF BacklogInv, Busy
  <2>2. nullId[q] \in 1..Cardinality(DOMAIN nullId)
    BY <1>5 DEF RowsInv, Numbered
  <2> QED BY <1>0, <1>7, <2>1, <2>2
<1> QED BY <1>0, <1>5, <1>7, <1>8

\* What the worker does with a request.
LEMMA TransactShape ==
  ASSUME StoreInv, Transact
  PROVE  /\ client.pc = "ask" /\ ~Busy /\ client'.pc = TransactAnswer(client)
         /\ UNCHANGED <<chain, meta, raw, faults>>
BY DEF Transact, StoreInv, TaskInv, ClientType, ledgerVars, indexVars

\* Proof inputs are never built from a note that was spent on the chain at the
\* request's ledger, unless the stored nullifier waits for reconciliation after
\* a crash or behind a scan that cannot pass an output.
THEOREM OfferedNotesAreUnspent == Spec => OfferedNotesUnspent
<1>1. RequestInv /\ [Next]_vars =>
        [Transact /\ client'.pc = "params" /\ client.input # 0 =>
           \A q \in OfKind(Positions, "nullifier") :
             chain[q].arg = client.input =>
               \/ chain[q].ledger > client.ledger
               \/ /\ faults > 0 \/ Blocked
                  /\ q \in DOMAIN nullId /\ nullId[q] > reconciled]_vars
  BY OfferedFacts, TransactShape DEF RequestInv
<1> QED BY <1>1, RequestInvariant, PTL DEF Spec, OfferedNotesUnspent

\* An error answer means that the store is ahead of the request, that it still
\* has events to process, or that the second event of a commitment has left an
\* index empty, never that the tables disagree with the chain otherwise.
THEOREM ErrorsAreExplained == Spec => ErrorsExplained
<1>1. RequestInv /\ [Next]_vars =>
        [Transact /\ client'.pc = "error" =>
           \/ client.ledger < meta.fully
           \/ \E p \in raw : chain[p].ledger > client.ledger
           \/ raw \ Processed # Dead
           \/ \E p \in raw : Refused(p)]_vars
  BY ErrorFacts, TransactShape DEF RequestInv
<1> QED BY <1>1, RequestInvariant, PTL DEF Spec, ErrorsExplained
=============================================================================
