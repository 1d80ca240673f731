--------------------------- MODULE BootnodeProofs ---------------------------
(***************************************************************************)
(* Proofs about Bootnode, for every page size, number of pages, retention  *)
(* and redirect window: a page of the archive is what the upstream node    *)
(* had, the archive has what the bootnode reports as indexed, and the      *)
(* wallet passes over no event when it changes between the nodes.          *)
(***************************************************************************)
EXTENDS Bootnode, Arithmetic, SequenceTheorems

-----------------------------------------------------------------------------
(* The inductive invariant.                                                *)

Positions == 1 .. Len(chain)

\* Ledgers close in order, and the open one is the next after the tip.
ChainInv ==
    /\ chain \in Seq(1 .. MaxLedger)
    /\ Len(chain) \in 0 .. MaxEvents
    /\ tip \in 1 .. MaxLedger
    /\ \A p \in Positions : chain[p] <= tip + 1
    /\ \A p, q \in Positions : q <= p => chain[q] <= chain[p]

\* A cursor splits the chain at its position, within the ledger it names.
SplitsAt(ledgers, last, c) ==
    /\ c \in [ledger : 1 .. last, pos : 0 .. Len(ledgers)]
    /\ \A p \in 1 .. Len(ledgers) : /\ ledgers[p] < c.ledger => p <= c.pos
                                    /\ p <= c.pos => ledgers[p] <= c.ledger

Splits(c) == SplitsAt(chain, tip, c)

SplitsOrNone(c) == c = NoCursor \/ Splits(c)

\* A cursor at the end of its ledger.
EndsLedger(c) == \A p \in Positions : chain[p] <= c.ledger => p <= c.pos

After(pos, c) == {p \in 1 .. c.pos : p > pos}

\* The position after which a key's page begins.
KeyPos(k) == IF k[1] = "start" THEN -1 ELSE k[2].pos

Keys == {StartKey(Deployment)} \cup {CursorKey(c) : c \in [ledger : 1 .. tip, pos : 0 .. Len(chain)]}

PagesInv ==
    /\ DOMAIN pages \subseteq Keys
    /\ \A k \in DOMAIN pages :
           /\ pages[k] \in [events : SUBSET Positions, cursor : [ledger : 1 .. tip, pos : 0 .. Len(chain)]]
           /\ Splits(pages[k].cursor)
           /\ pages[k].events = After(KeyPos(k), pages[k].cursor)
           /\ pages[k].events # {}

KvInv ==
    /\ kv \in [cursor : Cursors, fully : 0 .. tip, tip : 0 .. tip, inSync : BOOLEAN]
    /\ SplitsOrNone(kv.cursor)
    /\ ledgerTip \in 0 .. tip

Archiving == {"unsync", "insert", "cursor"}
CatchingUp == {"caught_up", "fully", "sync"}

\* The page in hand continues the cursor it was asked with.
RoundInv ==
    /\ bn \in [pc : {"sleep", "fetch"} \cup Archiving \cup CatchingUp, cursor : Cursors,
               left : 0 .. MaxPages, resp : GetEventsResponse]
    /\ SplitsOrNone(bn.cursor)
    /\ bn.pc \in {"fetch"} \cup Archiving => bn.left >= 1
    /\ bn.pc \in Archiving \cup CatchingUp =>
           /\ Splits(bn.resp.cursor)
           /\ bn.resp.cursor.pos >= bn.cursor.pos
           /\ bn.resp.events = After(bn.cursor.pos, bn.resp.cursor)
    /\ bn.pc \in Archiving => bn.resp.events # {}
    /\ bn.pc \in CatchingUp => bn.resp.events = {} /\ EndsLedger(bn.resp.cursor)

Archived(p) == \E k \in DOMAIN pages : p \in pages[k].events

\* Without a crash the archive reaches the stored cursor, and no page was
\* asked for twice.
UncrashedInv ==
    /\ \A p \in 1 .. kv.cursor.pos : Archived(p)
    /\ \A p \in Positions : chain[p] <= kv.fully => Archived(p)
    /\ bn.pc \in {"fetch", "caught_up"} \cup Archiving => bn.cursor = kv.cursor
    /\ bn.pc \in {"fully", "sync"} => bn.resp.cursor = kv.cursor
    /\ bn.pc = "cursor" => \A p \in bn.resp.events : Archived(p)
    /\ \A k \in DOMAIN pages : \/ KeyPos(k) < kv.cursor.pos
                               \/ bn.pc = "cursor" /\ KeyPos(k) = kv.cursor.pos

WalletInv ==
    /\ meta \in [cursor : Cursors, indexed : 0 .. tip]
    /\ SplitsOrNone(meta.cursor)
    /\ stored \subseteq Positions
    /\ NoSkippedEvents
    /\ lst \in [pc : {"closed", "init", "main", "stopped", "probe", "archive", "back"},
                url : BOOLEAN, asked : BOOLEAN,
                cause : {"none", "gap", "handoff", "miss", "failure"}]
    /\ lst.asked => lst.pc \in {"probe", "archive"}

BootInv ==
    /\ ChainInv /\ PagesInv /\ KvInv /\ RoundInv /\ WalletInv
    /\ crashes \in Nat
    /\ crashes = 0 => UncrashedInv

-----------------------------------------------------------------------------
(* A page of an RPC node.                                                  *)

Wanted(c, start, p) == IF c = NoCursor THEN chain[p] >= start ELSE p > c.pos

\* The page has all that is wanted up to its cursor, which does not go back.
Continues(page, c, start) ==
    /\ page \in [events : SUBSET Positions, cursor : [ledger : 1 .. tip, pos : 0 .. Len(chain)]]
    /\ Splits(page.cursor)
    /\ page.events = {p \in 1 .. page.cursor.pos : Wanted(c, start, p)}
    /\ page.events # {} => page.cursor.pos \in page.events
    /\ page.events = {} => EndsLedger(page.cursor) /\ page.cursor.ledger = tip
    /\ c.pos <= page.cursor.pos

\* MaxOf of a nonempty bounded set of numbers.
LEMMA Greatest ==
  ASSUME NEW m \in Nat, NEW S, S \subseteq 0..m, S # {}
  PROVE  MaxOf(S) \in S /\ \A y \in S : y <= MaxOf(S)
<1>1. \E x \in S : \A y \in S : y <= x
  BY GreatestNumber
<1> QED BY <1>1 DEF MaxOf

\* What a node can see is a prefix of the chain.
LEMMA VisiblePrefix ==
  ASSUME ChainInv
  PROVE  /\ Cardinality(Visible) \in 0..Len(chain)
         /\ Visible = 1..Cardinality(Visible)
<1>1. Len(chain) \in Nat /\ \A p \in Positions : p \in Nat /\ chain[p] \in Nat
  BY LimitsArePositive DEF ChainInv, Positions
<1>2. Visible \subseteq 1..Len(chain)
  BY DEF Visible
<1>3. ASSUME NEW p \in Visible, NEW q \in 1..p PROVE q \in Visible
  <2>1. p \in Positions /\ q \in Positions /\ q <= p /\ chain[p] <= tip
    BY <1>1 DEF Visible, Positions
  <2>2. chain[q] <= chain[p]
    BY <2>1 DEF ChainInv
  <2>3. chain[q] <= tip
    BY <1>1, <2>1, <2>2 DEF ChainInv
  <2> QED BY <2>1, <2>3 DEF Visible, Positions
<1>4. \A p \in Visible : 1..p \subseteq Visible
  BY <1>3
<1> QED BY <1>1, <1>2, <1>4, DownwardInterval

\* The chain as a function on its positions.
LEMMA ChainFacts ==
  ASSUME ChainInv
  PROVE  /\ Len(chain) \in Nat /\ tip \in Nat /\ tip >= 1
         /\ \A p \in Positions : p \in Nat /\ p >= 1 /\ p <= Len(chain)
                                 /\ chain[p] \in Nat /\ chain[p] >= 1 /\ chain[p] <= tip + 1
         /\ \A p, q \in Positions : q <= p => chain[q] <= chain[p]
BY LimitsArePositive DEF ChainInv, Positions

\* What a node answers continues the cursor or the ledger it was asked with.
LEMMA NodePageContinues ==
  ASSUME ChainInv, NEW c, SplitsOrNone(c), NEW start \in Nat
  PROVE  Continues(NodePage(c, start), c, start)
<1> DEFINE v == Cardinality(Visible)
           S == {p \in Visible : Wanted(c, start, p)}
           F == NodeEvents(c, start)
           page == NodePage(c, start)
<1>1. v \in 0..Len(chain) /\ Visible = 1..v /\ v \in Nat
  BY VisiblePrefix, ChainFacts
<1>2. F = {p \in S : Cardinality({q \in S : q < p}) < PageSize}
  BY DEF NodeEvents, Wanted
<1>3. page.events = F /\ page.cursor = NodeCursor(F)
      /\ page = [events |-> F, cursor |-> NodeCursor(F)]
  BY DEF NodePage
<1>4. /\ F \subseteq S
      /\ \A p \in F, q \in S : q < p => q \in F
      /\ Cardinality(F) # PageSize => F = S
      /\ F = {} => S = {}
      /\ IsFiniteSet(F) /\ Cardinality(F) <= PageSize
  <2>1. S \subseteq 1..Len(chain) /\ Len(chain) \in Nat /\ PageSize \in Nat \ {0}
    BY ChainFacts, LimitsArePositive DEF Visible
  <2> HIDE DEF S, F
  <2>2. \A G : G = {p \in S : Cardinality({q \in S : q < p}) < PageSize} =>
           /\ G \subseteq S
           /\ \A p \in G, q \in S : q < p => q \in G
           /\ Cardinality(G) # PageSize => G = S
           /\ G = {} => S = {}
           /\ IsFiniteSet(G) /\ Cardinality(G) <= PageSize
    BY <2>1, SmallestElements
  <2> QED BY <1>2, <2>2, Zenon
<1> HIDE DEF F, page
<1>5. \A p \in S : p \in 1..v /\ p \in Positions /\ Wanted(c, start, p) /\ chain[p] <= tip
  BY <1>1 DEF Visible, Positions
<1>6. ASSUME NEW p \in S, NEW q \in 1..v, p <= q PROVE q \in S
  <2>1. p \in Positions /\ q \in Positions /\ q \in Visible
    BY <1>1, <1>5 DEF Visible, Positions
  <2>2. chain[p] <= chain[q] /\ chain[p] \in Nat /\ chain[q] \in Nat /\ p \in Nat /\ q \in Nat
    BY <1>6, <2>1, ChainFacts
  <2>3. CASE c = NoCursor
    BY <1>6, <2>1, <2>2, <2>3, <1>5 DEF Wanted
  <2>4. CASE c # NoCursor
    <3>1. c.pos \in Nat
      BY <2>4, ChainFacts DEF SplitsOrNone, Splits, SplitsAt
    <3>2. q > c.pos
      BY <1>5, <1>6, <2>2, <2>4, <3>1 DEF Wanted
    <3> QED BY <2>1, <2>4, <3>2 DEF Wanted
  <2> QED BY <2>3, <2>4
<1>7. c.pos <= v /\ c.pos \in Int
  <2>1. CASE c = NoCursor
    BY <1>1, <2>1 DEF NoCursor
  <2>2. CASE Splits(c)
    <3>1. c.pos \in 0..Len(chain) /\ c.ledger \in 1..tip
      BY <2>2 DEF Splits, SplitsAt
    <3>2. CASE c.pos = 0
      BY <1>1, <3>2
    <3>3. CASE c.pos # 0
      <4>1. c.pos \in Positions
        BY <3>1, <3>3, ChainFacts DEF Positions
      <4>2. chain[c.pos] <= c.ledger
        BY <2>2, <4>1, ChainFacts DEF Splits, SplitsAt, Positions
      <4>3. chain[c.pos] <= tip
        BY <3>1, <4>1, <4>2, ChainFacts
      <4>4. c.pos \in Visible
        BY <4>1, <4>3 DEF Visible, Positions
      <4> QED BY <1>1, <4>4
    <3> QED BY <3>2, <3>3
  <2> QED BY <2>1, <2>2 DEF SplitsOrNone
<1>8. CASE Cardinality(F) = PageSize
  <2> DEFINE x == MaxOf(F)
  <2>1. F # {}
    BY <1>8, FS_EmptySet, LimitsArePositive
  <2>2. x \in F /\ \A y \in F : y <= x
    <3>1. F \subseteq 0..Len(chain)
      BY <1>4, <1>5, ChainFacts
    <3> QED BY <2>1, <3>1, ChainFacts, Greatest
  <2> HIDE DEF x
  <2>3. NodeCursor(F) = [ledger |-> chain[x], pos |-> x]
    BY <1>8 DEF NodeCursor, x
  <2>4. x \in S /\ x \in 1..v /\ x \in Positions /\ Wanted(c, start, x) /\ chain[x] <= tip
        /\ x \in Nat /\ chain[x] \in 1..tip
    BY <1>4, <1>5, <2>2, ChainFacts
  <2>5. page.cursor.ledger = chain[x] /\ page.cursor.pos = x
    BY <1>3, <2>3
  <2>6. page.cursor \in [ledger : 1..tip, pos : 0..Len(chain)]
    BY <1>3, <2>3, <2>4, ChainFacts
  <2>7. page \in [events : SUBSET Positions, cursor : [ledger : 1 .. tip, pos : 0 .. Len(chain)]]
    <3>1. F \in SUBSET Positions
      BY <1>4, <1>5
    <3> QED BY <1>3, <2>6, <3>1
  <2>8. Splits(page.cursor)
    <3>1. ASSUME NEW p \in Positions
          PROVE  /\ chain[p] < page.cursor.ledger => p <= page.cursor.pos
                 /\ p <= page.cursor.pos => chain[p] <= page.cursor.ledger
      <4>1. p \in Nat /\ chain[p] \in Nat /\ x \in Nat /\ chain[x] \in Nat
            /\ (p <= x => chain[p] <= chain[x]) /\ (x <= p => chain[x] <= chain[p])
        BY <2>4, ChainFacts
      <4> QED BY <2>5, <4>1
    <3> QED BY <2>6, <3>1 DEF Splits, SplitsAt, Positions
  <2>9. F = {p \in 1..x : Wanted(c, start, p)}
    <3>1. ASSUME NEW p \in F PROVE p \in 1..x /\ Wanted(c, start, p)
      BY <1>4, <1>5, <2>2, <2>4
    <3>2. ASSUME NEW p \in 1..x, Wanted(c, start, p) PROVE p \in F
      <4>1. p \in S
        BY <1>1, <2>4, <3>2
      <4>2. p < x \/ p = x
        BY <2>4
      <4> QED BY <1>4, <2>2, <4>1, <4>2
    <3> QED BY <3>1, <3>2
  <2>10. c.pos <= x
    <3>1. CASE c = NoCursor
      BY <2>4, <3>1 DEF NoCursor
    <3>2. CASE c # NoCursor
      BY <1>7, <2>4, <3>2 DEF Wanted
    <3> QED BY <3>1, <3>2
  <2>11. Continues(page, c, start)
    BY <1>3, <2>1, <2>2, <2>5, <2>7, <2>8, <2>9, <2>10 DEF Continues
  <2> QED BY <2>11 DEF page
<1>9. CASE Cardinality(F) # PageSize
  <2>1. F = S
    BY <1>4, <1>9
  <2>2. NodeCursor(F) = [ledger |-> tip, pos |-> v]
    BY <1>9 DEF NodeCursor
  <2>3. page.cursor.ledger = tip /\ page.cursor.pos = v
    BY <1>3, <2>2
  <2>4. page.cursor \in [ledger : 1..tip, pos : 0..Len(chain)]
    BY <1>1, <1>3, <2>2, ChainFacts
  <2>5. page \in [events : SUBSET Positions, cursor : [ledger : 1 .. tip, pos : 0 .. Len(chain)]]
    <3>1. F \in SUBSET Positions
      BY <1>5, <2>1
    <3> QED BY <1>3, <2>4, <3>1
  <2>6. \A p \in Positions : chain[p] <= tip <=> p <= v
    BY <1>1, ChainFacts DEF Visible, Positions
  <2>7. EndsLedger(page.cursor)
    BY <2>3, <2>6 DEF EndsLedger
  <2>8. Splits(page.cursor)
    <3>1. ASSUME NEW p \in Positions
          PROVE  /\ chain[p] < page.cursor.ledger => p <= page.cursor.pos
                 /\ p <= page.cursor.pos => chain[p] <= page.cursor.ledger
      BY <2>3, <2>6, ChainFacts
    <3> QED BY <2>4, <3>1 DEF Splits, SplitsAt, Positions
  <2>9. F = {p \in 1..v : Wanted(c, start, p)}
    BY <1>1, <2>1
  <2>10. ASSUME F # {} PROVE v \in F
    <3>1. PICK p \in S : TRUE
      BY <2>1, <2>10
    <3>2. p <= v /\ v \in 1..v
      BY <1>1, <1>5, <3>1
    <3> QED BY <1>6, <2>1, <3>1, <3>2
  <2>11. Continues(page, c, start)
    BY <1>3, <1>7, <2>3, <2>5, <2>7, <2>8, <2>9, <2>10 DEF Continues
  <2> QED BY <2>11 DEF page
<1> QED BY <1>8, <1>9 DEF page

-----------------------------------------------------------------------------
(* The chain grows.                                                        *)

\* Events of later ledgers are added behind the others; ledgers close.
Grows ==
    /\ Len(chain') \in Nat /\ Len(chain) <= Len(chain')
    /\ \A p \in Positions : chain'[p] = chain[p]
    /\ \A p \in Positions' : p \in Positions \/ chain'[p] > tip
    /\ tip' \in Nat /\ tip <= tip'

LEMMA EmitGrows ==
  ASSUME ChainInv, Emit
  PROVE  ChainInv' /\ Grows
<1>1. /\ chain' = Append(chain, tip + 1) /\ tip' = tip
      /\ chain \in Seq(1..MaxLedger) /\ tip + 1 \in 1..MaxLedger
      /\ Len(chain) + 1 \in 0..MaxEvents /\ Len(chain) \in Nat /\ tip \in Nat
  BY LimitsArePositive DEF Emit, ChainInv
<1>2. /\ chain' \in Seq(1..MaxLedger) /\ Len(chain') = Len(chain) + 1
      /\ \A p \in Positions : chain'[p] = chain[p]
      /\ chain'[Len(chain) + 1] = tip + 1
  BY <1>1 DEF Positions
<1>3. ASSUME NEW p \in Positions' PROVE p \in Positions \/ p = Len(chain) + 1
  BY <1>1, <1>2 DEF Positions
<1>4. ASSUME NEW p \in Positions' PROVE chain'[p] <= tip' + 1
  BY <1>1, <1>2, <1>3, ChainFacts
<1>5. ASSUME NEW p \in Positions', NEW q \in Positions', q <= p PROVE chain'[q] <= chain'[p]
  <2>1. CASE p \in Positions /\ q \in Positions
    BY <1>2, <1>5, <2>1, ChainFacts
  <2>2. CASE p = Len(chain) + 1
    BY <1>1, <1>2, <1>4, <2>2
  <2>3. CASE p \in Positions /\ q = Len(chain) + 1
    BY <1>1, <1>5, <2>3, ChainFacts
  <2> QED BY <1>3, <2>1, <2>2, <2>3
<1>6. ChainInv'
  <2>1. tip' \in 1..MaxLedger
    BY <1>1 DEF ChainInv
  <2> QED BY <1>1, <1>2, <1>4, <1>5, <2>1 DEF ChainInv
<1>7. Grows
  <2>1. \A p \in Positions' : p \in Positions \/ chain'[p] > tip
    BY <1>1, <1>2, <1>3
  <2>2. Len(chain') \in Nat /\ Len(chain) <= Len(chain') /\ tip' \in Nat /\ tip <= tip'
    BY <1>1, <1>2
  <2> QED BY <1>2, <2>1, <2>2 DEF Grows
<1> QED BY <1>6, <1>7

LEMMA CloseLedgerGrows ==
  ASSUME ChainInv, CloseLedger
  PROVE  ChainInv' /\ Grows
<1>1. chain' = chain /\ tip' = tip + 1 /\ tip + 1 \in 1..MaxLedger /\ tip \in Nat
  BY LimitsArePositive DEF CloseLedger, ChainInv
<1>2. Positions' = Positions
  BY <1>1 DEF Positions
<1>3. \A p \in Positions : chain[p] <= tip' + 1
  BY <1>1, ChainFacts
<1> QED BY <1>1, <1>2, <1>3, ChainFacts DEF ChainInv, Grows

LEMMA GrownLedgers ==
  ASSUME ChainInv'
  PROVE  \A p \in Positions' : chain'[p] \in Nat
BY LimitsArePositive DEF ChainInv, Positions

\* A cursor of the chain stays one.
LEMMA GrowsSplits ==
  ASSUME ChainInv, Grows, ChainInv'
  PROVE  \A c : SplitsAt(chain, tip, c) => SplitsAt(chain', tip', c)
<1> SUFFICES ASSUME NEW c, SplitsAt(chain, tip, c)
             PROVE  SplitsAt(chain', tip', c)
  OBVIOUS
<1>1. c \in [ledger : 1..tip, pos : 0..Len(chain)]
      /\ c.ledger \in Nat /\ c.pos \in Nat /\ c.ledger <= tip /\ c.pos <= Len(chain)
  BY ChainFacts DEF SplitsAt
<1>2. c \in [ledger : 1..tip', pos : 0..Len(chain')]
  BY <1>1, ChainFacts DEF Grows
<1>3. ASSUME NEW p \in 1..Len(chain')
      PROVE  /\ chain'[p] < c.ledger => p <= c.pos
             /\ p <= c.pos => chain'[p] <= c.ledger
  <2>1. CASE p \in Positions
    BY <2>1 DEF Grows, SplitsAt, Positions
  <2>2. CASE p \notin Positions
    <3>1. p \in Nat /\ p > Len(chain)
      BY <2>2, ChainFacts DEF Positions, Grows
    <3>2. chain'[p] > tip /\ chain'[p] \in Nat
      BY <2>2, GrownLedgers DEF Positions, Grows
    <3> QED BY <1>1, <3>1, <3>2, ChainFacts
  <2> QED BY <2>1, <2>2
<1> QED BY <1>2, <1>3 DEF SplitsAt

\* What is said of ledgers that have closed stays true.
LEMMA GrowsInv ==
  ASSUME BootInv, Grows, ChainInv', UNCHANGED <<bootVars, walletVars, crashes>>
  PROVE  BootInv'
<1>1. \A c : SplitsAt(chain, tip, c) => SplitsAt(chain', tip', c)
  BY GrowsSplits DEF BootInv
<1>2. /\ Positions \subseteq Positions' /\ Len(chain) \in Nat /\ Len(chain') \in Nat
      /\ Len(chain) <= Len(chain') /\ tip \in Nat /\ tip' \in Nat /\ tip <= tip'
  BY ChainFacts DEF BootInv, Grows, Positions
<1>3. /\ kv' = kv /\ ledgerTip' = ledgerTip /\ pages' = pages /\ bn' = bn /\ lst' = lst
      /\ meta' = meta /\ stored' = stored /\ crashes' = crashes
  BY DEF bootVars, walletVars
<1>4. PagesInv'
  <2>1. DOMAIN pages \subseteq Keys'
    <3>1. [ledger : 1 .. tip, pos : 0 .. Len(chain)] \subseteq [ledger : 1 .. tip', pos : 0 .. Len(chain')]
      BY <1>2
    <3> QED BY <3>1 DEF BootInv, PagesInv, Keys
  <2>2. ASSUME NEW k \in DOMAIN pages
        PROVE  /\ pages[k] \in [events : SUBSET Positions', cursor : [ledger : 1 .. tip', pos : 0 .. Len(chain')]]
               /\ SplitsAt(chain', tip', pages[k].cursor)
    <3>1. SplitsAt(chain', tip', pages[k].cursor)
      BY <1>1 DEF BootInv, PagesInv, Splits
    <3>2. pages[k] \in [events : SUBSET Positions, cursor : [ledger : 1 .. tip, pos : 0 .. Len(chain)]]
      BY DEF BootInv, PagesInv
    <3>3. pages[k].cursor \in [ledger : 1 .. tip', pos : 0 .. Len(chain')]
      BY <3>1 DEF SplitsAt
    <3> QED BY <1>2, <3>1, <3>2, <3>3
  <2> QED BY <1>3, <2>1, <2>2 DEF BootInv, PagesInv, Splits, After, KeyPos
<1>5. KvInv'
  <2>1. kv \in [cursor : Cursors, fully : 0 .. tip', tip : 0 .. tip', inSync : BOOLEAN]
        /\ ledgerTip \in 0 .. tip'
    <3>1. \A x \in 0..tip : x \in 0..tip'
      BY <1>2
    <3> QED BY <3>1 DEF BootInv, KvInv
  <2> QED BY <1>1, <1>3, <2>1 DEF BootInv, KvInv, SplitsOrNone, Splits, Cursors
<1>6. ASSUME NEW c, SplitsAt(chain, tip, c), EndsLedger(c)
      PROVE  \A p \in Positions' : chain'[p] <= c.ledger => p <= c.pos
  <2>1. c.ledger \in Nat /\ c.ledger <= tip
    BY <1>2, <1>6 DEF SplitsAt
  <2>2. ASSUME NEW p \in Positions', p \notin Positions PROVE ~(chain'[p] <= c.ledger)
    <3>1. chain'[p] > tip /\ chain'[p] \in Nat
      BY <2>2, GrownLedgers DEF Positions, Grows
    <3> QED BY <1>2, <2>1, <3>1
  <2> QED BY <1>6, <2>2 DEF EndsLedger, Grows
<1>7. RoundInv'
  <2>1. bn.pc \in CatchingUp => EndsLedger(bn.resp.cursor)'
    BY <1>3, <1>6 DEF BootInv, RoundInv, Splits, EndsLedger
  <2> QED BY <1>1, <1>3, <2>1
          DEF BootInv, RoundInv, SplitsOrNone, Splits, Cursors, GetEventsResponse, After
<1>8. WalletInv'
  <2>1. meta \in [cursor : Cursors, indexed : 0 .. tip']
    <3>1. \A x \in 0..tip : x \in 0..tip'
      BY <1>2
    <3> QED BY <3>1 DEF BootInv, WalletInv
  <2>2. ASSUME NEW p \in Positions', chain'[p] < meta.indexed PROVE p \in stored
    <3>1. meta.indexed \in 0..tip /\ chain'[p] \in Nat
      BY GrownLedgers DEF BootInv, WalletInv
    <3>2. p \in Positions /\ chain'[p] = chain[p]
      BY <1>2, <2>2, <3>1 DEF Grows
    <3> QED BY <2>2, <3>2 DEF BootInv, WalletInv, NoSkippedEvents, Positions
  <2>3. NoSkippedEvents'
    BY <1>3, <2>2 DEF BootInv, WalletInv, NoSkippedEvents, Positions
  <2>4. SplitsOrNone(meta.cursor)' /\ stored \subseteq Positions'
    BY <1>1, <1>2, <1>3 DEF BootInv, WalletInv, SplitsOrNone, Splits
  <2> QED BY <1>3, <2>1, <2>3, <2>4 DEF BootInv, WalletInv, Cursors
<1>9. ASSUME crashes = 0 PROVE UncrashedInv'
  <2>1. ASSUME NEW p \in Positions', chain'[p] <= kv.fully PROVE Archived(p)
    <3>1. kv.fully \in 0..tip /\ chain'[p] \in Nat
      BY GrownLedgers DEF BootInv, KvInv
    <3>2. p \in Positions /\ chain'[p] = chain[p]
      BY <1>2, <2>1, <3>1 DEF Grows
    <3> QED BY <1>9, <2>1, <3>2 DEF BootInv, UncrashedInv
  <2> QED BY <1>3, <1>9, <2>1 DEF BootInv, UncrashedInv, Archived, KeyPos
<1> QED BY <1>3, <1>4, <1>5, <1>7, <1>8, <1>9 DEF BootInv

-----------------------------------------------------------------------------
(* What a step leaves alone.                                               *)

LEMMA ChainFrame ==
  ASSUME ChainInv, UNCHANGED chainVars
  PROVE  ChainInv'
BY DEF ChainInv, Positions, chainVars

LEMMA PagesFrame ==
  ASSUME PagesInv, UNCHANGED <<chainVars, pages>>
  PROVE  PagesInv'
BY DEF PagesInv, Positions, Keys, Splits, SplitsAt, After, KeyPos, chainVars

LEMMA KvFrame ==
  ASSUME KvInv, UNCHANGED <<chainVars, kv, ledgerTip>>
  PROVE  KvInv'
BY DEF KvInv, SplitsOrNone, Splits, SplitsAt, Cursors, chainVars

LEMMA RoundFrame ==
  ASSUME RoundInv, UNCHANGED <<chainVars, bn>>
  PROVE  RoundInv'
BY DEF RoundInv, SplitsOrNone, Splits, SplitsAt, EndsLedger, After, Positions, Cursors,
       GetEventsResponse, Archiving, CatchingUp, chainVars

LEMMA WalletFrame ==
  ASSUME WalletInv, UNCHANGED <<chainVars, walletVars>>
  PROVE  WalletInv'
BY DEF WalletInv, SplitsOrNone, Splits, SplitsAt, NoSkippedEvents, Positions, Cursors,
       chainVars, walletVars

LEMMA UncrashedFrame ==
  ASSUME UncrashedInv, UNCHANGED <<chainVars, bootVars>>
  PROVE  UncrashedInv'
BY DEF UncrashedInv, Archived, KeyPos, Positions, Archiving, chainVars, bootVars

\* A cursor of the chain has a type that no state changes.
LEMMA CursorTyped ==
  ASSUME ChainInv, NEW c, SplitsOrNone(c)
  PROVE  c \in Cursors /\ c.pos \in Int
<1>1. CASE c = NoCursor
  BY <1>1, LimitsArePositive DEF NoCursor, Cursors
<1>2. CASE Splits(c)
  <2>1. \A x \in 1..tip : x \in 0..MaxLedger
    BY LimitsArePositive DEF ChainInv
  <2>2. \A x \in 0..Len(chain) : x \in -1..MaxEvents
    BY LimitsArePositive DEF ChainInv
  <2>3. c \in [ledger : 1..tip, pos : 0..Len(chain)]
    BY <1>2 DEF Splits, SplitsAt
  <2> QED BY <2>1, <2>2, <2>3 DEF Cursors
<1> QED BY <1>1, <1>2 DEF SplitsOrNone

-----------------------------------------------------------------------------
(* The bootnode.                                                           *)

LEMMA BeginRoundInv ==
  ASSUME BootInv, BeginRound
  PROVE  BootInv'
<1>1. ChainInv' /\ PagesInv' /\ WalletInv'
  BY ChainFrame, PagesFrame, WalletFrame DEF BootInv, BeginRound
<1>2. /\ kv' = [kv EXCEPT !.tip = tip] /\ ledgerTip' = tip /\ chain' = chain /\ tip' = tip
      /\ bn' = [pc |-> "fetch", cursor |-> kv.cursor, left |-> MaxPages, resp |-> NoPage]
      /\ bn.pc = "sleep" /\ pages' = pages /\ crashes' = crashes
  BY DEF BeginRound, chainVars
<1>3. KvInv'
  BY <1>2, ChainFacts DEF BootInv, KvInv, SplitsOrNone, Splits, SplitsAt, Cursors
<1>4. kv'.cursor = kv.cursor /\ kv'.fully = kv.fully
  BY <1>2 DEF BootInv, KvInv
<1>5. RoundInv'
  <2>1. NoPage \in GetEventsResponse
    BY LimitsArePositive DEF NoPage, NoCursor, GetEventsResponse, Cursors
  <2>2. bn' \in [pc : {"sleep", "fetch"} \cup Archiving \cup CatchingUp, cursor : Cursors,
                 left : 0 .. MaxPages, resp : GetEventsResponse]
    BY <1>2, <2>1, LimitsArePositive DEF BootInv, KvInv
  <2>3. SplitsOrNone(bn.cursor)'
    BY <1>2 DEF BootInv, KvInv, SplitsOrNone, Splits, SplitsAt
  <2>4. bn'.pc = "fetch" /\ bn'.left >= 1
    BY <1>2, LimitsArePositive
  <2> QED BY <2>2, <2>3, <2>4 DEF RoundInv, Archiving, CatchingUp, GetEventsResponse, Cursors
<1>6. ASSUME crashes = 0 PROVE UncrashedInv'
  BY <1>2, <1>4, <1>6 DEF BootInv, UncrashedInv, Archived, KeyPos, Positions, Archiving
<1> QED BY <1>1, <1>2, <1>3, <1>5, <1>6 DEF BootInv

LEMMA FetchUpstreamInv ==
  ASSUME BootInv, FetchUpstream
  PROVE  BootInv'
<1>1. ChainInv' /\ PagesInv' /\ WalletInv' /\ KvInv'
  BY ChainFrame, PagesFrame, WalletFrame, KvFrame DEF BootInv, FetchUpstream
<1>2. /\ kv' = kv /\ chain' = chain /\ tip' = tip /\ pages' = pages /\ crashes' = crashes
      /\ bn.pc = "fetch" /\ bn.left >= 1
  BY DEF FetchUpstream, chainVars, BootInv, RoundInv
<1>3. CASE bn' = [bn EXCEPT !.pc = "sleep"]
  <2>1. RoundInv'
    BY <1>2, <1>3 DEF BootInv, RoundInv, SplitsOrNone, Splits, SplitsAt, Archiving,
                      CatchingUp, GetEventsResponse, Cursors
  <2>2. ASSUME crashes = 0 PROVE UncrashedInv'
    BY <1>2, <1>3, <2>2 DEF BootInv, RoundInv, UncrashedInv, Archived, KeyPos, Positions, Archiving
  <2> QED BY <1>1, <1>2, <2>1, <2>2 DEF BootInv
<1>4. CASE bn' # [bn EXCEPT !.pc = "sleep"]
  <2> DEFINE page == NodePage(bn.cursor, Deployment)
             next == IF page.events = {} THEN "caught_up" ELSE "unsync"
  <2>1. bn' = [bn EXCEPT !.pc = next, !.resp = page]
    BY <1>4 DEF FetchUpstream
  <2>2. Continues(page, bn.cursor, Deployment)
    <3>1. ChainInv /\ SplitsOrNone(bn.cursor) /\ Deployment \in Nat
      BY DEF BootInv, RoundInv, Deployment
    <3> QED BY <3>1, NodePageContinues
  <2> HIDE DEF page
  <2>3. page.events = After(bn.cursor.pos, page.cursor)
    <3>1. ASSUME NEW p \in 1..page.cursor.pos
          PROVE  Wanted(bn.cursor, Deployment, p) <=> p > bn.cursor.pos
      <4>1. p \in Positions
        BY <2>2, ChainFacts DEF Continues, BootInv, Positions
      <4>2. chain[p] >= 1 /\ p > -1
        BY <4>1, ChainFacts DEF BootInv
      <4>3. CASE bn.cursor = NoCursor
        BY <4>2, <4>3 DEF Wanted, Deployment, NoCursor
      <4>4. CASE bn.cursor # NoCursor
        BY <4>4 DEF Wanted
      <4> QED BY <4>3, <4>4
    <3> QED BY <2>2, <3>1 DEF Continues, After
  <2>4. page \in GetEventsResponse
    <3>1. page.cursor \in Cursors
      BY <2>2, CursorTyped DEF BootInv, Continues, SplitsOrNone
    <3>2. page.events \subseteq Positions /\ page = [events |-> page.events, cursor |-> page.cursor]
      BY <2>2 DEF Continues
    <3>3. page.events \subseteq 1..MaxEvents
      BY <3>2, LimitsArePositive DEF BootInv, ChainInv, Positions
    <3> QED BY <3>1, <3>2, <3>3 DEF GetEventsResponse
  <2>5. /\ bn'.pc = next /\ bn'.resp = page /\ bn'.cursor = bn.cursor /\ bn'.left = bn.left
        /\ bn' \in [pc : {"sleep", "fetch"} \cup Archiving \cup CatchingUp, cursor : Cursors,
                    left : 0 .. MaxPages, resp : GetEventsResponse]
    <3>1. next \in {"sleep", "fetch"} \cup Archiving \cup CatchingUp
      BY DEF Archiving, CatchingUp
    <3> HIDE DEF next
    <3> QED BY <2>1, <2>4, <3>1 DEF BootInv, RoundInv
  <2>6. next \in Archiving => next = "unsync"
    BY DEF Archiving
  <2>7. next \in CatchingUp => next = "caught_up"
    BY DEF CatchingUp
  <2>8. RoundInv'
    <3>1. SplitsOrNone(bn.cursor)'
      BY <1>2, <2>5 DEF BootInv, RoundInv, SplitsOrNone, Splits, SplitsAt
    <3>2. /\ Splits(bn.resp.cursor)'
          /\ bn'.resp.cursor.pos >= bn'.cursor.pos
          /\ bn'.resp.events = After(bn'.cursor.pos, bn'.resp.cursor)
      <4>1. bn.cursor.pos \in Int /\ page.cursor.pos \in Int
        BY <2>2, CursorTyped DEF BootInv, RoundInv, Continues, SplitsOrNone
      <4> QED BY <1>2, <2>2, <2>3, <2>5, <4>1 DEF Continues, Splits, SplitsAt
    <3>3. next \in Archiving => bn'.resp.events # {}
      BY <2>5, <2>6
    <3>4. next \in CatchingUp => bn'.resp.events = {} /\ EndsLedger(bn.resp.cursor)'
      BY <1>2, <2>2, <2>5, <2>7 DEF Continues, EndsLedger, Positions
    <3> QED BY <1>2, <2>5, <3>1, <3>2, <3>3, <3>4
            DEF RoundInv, After, GetEventsResponse, Cursors, Archiving, CatchingUp
  <2>9. ASSUME crashes = 0 PROVE UncrashedInv'
    <3>1. next # "cursor" /\ next # "fully" /\ next # "sync"
      OBVIOUS
    <3> HIDE DEF next
    <3> QED BY <1>2, <2>5, <2>9, <3>1
            DEF BootInv, UncrashedInv, Archived, KeyPos, Positions, Archiving
  <2> QED BY <1>1, <1>2, <2>8, <2>9 DEF BootInv
<1> QED BY <1>3, <1>4

LEMMA ClearInSyncInv ==
  ASSUME BootInv, ClearInSync
  PROVE  BootInv'
<1>1. ChainInv' /\ PagesInv' /\ WalletInv'
  BY ChainFrame, PagesFrame, WalletFrame DEF BootInv, ClearInSync
<1>2. /\ kv' = [kv EXCEPT !.inSync = FALSE] /\ ledgerTip' = ledgerTip
      /\ chain' = chain /\ tip' = tip /\ pages' = pages /\ crashes' = crashes
      /\ bn.pc = "unsync" /\ bn' = [bn EXCEPT !.pc = "insert"]
  BY DEF ClearInSync, chainVars
<1>3. KvInv'
  BY <1>2 DEF BootInv, KvInv, SplitsOrNone, Splits, SplitsAt, Cursors
<1>4. kv'.cursor = kv.cursor /\ kv'.fully = kv.fully
  BY <1>2 DEF BootInv, KvInv
<1>5. bn'.pc = "insert" /\ bn'.cursor = bn.cursor /\ bn'.resp = bn.resp /\ bn'.left = bn.left
  BY <1>2 DEF BootInv, RoundInv
<1>6. RoundInv'
  <2>1. bn' \in [pc : {"sleep", "fetch"} \cup Archiving \cup CatchingUp, cursor : Cursors,
                 left : 0 .. MaxPages, resp : GetEventsResponse]
    BY <1>2 DEF BootInv, RoundInv, Archiving
  <2> QED BY <1>2, <1>5, <2>1 DEF BootInv, RoundInv, SplitsOrNone, Splits, SplitsAt, After,
            Archiving, CatchingUp, GetEventsResponse, Cursors
<1>7. ASSUME crashes = 0 PROVE UncrashedInv'
  BY <1>2, <1>4, <1>5, <1>7 DEF BootInv, UncrashedInv, Archived, KeyPos, Positions, Archiving
<1> QED BY <1>1, <1>2, <1>3, <1>6, <1>7 DEF BootInv

\* The key of a cursor, and the position it stands for.
LEMMA KeyOfCursor ==
  ASSUME ChainInv, NEW c, SplitsOrNone(c)
  PROVE  KeyOf(c) \in Keys /\ KeyPos(KeyOf(c)) = c.pos
<1>1. CASE c = NoCursor
  BY <1>1 DEF KeyOf, Keys, KeyPos, NoCursor, StartKey
<1>2. CASE c # NoCursor
  <2>1. KeyOf(c) = CursorKey(c) /\ c \in [ledger : 1 .. tip, pos : 0 .. Len(chain)]
    BY <1>2 DEF KeyOf, SplitsOrNone, Splits, SplitsAt
  <2>2. CursorKey(c)[1] = "cursor" /\ CursorKey(c)[2] = c
    BY DEF CursorKey
  <2> QED BY <2>1, <2>2 DEF Keys, KeyPos
<1> QED BY <1>1, <1>2

LEMMA InsertGetEventsPageInv ==
  ASSUME BootInv, InsertGetEventsPage
  PROVE  BootInv'
<1> DEFINE k0 == KeyOf(bn.cursor)
<1>1. ChainInv' /\ KvInv' /\ WalletInv'
  BY ChainFrame, KvFrame, WalletFrame DEF BootInv, InsertGetEventsPage
<1>2. /\ kv' = kv /\ chain' = chain /\ tip' = tip /\ crashes' = crashes
      /\ bn.pc = "insert" /\ bn' = [bn EXCEPT !.pc = "cursor"]
      /\ pages' = [x \in DOMAIN pages \cup {k0} |-> IF x \in DOMAIN pages THEN pages[x] ELSE bn.resp]
  BY DEF InsertGetEventsPage, Inserted, chainVars
<1>3. bn'.pc = "cursor" /\ bn'.cursor = bn.cursor /\ bn'.resp = bn.resp /\ bn'.left = bn.left
  BY <1>2 DEF BootInv, RoundInv
<1>4. RoundInv'
  <2>1. bn' \in [pc : {"sleep", "fetch"} \cup Archiving \cup CatchingUp, cursor : Cursors,
                 left : 0 .. MaxPages, resp : GetEventsResponse]
    BY <1>2 DEF BootInv, RoundInv, Archiving
  <2> QED BY <1>2, <1>3, <2>1 DEF BootInv, RoundInv, SplitsOrNone, Splits, SplitsAt, After,
            Archiving, CatchingUp, GetEventsResponse, Cursors
<1>5. k0 \in Keys /\ KeyPos(k0) = bn.cursor.pos
  BY KeyOfCursor DEF BootInv, RoundInv
<1> HIDE DEF k0
<1>6. /\ DOMAIN pages' = DOMAIN pages \cup {k0}
      /\ \A x \in DOMAIN pages : pages'[x] = pages[x]
      /\ k0 \notin DOMAIN pages => pages'[k0] = bn.resp
  BY <1>2
<1>7. /\ Splits(bn.resp.cursor) /\ bn.resp.events # {}
      /\ bn.resp.events = After(bn.cursor.pos, bn.resp.cursor)
      /\ bn.resp = [events |-> bn.resp.events, cursor |-> bn.resp.cursor]
  BY <1>2 DEF BootInv, RoundInv, Archiving, GetEventsResponse
<1>8. PagesInv'
  <2>1. ASSUME NEW k \in DOMAIN pages'
        PROVE  /\ pages'[k] \in [events : SUBSET Positions, cursor : [ledger : 1 .. tip, pos : 0 .. Len(chain)]]
               /\ Splits(pages'[k].cursor)
               /\ pages'[k].events = After(KeyPos(k), pages'[k].cursor)
               /\ pages'[k].events # {}
    <3>1. CASE k \in DOMAIN pages
      BY <1>6, <3>1 DEF BootInv, PagesInv
    <3>2. CASE k \notin DOMAIN pages
      <4>1. k = k0 /\ pages'[k] = bn.resp
        BY <1>6, <3>2
      <4>2. bn.resp.cursor \in [ledger : 1 .. tip, pos : 0 .. Len(chain)]
        BY <1>7 DEF Splits, SplitsAt
      <4>3. bn.resp.events \subseteq Positions
        BY <1>7, <4>2, ChainFacts DEF After, Positions, BootInv
      <4> QED BY <1>5, <1>7, <4>1, <4>2, <4>3
    <3> QED BY <3>1, <3>2
  <2>2. DOMAIN pages' \subseteq Keys
    BY <1>5, <1>6 DEF BootInv, PagesInv
  <2> QED BY <1>2, <2>1, <2>2 DEF PagesInv, Keys, Positions, Splits, SplitsAt, After, KeyPos
<1>9. ASSUME crashes = 0 PROVE UncrashedInv'
  <2>1. UncrashedInv /\ bn.cursor = kv.cursor /\ kv.cursor.pos \in Int
    BY <1>2, <1>9, CursorTyped DEF BootInv, UncrashedInv, Archiving, KvInv
  <2>2. k0 \notin DOMAIN pages
    <3>1. ~(KeyPos(k0) < kv.cursor.pos)
      BY <1>5, <2>1
    <3> QED BY <1>2, <2>1, <3>1 DEF UncrashedInv
  <2>3. ASSUME NEW p, Archived(p) PROVE Archived(p)'
    BY <1>6, <2>3 DEF Archived
  <2>4. ASSUME NEW p \in bn.resp.events PROVE Archived(p)'
    BY <1>6, <2>2 DEF Archived
  <2>5. ASSUME NEW k \in DOMAIN pages'
        PROVE  KeyPos(k) < kv.cursor.pos \/ KeyPos(k) = kv.cursor.pos
    BY <1>2, <1>5, <1>6, <2>1 DEF UncrashedInv
  <2> QED BY <1>2, <1>3, <2>1, <2>3, <2>4, <2>5 DEF UncrashedInv, Positions, Archiving, KeyPos
<1> QED BY <1>1, <1>2, <1>4, <1>8, <1>9 DEF BootInv

LEMMA UpdateCursorInv ==
  ASSUME BootInv, UpdateCursor
  PROVE  BootInv'
<1>1. ChainInv' /\ PagesInv' /\ WalletInv'
  BY ChainFrame, PagesFrame, WalletFrame DEF BootInv, UpdateCursor
<1> DEFINE next == IF bn.left > 1 THEN "fetch" ELSE "sleep"
<1>2. /\ kv' = [kv EXCEPT !.cursor = bn.resp.cursor] /\ ledgerTip' = ledgerTip
      /\ chain' = chain /\ tip' = tip /\ pages' = pages /\ crashes' = crashes
      /\ bn.pc = "cursor"
      /\ bn' = [bn EXCEPT !.pc = next, !.cursor = bn.resp.cursor, !.left = @ - 1, !.resp = NoPage]
  BY DEF UpdateCursor, chainVars
<1>3. Splits(bn.resp.cursor) /\ bn.resp.cursor \in Cursors
  BY <1>2 DEF BootInv, RoundInv, Archiving, GetEventsResponse
<1>4. kv'.cursor = bn.resp.cursor /\ kv'.fully = kv.fully
  BY <1>2 DEF BootInv, KvInv
<1>5. KvInv'
  <2>1. kv' \in [cursor : Cursors, fully : 0 .. tip, tip : 0 .. tip, inSync : BOOLEAN]
    BY <1>2, <1>3 DEF BootInv, KvInv
  <2> QED BY <1>2, <1>3, <1>4, <2>1 DEF BootInv, KvInv, SplitsOrNone, Splits, SplitsAt, Cursors
<1>6. bn'.pc = next /\ bn'.cursor = bn.resp.cursor /\ bn'.left = bn.left - 1 /\ bn'.resp = NoPage
  BY <1>2 DEF BootInv, RoundInv
<1>7. bn.left \in 1..MaxPages
  BY <1>2, LimitsArePositive DEF BootInv, RoundInv, Archiving
<1>8. RoundInv'
  <2>1. NoPage \in GetEventsResponse
    BY LimitsArePositive DEF NoPage, NoCursor, GetEventsResponse, Cursors
  <2>2. next \in {"sleep", "fetch"} /\ (next = "fetch" => bn.left - 1 >= 1)
        /\ bn.left - 1 \in 0..MaxPages
    BY <1>7, LimitsArePositive
  <2>3. next \notin Archiving /\ next \notin CatchingUp
    BY <2>2 DEF Archiving, CatchingUp
  <2> HIDE DEF next
  <2>4. bn' \in [pc : {"sleep", "fetch"} \cup Archiving \cup CatchingUp, cursor : Cursors,
                 left : 0 .. MaxPages, resp : GetEventsResponse]
    BY <1>2, <1>3, <2>1, <2>2 DEF BootInv, RoundInv
  <2>5. SplitsOrNone(bn.cursor)'
    BY <1>2, <1>3, <1>6 DEF SplitsOrNone, Splits, SplitsAt
  <2> QED BY <1>6, <2>2, <2>3, <2>4, <2>5 DEF RoundInv, GetEventsResponse, Cursors, Archiving, CatchingUp
<1>9. ASSUME crashes = 0 PROVE UncrashedInv'
  <2>1. UncrashedInv /\ bn.cursor = kv.cursor /\ kv.cursor.pos \in Int
    BY <1>2, <1>9, CursorTyped DEF BootInv, UncrashedInv, Archiving, KvInv
  <2>2. bn.resp.cursor.pos \in Nat /\ bn.resp.events # {}
        /\ bn.resp.events = {p \in 1..bn.resp.cursor.pos : p > bn.cursor.pos}
    BY <1>2, <1>3, ChainFacts DEF BootInv, RoundInv, Archiving, After, Splits, SplitsAt
  <2>3. kv.cursor.pos < bn.resp.cursor.pos
    BY <2>1, <2>2
  <2>4. ASSUME NEW p \in 1..bn.resp.cursor.pos PROVE Archived(p)
    <3>1. CASE p > kv.cursor.pos
      BY <1>2, <2>1, <2>2, <3>1 DEF UncrashedInv
    <3>2. CASE ~(p > kv.cursor.pos)
      <4>1. p \in 1..kv.cursor.pos
        BY <2>1, <2>2, <3>2
      <4> QED BY <2>1, <4>1 DEF UncrashedInv
    <3> QED BY <3>1, <3>2
  <2>5. ASSUME NEW k \in DOMAIN pages PROVE KeyPos(k) < bn.resp.cursor.pos
    <3>1. KeyPos(k) < kv.cursor.pos \/ KeyPos(k) = kv.cursor.pos
      BY <2>1 DEF UncrashedInv
    <3>2. KeyPos(k) \in Int
      BY ChainFacts DEF BootInv, PagesInv, Keys, KeyPos, StartKey, CursorKey
    <3> QED BY <2>1, <2>2, <2>3, <3>1, <3>2
  <2>6. next \in {"sleep", "fetch"}
    OBVIOUS
  <2> HIDE DEF next
  <2> QED BY <1>2, <1>4, <1>6, <2>1, <2>4, <2>5, <2>6
          DEF UncrashedInv, Archived, KeyPos, Positions, Archiving
<1> QED BY <1>1, <1>2, <1>5, <1>8, <1>9 DEF BootInv

LEMMA CaughtUpCursorInv ==
  ASSUME BootInv, CaughtUpCursor
  PROVE  BootInv'
<1>1. ChainInv' /\ PagesInv' /\ WalletInv'
  BY ChainFrame, PagesFrame, WalletFrame DEF BootInv, CaughtUpCursor
<1>2. /\ kv' = [kv EXCEPT !.cursor = bn.resp.cursor] /\ ledgerTip' = ledgerTip
      /\ chain' = chain /\ tip' = tip /\ pages' = pages /\ crashes' = crashes
      /\ bn.pc = "caught_up" /\ bn' = [bn EXCEPT !.pc = "fully"]
  BY DEF CaughtUpCursor, chainVars
<1>3. Splits(bn.resp.cursor) /\ bn.resp.cursor \in Cursors
  BY <1>2 DEF BootInv, RoundInv, CatchingUp, GetEventsResponse
<1>4. kv'.cursor = bn.resp.cursor /\ kv'.fully = kv.fully
  BY <1>2 DEF BootInv, KvInv
<1>5. KvInv'
  <2>1. kv' \in [cursor : Cursors, fully : 0 .. tip, tip : 0 .. tip, inSync : BOOLEAN]
    BY <1>2, <1>3 DEF BootInv, KvInv
  <2> QED BY <1>2, <1>3, <1>4, <2>1 DEF BootInv, KvInv, SplitsOrNone, Splits, SplitsAt, Cursors
<1>6. bn'.pc = "fully" /\ bn'.cursor = bn.cursor /\ bn'.left = bn.left /\ bn'.resp = bn.resp
  BY <1>2 DEF BootInv, RoundInv
<1>7. RoundInv'
  <2>1. bn' \in [pc : {"sleep", "fetch"} \cup Archiving \cup CatchingUp, cursor : Cursors,
                 left : 0 .. MaxPages, resp : GetEventsResponse]
    BY <1>2 DEF BootInv, RoundInv, CatchingUp
  <2> QED BY <1>2, <1>6, <2>1 DEF BootInv, RoundInv, SplitsOrNone, Splits, SplitsAt, After,
            EndsLedger, Positions, Archiving, CatchingUp, GetEventsResponse, Cursors
<1>8. ASSUME crashes = 0 PROVE UncrashedInv'
  <2>1. UncrashedInv /\ bn.cursor = kv.cursor /\ kv.cursor.pos \in Int
    BY <1>2, <1>8, CursorTyped DEF BootInv, UncrashedInv, KvInv
  <2>2. /\ bn.resp.cursor.pos \in Nat /\ bn.resp.cursor.pos >= kv.cursor.pos
        /\ {p \in 1..bn.resp.cursor.pos : p > kv.cursor.pos} = {}
    BY <1>2, <1>3, <2>1, ChainFacts DEF BootInv, RoundInv, CatchingUp, After, Splits, SplitsAt
  <2>3. ASSUME NEW p \in 1..bn.resp.cursor.pos PROVE Archived(p)
    <3>1. p \in 1..kv.cursor.pos
      BY <2>1, <2>2
    <3> QED BY <2>1, <3>1 DEF UncrashedInv
  <2>4. ASSUME NEW k \in DOMAIN pages PROVE KeyPos(k) < bn.resp.cursor.pos
    <3>1. KeyPos(k) < kv.cursor.pos
      BY <1>2, <2>1 DEF UncrashedInv
    <3>2. KeyPos(k) \in Int
      BY ChainFacts DEF BootInv, PagesInv, Keys, KeyPos, StartKey, CursorKey
    <3> QED BY <2>1, <2>2, <3>1, <3>2
  <2> QED BY <1>2, <1>4, <1>6, <2>1, <2>3, <2>4
          DEF UncrashedInv, Archived, KeyPos, Positions, Archiving
<1> QED BY <1>1, <1>2, <1>5, <1>7, <1>8 DEF BootInv

LEMMA CaughtUpLedgerInv ==
  ASSUME BootInv, CaughtUpLedger
  PROVE  BootInv'
<1>1. ChainInv' /\ PagesInv' /\ WalletInv'
  BY ChainFrame, PagesFrame, WalletFrame DEF BootInv, CaughtUpLedger
<1>2. /\ kv' = [kv EXCEPT !.fully = bn.resp.cursor.ledger] /\ ledgerTip' = ledgerTip
      /\ chain' = chain /\ tip' = tip /\ pages' = pages /\ crashes' = crashes
      /\ bn.pc = "fully" /\ bn' = [bn EXCEPT !.pc = "sync"]
  BY DEF CaughtUpLedger, chainVars
<1>3. bn.resp.cursor.ledger \in 0..tip /\ EndsLedger(bn.resp.cursor)
  BY <1>2, ChainFacts DEF BootInv, RoundInv, CatchingUp, Splits, SplitsAt
<1>4. kv'.cursor = kv.cursor /\ kv'.fully = bn.resp.cursor.ledger
  BY <1>2 DEF BootInv, KvInv
<1>5. KvInv'
  BY <1>2, <1>3 DEF BootInv, KvInv, SplitsOrNone, Splits, SplitsAt, Cursors
<1>6. bn'.pc = "sync" /\ bn'.cursor = bn.cursor /\ bn'.left = bn.left /\ bn'.resp = bn.resp
  BY <1>2 DEF BootInv, RoundInv
<1>7. RoundInv'
  <2>1. bn' \in [pc : {"sleep", "fetch"} \cup Archiving \cup CatchingUp, cursor : Cursors,
                 left : 0 .. MaxPages, resp : GetEventsResponse]
    BY <1>2 DEF BootInv, RoundInv, CatchingUp
  <2> QED BY <1>2, <1>6, <2>1 DEF BootInv, RoundInv, SplitsOrNone, Splits, SplitsAt, After,
            EndsLedger, Positions, Archiving, CatchingUp, GetEventsResponse, Cursors
<1>8. ASSUME crashes = 0 PROVE UncrashedInv'
  <2>1. UncrashedInv /\ bn.resp.cursor = kv.cursor
    BY <1>2, <1>8 DEF BootInv, UncrashedInv
  <2>2. ASSUME NEW p \in Positions, chain[p] <= bn.resp.cursor.ledger PROVE Archived(p)
    <3>1. p <= kv.cursor.pos /\ p \in Nat /\ p >= 1 /\ kv.cursor.pos \in Int
      BY <1>3, <2>1, <2>2, ChainFacts, CursorTyped DEF EndsLedger, BootInv, KvInv
    <3>2. p \in 1..kv.cursor.pos
      BY <3>1
    <3> QED BY <2>1, <3>2 DEF UncrashedInv
  <2> QED BY <1>2, <1>4, <1>6, <2>1, <2>2
          DEF UncrashedInv, Archived, KeyPos, Positions, Archiving
<1> QED BY <1>1, <1>2, <1>5, <1>7, <1>8 DEF BootInv

LEMMA NoPageTyped == NoPage \in GetEventsResponse /\ NoCursor \in Cursors
BY LimitsArePositive DEF NoPage, NoCursor, GetEventsResponse, Cursors

LEMMA CaughtUpInSyncInv ==
  ASSUME BootInv, CaughtUpInSync
  PROVE  BootInv'
<1>1. ChainInv' /\ PagesInv' /\ WalletInv'
  BY ChainFrame, PagesFrame, WalletFrame DEF BootInv, CaughtUpInSync
<1>2. /\ kv' = [kv EXCEPT !.inSync = TRUE] /\ ledgerTip' = ledgerTip
      /\ chain' = chain /\ tip' = tip /\ pages' = pages /\ crashes' = crashes
      /\ bn.pc = "sync" /\ bn' = [bn EXCEPT !.pc = "sleep", !.resp = NoPage]
  BY DEF CaughtUpInSync, chainVars
<1>3. KvInv'
  BY <1>2 DEF BootInv, KvInv, SplitsOrNone, Splits, SplitsAt, Cursors
<1>4. kv'.cursor = kv.cursor /\ kv'.fully = kv.fully
  BY <1>2 DEF BootInv, KvInv
<1>5. bn'.pc = "sleep" /\ bn'.cursor = bn.cursor /\ bn'.left = bn.left /\ bn'.resp = NoPage
  BY <1>2 DEF BootInv, RoundInv
<1>6. RoundInv'
  <2>1. bn' \in [pc : {"sleep", "fetch"} \cup Archiving \cup CatchingUp, cursor : Cursors,
                 left : 0 .. MaxPages, resp : GetEventsResponse]
    BY <1>2, NoPageTyped DEF BootInv, RoundInv
  <2> QED BY <1>2, <1>5, <2>1 DEF BootInv, RoundInv, SplitsOrNone, Splits, SplitsAt,
            Archiving, CatchingUp, GetEventsResponse, Cursors
<1>7. ASSUME crashes = 0 PROVE UncrashedInv'
  BY <1>2, <1>4, <1>5, <1>7 DEF BootInv, UncrashedInv, Archived, KeyPos, Positions, Archiving
<1> QED BY <1>1, <1>2, <1>3, <1>6, <1>7 DEF BootInv

LEMMA CrashBootnodeInv ==
  ASSUME BootInv, CrashBootnode
  PROVE  BootInv'
<1>1. ChainInv' /\ PagesInv' /\ WalletInv'
  BY ChainFrame, PagesFrame, WalletFrame DEF BootInv, CrashBootnode
<1>2. /\ kv' = kv /\ ledgerTip' = kv.tip /\ chain' = chain /\ tip' = tip
      /\ crashes' = crashes + 1
      /\ bn' = [pc |-> "sleep", cursor |-> NoCursor, left |-> 0, resp |-> NoPage]
  BY DEF CrashBootnode, chainVars
<1>3. KvInv'
  BY <1>2 DEF BootInv, KvInv, SplitsOrNone, Splits, SplitsAt, Cursors
<1>4. RoundInv'
  <2>1. bn' \in [pc : {"sleep", "fetch"} \cup Archiving \cup CatchingUp, cursor : Cursors,
                 left : 0 .. MaxPages, resp : GetEventsResponse]
    BY <1>2, NoPageTyped, LimitsArePositive
  <2> QED BY <1>2, <2>1 DEF RoundInv, SplitsOrNone, Archiving, CatchingUp, GetEventsResponse, Cursors
<1>5. crashes' \in Nat /\ crashes' # 0
  BY <1>2 DEF BootInv
<1> QED BY <1>1, <1>3, <1>4, <1>5 DEF BootInv

-----------------------------------------------------------------------------
(* The listener.                                                           *)

LEMMA ClientStartType ==
  ASSUME BootInv
  PROVE  ClientStart \in 1..tip /\ \A p \in Positions : chain[p] < ClientStart => p \in stored
<1>1. meta.indexed \in 0..tip /\ tip \in Nat /\ tip >= 1
  BY ChainFacts DEF BootInv, WalletInv
<1>2. CASE meta.indexed = 0
  BY <1>1, <1>2, ChainFacts DEF ClientStart, Deployment, BootInv
<1>3. CASE meta.indexed # 0
  BY <1>1, <1>3 DEF ClientStart, BootInv, WalletInv, NoSkippedEvents, Positions
<1> QED BY <1>2, <1>3

\* A page that continues what the wallet has is added to it without a gap.
LEMMA SavedInv ==
  ASSUME BootInv, NEW page, NEW latest \in 0..tip,
         Continues(page, meta.cursor, ClientStart), Saved(page, latest), UNCHANGED chainVars
  PROVE  /\ meta' \in [cursor : Cursors, indexed : 0 .. tip']
         /\ SplitsOrNone(meta.cursor)'
         /\ stored' \subseteq Positions'
         /\ NoSkippedEvents'
<1> DEFINE top == IF page.events = {} THEN latest ELSE MaxOf({chain[p] : p \in page.events})
           x == page.cursor.pos
<1>1. /\ stored' = stored \cup page.events
      /\ meta' = [cursor |-> page.cursor, indexed |-> top]
      /\ chain' = chain /\ tip' = tip /\ Positions' = Positions
  BY DEF Saved, chainVars, Positions
<1>2. Splits(page.cursor) /\ page.events \subseteq Positions /\ page.cursor \in Cursors
      /\ x \in 0..Len(chain)
  BY CursorTyped DEF Continues, SplitsOrNone, BootInv, Splits, SplitsAt
<1>3. ASSUME NEW p \in 1..x PROVE p \in stored'
  <2>1. p \in Positions /\ p \in Nat
    BY <1>2, ChainFacts DEF Positions, BootInv
  <2>2. CASE Wanted(meta.cursor, ClientStart, p)
    BY <1>1, <2>2 DEF Continues
  <2>3. CASE ~Wanted(meta.cursor, ClientStart, p)
    <3>1. CASE meta.cursor = NoCursor
      <4>1. chain[p] < ClientStart
        BY <2>1, <2>3, <3>1, ChainFacts, ClientStartType DEF Wanted, BootInv
      <4> QED BY <1>1, <2>1, <4>1, ClientStartType
    <3>2. CASE meta.cursor # NoCursor
      <4>1. meta.cursor.pos \in Int
        BY CursorTyped DEF BootInv, WalletInv
      <4>2. p \in 1..meta.cursor.pos
        BY <2>1, <2>3, <3>2, <4>1 DEF Wanted
      <4> QED BY <1>1, <4>2 DEF BootInv, WalletInv, NoSkippedEvents
    <3> QED BY <3>1, <3>2
  <2> QED BY <2>2, <2>3
<1>4. top \in 0..tip /\ \A p \in Positions : chain[p] < top => p <= x
  <2>1. CASE page.events = {}
    <3>1. \A p \in Positions : chain[p] <= tip => p <= x
      BY <2>1 DEF Continues, EndsLedger
    <3> QED BY <2>1, <3>1, ChainFacts DEF BootInv
  <2>2. CASE page.events # {}
    <3> DEFINE L == {chain[p] : p \in page.events}
    <3>1. x \in page.events /\ x \in Positions /\ \A p \in page.events : p <= x
      BY <1>2, <2>2 DEF Continues
    <3>2. \A p \in page.events : chain[p] <= chain[x] /\ chain[p] \in Nat
      BY <1>2, <3>1, ChainFacts DEF BootInv
    <3>3. chain[x] \in L /\ L \subseteq 0..chain[x] /\ chain[x] \in Nat
      BY <3>1, <3>2
    <3> HIDE DEF L
    <3>4. MaxOf(L) \in L /\ \A y \in L : y <= MaxOf(L)
      <4>1. L # {}
        BY <3>3
      <4> QED BY <3>3, <4>1, Greatest
    <3>5. MaxOf(L) = chain[x]
      <4>1. MaxOf(L) \in Nat /\ MaxOf(L) <= chain[x]
        BY <3>3, <3>4
      <4>2. chain[x] <= MaxOf(L)
        BY <3>3, <3>4
      <4> QED BY <3>3, <4>1, <4>2
    <3>6. top = chain[x]
      BY <2>2, <3>5 DEF L
    <3>7. chain[x] <= page.cursor.ledger /\ page.cursor.ledger \in 1..tip
      BY <1>2, <3>1, ChainFacts DEF Splits, SplitsAt, Positions, BootInv
    <3>8. chain[x] \in 0..tip
      BY <3>3, <3>7, ChainFacts DEF BootInv
    <3>9. ASSUME NEW p \in Positions, chain[p] < chain[x] PROVE p <= x
      <4>1. p \in Nat /\ x \in Nat /\ chain[p] \in Nat /\ (x <= p => chain[x] <= chain[p])
        BY <3>1, ChainFacts DEF BootInv
      <4> QED BY <3>3, <3>9, <4>1
    <3> QED BY <3>6, <3>8, <3>9
  <2> QED BY <2>1, <2>2
<1> HIDE DEF top
<1>5. meta'.cursor = page.cursor /\ meta'.indexed = top
  BY <1>1
<1>6. NoSkippedEvents'
  <2>1. ASSUME NEW p \in Positions, chain[p] < top PROVE p \in stored'
    <3>1. p <= x
      BY <1>4, <2>1
    <3>2. p \in 1..x
      BY <1>2, <3>1, ChainFacts DEF BootInv
    <3> QED BY <1>3, <3>2
  <2> QED BY <1>1, <1>3, <1>5, <2>1 DEF NoSkippedEvents, Positions
<1>7. SplitsOrNone(meta.cursor)'
  BY <1>1, <1>2, <1>5 DEF SplitsOrNone, Splits
<1>8. meta' \in [cursor : Cursors, indexed : 0 .. tip']
  BY <1>1, <1>2, <1>4
<1>9. stored' \subseteq Positions'
  BY <1>1, <1>2 DEF BootInv, WalletInv
<1> QED BY <1>6, <1>7, <1>8, <1>9

\* A cached page continues the request it answers.
LEMMA CachedPageContinues ==
  ASSUME BootInv, RequestKey(meta.cursor, ClientStart) \in DOMAIN pages
  PROVE  LET page == pages[RequestKey(meta.cursor, ClientStart)]
         IN  Continues(page, meta.cursor, ClientStart) /\ page.cursor.ledger \in 0..tip
<1> DEFINE c == meta.cursor
           k == RequestKey(c, ClientStart)
           page == pages[k]
           x == page.cursor.pos
<1>1. /\ page \in [events : SUBSET Positions, cursor : [ledger : 1 .. tip, pos : 0 .. Len(chain)]]
      /\ Splits(page.cursor) /\ page.events = After(KeyPos(k), page.cursor) /\ page.events # {}
      /\ k \in Keys
  BY DEF BootInv, PagesInv
<1>2. x \in 0..Len(chain) /\ page.cursor.ledger \in 1..tip /\ x \in Nat
  BY <1>1, ChainFacts DEF BootInv, Splits, SplitsAt
<1>3. c.pos \in Int /\ SplitsOrNone(c)
  BY CursorTyped DEF BootInv, WalletInv
<1>4. ASSUME c = NoCursor
      PROVE  KeyPos(k) = -1 /\ ClientStart = 1 /\ c.pos = -1
  <2>1. k = <<"start", ClientStart>> /\ c.pos = -1
    BY <1>4 DEF RequestKey, StartKey, NoCursor
  <2>2. ClientStart = 1
    BY <1>1, <2>1 DEF Keys, StartKey, CursorKey, Deployment
  <2> QED BY <2>1, <2>2 DEF KeyPos
<1>5. ASSUME c # NoCursor PROVE KeyPos(k) = c.pos
  BY <1>5 DEF RequestKey, CursorKey, KeyPos
<1>6. KeyPos(k) = c.pos
  BY <1>4, <1>5
<1>7. ASSUME NEW p \in 1..x
      PROVE  Wanted(c, ClientStart, p) <=> p > c.pos
  <2>1. p \in Positions /\ p \in Nat
    BY <1>2, ChainFacts DEF BootInv, Positions
  <2>2. CASE c = NoCursor
    <3>1. chain[p] >= 1 /\ p > -1
      BY <2>1, ChainFacts DEF BootInv
    <3> QED BY <1>4, <2>2, <3>1 DEF Wanted
  <2>3. CASE c # NoCursor
    BY <2>3 DEF Wanted
  <2> QED BY <2>2, <2>3
<1>8. page.events = {p \in 1..x : p > c.pos}
  BY <1>1, <1>6 DEF After
<1>9. page.events = {p \in 1..x : Wanted(c, ClientStart, p)}
  BY <1>7, <1>8
<1>10. x \in page.events /\ c.pos <= x
  <2>1. PICK p \in page.events : TRUE
    BY <1>1
  <2>2. p \in 1..x /\ p > c.pos
    BY <1>8, <2>1
  <2>3. x \in 1..x /\ x > c.pos
    BY <1>2, <1>3, <2>2
  <2> QED BY <1>2, <1>3, <1>8, <2>3
<1>11. Continues(page, c, ClientStart)
  <2> HIDE DEF page, c
  <2> QED BY <1>1, <1>9, <1>10 DEF Continues
<1>12. page.cursor.ledger \in 0..tip
  BY <1>2, ChainFacts DEF BootInv
<1> QED BY <1>11, <1>12

ListenerType ==
    [pc : {"closed", "init", "main", "stopped", "probe", "archive", "back"},
     url : BOOLEAN, asked : BOOLEAN, cause : {"none", "gap", "handoff", "miss", "failure"}]

\* A step of the listener leaves the rest of the state alone.
LEMMA ListenerFrame ==
  ASSUME BootInv, UNCHANGED <<chainVars, bootVars, crashes>>, WalletInv'
  PROVE  BootInv'
<1>1. ChainInv' /\ PagesInv' /\ KvInv' /\ RoundInv'
  BY ChainFrame, PagesFrame, KvFrame, RoundFrame DEF BootInv, bootVars
<1>2. crashes = 0 => UncrashedInv'
  BY UncrashedFrame DEF BootInv
<1> QED BY <1>1, <1>2 DEF BootInv

\* Nor does one that stores no event and at most forgets the cursor.
LEMMA ListenerMoves ==
  ASSUME BootInv, UNCHANGED <<chainVars, bootVars, stored, crashes>>,
         meta' = meta \/ meta' = ClearedCursors,
         lst' \in ListenerType, lst'.asked => lst'.pc \in {"probe", "archive"}
  PROVE  BootInv'
<1>1. /\ chain' = chain /\ tip' = tip /\ stored' = stored
  BY DEF chainVars
<1>2. meta'.indexed = meta.indexed /\ (meta'.cursor = meta.cursor \/ meta'.cursor = NoCursor)
      /\ meta' \in [cursor : Cursors, indexed : 0 .. tip]
  BY NoPageTyped DEF BootInv, WalletInv, ClearedCursors
<1>3. NoSkippedEvents'
  <2>1. 1..meta'.cursor.pos \subseteq stored
    BY <1>2 DEF BootInv, WalletInv, NoSkippedEvents, NoCursor
  <2> QED BY <1>1, <1>2, <2>1 DEF BootInv, WalletInv, NoSkippedEvents
<1>4. WalletInv'
  BY <1>1, <1>2, <1>3 DEF BootInv, WalletInv, ListenerType, SplitsOrNone, Splits, Positions, Cursors
<1> QED BY <1>4, ListenerFrame

LEMMA BootnodeCheckInv ==
  ASSUME BootInv, BootnodeCheck
  PROVE  BootInv'
<1>1. lst' \in ListenerType /\ ~lst'.asked
  <2>1. (~WalletServes) \in BOOLEAN
    BY Zenon
  <2> QED BY <2>1 DEF BootnodeCheck, ListenerType
<1> QED BY <1>1, ListenerMoves DEF BootnodeCheck

LEMMA InitWalletInv ==
  ASSUME BootInv, InitWallet
  PROVE  BootInv'
<1>1. lst \in ListenerType /\ ~lst.asked
  BY DEF BootInv, WalletInv, ListenerType, InitWallet
<1>2. lst' \in ListenerType /\ ~lst'.asked
  BY <1>1 DEF InitWallet, ListenerType
<1>3. meta' = meta \/ meta' = ClearedCursors
  BY DEF InitWallet
<1> QED BY <1>2, <1>3, ListenerMoves DEF InitWallet

LEMMA TakeErrorInv ==
  ASSUME BootInv, NEW answer, TakeError(answer), UNCHANGED <<chainVars, bootVars, crashes>>
  PROVE  BootInv'
<1>1. lst \in ListenerType
  BY DEF BootInv, WalletInv, ListenerType
<1>2. lst' \in ListenerType /\ ~lst'.asked
  BY <1>1 DEF TakeError, ListenerType
<1>3. (meta' = meta \/ meta' = ClearedCursors) /\ stored' = stored
  BY DEF TakeError
<1> QED BY <1>2, <1>3, ListenerMoves

LEMMA AskBootnodeInv ==
  ASSUME BootInv, AskBootnode
  PROVE  BootInv'
<1> DEFINE k == RequestKey(meta.cursor, ClientStart)
<1>1. lst \in ListenerType /\ lst.pc \in {"probe", "archive"}
  BY DEF BootInv, WalletInv, ListenerType, AskBootnode
<1>2. UNCHANGED <<chainVars, bootVars, crashes>>
  BY DEF AskBootnode
<1>3. CASE TakeError("handoff")
  BY <1>2, <1>3, TakeErrorInv
<1>4. CASE k \in DOMAIN pages /\ TakePage(pages[k])
  <2>1. lst' \in ListenerType /\ ~lst'.asked
    BY <1>1, <1>4 DEF TakePage, ListenerType
  <2>2. CASE lst.pc = "probe"
    BY <1>2, <1>4, <2>1, <2>2, ListenerMoves DEF TakePage
  <2>3. CASE lst.pc # "probe"
    <3>1. Saved(pages[k], pages[k].cursor.ledger)
      BY <1>4, <2>3 DEF TakePage
    <3>2. Continues(pages[k], meta.cursor, ClientStart) /\ pages[k].cursor.ledger \in 0..tip
      BY <1>4, CachedPageContinues
    <3> HIDE DEF k
    <3>3. /\ meta' \in [cursor : Cursors, indexed : 0 .. tip']
          /\ SplitsOrNone(meta.cursor)'
          /\ stored' \subseteq Positions'
          /\ NoSkippedEvents'
      BY <1>2, <3>1, <3>2, SavedInv
    <3>4. WalletInv'
      BY <2>1, <3>3 DEF WalletInv, ListenerType, Cursors
    <3> QED BY <1>2, <3>4, ListenerFrame
  <2> QED BY <2>2, <2>3
<1>5. CASE lst' = [lst EXCEPT !.asked = TRUE] /\ UNCHANGED <<meta, stored>>
  <2>1. lst' \in ListenerType /\ lst'.pc \in {"probe", "archive"}
    BY <1>1, <1>5 DEF ListenerType
  <2> QED BY <1>2, <1>5, <2>1, ListenerMoves
<1>6. \/ TakeError("handoff")
      \/ k \in DOMAIN pages /\ TakePage(pages[k])
      \/ lst' = [lst EXCEPT !.asked = TRUE] /\ UNCHANGED <<meta, stored>>
  BY DEF AskBootnode
<1> QED BY <1>3, <1>4, <1>5, <1>6

LEMMA FetchWalletInv ==
  ASSUME BootInv, FetchWallet
  PROVE  BootInv'
<1>1. UNCHANGED <<chainVars, bootVars, crashes>> /\ lst' = lst
      /\ Saved(NodePage(meta.cursor, ClientStart), tip)
  BY DEF FetchWallet
<1>2. ChainInv /\ SplitsOrNone(meta.cursor) /\ ClientStart \in Nat /\ tip \in 0..tip
  BY ClientStartType, ChainFacts DEF BootInv, WalletInv
<1>3. Continues(NodePage(meta.cursor, ClientStart), meta.cursor, ClientStart)
  BY <1>2, NodePageContinues
<1>4. /\ meta' \in [cursor : Cursors, indexed : 0 .. tip']
      /\ SplitsOrNone(meta.cursor)'
      /\ stored' \subseteq Positions'
      /\ NoSkippedEvents'
  BY <1>1, <1>2, <1>3, SavedInv
<1>5. WalletInv'
  BY <1>1, <1>4 DEF BootInv, WalletInv, Cursors
<1> QED BY <1>1, <1>5, ListenerFrame

LEMMA OtherListenerSteps ==
  ASSUME BootInv, BackToWallet \/ InitFails \/ Reload
  PROVE  BootInv'
<1>1. lst \in ListenerType /\ (lst.asked => lst.pc \in {"probe", "archive"})
  BY DEF BootInv, WalletInv, ListenerType
<1>2. CASE BackToWallet
  <2>1. lst' \in ListenerType /\ ~lst'.asked
    BY <1>1, <1>2 DEF BackToWallet, ListenerType
  <2> QED BY <1>2, <2>1, ListenerMoves DEF BackToWallet
<1>3. CASE InitFails
  <2>1. lst' \in ListenerType /\ ~lst'.asked
    BY <1>1, <1>3 DEF InitFails, ListenerType
  <2> QED BY <1>3, <2>1, ListenerMoves DEF InitFails
<1>4. CASE Reload
  <2>1. lst' \in ListenerType /\ ~lst'.asked
    BY <1>4 DEF Reload, ListenerType
  <2> QED BY <1>4, <2>1, ListenerMoves DEF Reload
<1> QED BY <1>2, <1>3, <1>4

-----------------------------------------------------------------------------
(* The invariant and what follows from it.                                 *)

LEMMA BootInit ==
  ASSUME Init
  PROVE  BootInv
<1>1. ChainInv
  BY LimitsArePositive DEF Init, ChainInv, Positions
<1>2. PagesInv
  BY DEF Init, PagesInv
<1>3. KvInv
  BY NoPageTyped DEF Init, KvInv, SplitsOrNone
<1>4. RoundInv
  BY NoPageTyped, LimitsArePositive DEF Init, RoundInv, SplitsOrNone, Archiving, CatchingUp
<1>5. WalletInv
  BY NoPageTyped DEF Init, WalletInv, SplitsOrNone, NoSkippedEvents, NoCursor
<1>6. UncrashedInv
  BY DEF Init, UncrashedInv, Positions, NoCursor, Archiving
<1>7. crashes = 0
  BY DEF Init
<1> QED BY <1>1, <1>2, <1>3, <1>4, <1>5, <1>6, <1>7 DEF BootInv

LEMMA BootStep ==
  ASSUME BootInv, [Next]_vars
  PROVE  BootInv'
<1>1. CASE Emit
  <2>1. ChainInv' /\ Grows
    BY <1>1, EmitGrows DEF BootInv
  <2> QED BY <1>1, <2>1, GrowsInv DEF Emit
<1>2. CASE CloseLedger
  <2>1. ChainInv' /\ Grows
    BY <1>2, CloseLedgerGrows DEF BootInv
  <2> QED BY <1>2, <2>1, GrowsInv DEF CloseLedger
<1>3. CASE BootnodeIndexer
  BY <1>3, BeginRoundInv, FetchUpstreamInv, ClearInSyncInv, InsertGetEventsPageInv,
     UpdateCursorInv, CaughtUpCursorInv, CaughtUpLedgerInv, CaughtUpInSyncInv
     DEF BootnodeIndexer
<1>4. CASE CrashBootnode
  BY <1>4, CrashBootnodeInv
<1>5. CASE BootnodeMisses
  BY <1>5, TakeErrorInv DEF BootnodeMisses
<1>6. CASE Listener
  BY <1>5, <1>6, BootnodeCheckInv, InitWalletInv, AskBootnodeInv, OtherListenerSteps,
     FetchWalletInv DEF Listener
<1>7. CASE InitFails \/ Reload
  BY <1>7, OtherListenerSteps
<1>8. CASE UNCHANGED vars
  <2>1. UNCHANGED <<chainVars, bootVars, crashes>> /\ UNCHANGED walletVars
    BY <1>8 DEF vars
  <2>2. WalletInv'
    BY <2>1, WalletFrame DEF BootInv
  <2> QED BY <2>1, <2>2, ListenerFrame
<1> QED BY <1>1, <1>2, <1>3, <1>4, <1>6, <1>7, <1>8 DEF Next

LEMMA BootAlways == Spec => []BootInv
<1>1. Init => BootInv
  BY BootInit
<1>2. BootInv /\ [Next]_vars => BootInv'
  BY BootStep
<1> QED BY <1>1, <1>2, PTL DEF Spec

\* The state is well typed, for every retention, page size and bound.
THEOREM BootnodeTypeCorrect == Spec => []TypeOK
<1>1. BootInv => TypeOK
  <2> SUFFICES ASSUME BootInv PROVE TypeOK
    OBVIOUS
  <2>1. \A x \in 0..tip : x \in 0..MaxLedger
    BY LimitsArePositive DEF BootInv, ChainInv
  <2>2. kv \in KvState /\ meta \in SyncMetadata
    BY <2>1 DEF BootInv, KvInv, WalletInv, KvState, SyncMetadata
  <2>3. ASSUME NEW k \in DOMAIN pages PROVE pages[k] \in GetEventsResponse /\ pages[k].events # {}
    <3>1. pages[k].cursor \in Cursors
      BY CursorTyped DEF BootInv, PagesInv, SplitsOrNone
    <3>2. pages[k] = [events |-> pages[k].events, cursor |-> pages[k].cursor]
          /\ pages[k].events \subseteq Positions
      BY DEF BootInv, PagesInv
    <3>3. Positions \subseteq 1..MaxEvents
      BY LimitsArePositive DEF BootInv, ChainInv, Positions
    <3> QED BY <3>1, <3>2, <3>3 DEF GetEventsResponse, BootInv, PagesInv
  <2> QED BY <2>2, <2>3 DEF TypeOK, BootInv, ChainInv, KvInv, RoundInv, WalletInv, Positions
<1> QED BY <1>1, BootAlways, PTL

\* The wallet passes over no event: whatever the two nodes keep and however
\* often the listener falls back to the bootnode, is handed off or reloaded,
\* fetch_contract_events has stored every event before the ledger and up to
\* the cursor at which it continues.
THEOREM WalletSkipsNothing == Spec => []NoSkippedEvents
<1>1. BootInv => NoSkippedEvents
  BY DEF BootInv, WalletInv
<1> QED BY <1>1, BootAlways, PTL

\* The bootnode's archive is what its upstream node had: a page of
\* get_events_pages is exactly what lies between its key and its cursor, and
\* until a crash nothing up to the ledger reported as fully indexed is missing.
THEOREM ArchiveIsSound == Spec => []ArchiveSound
<1>1. BootInv => ArchiveSound
  <2> SUFFICES ASSUME BootInv PROVE ArchiveSound
    OBVIOUS
  <2>1. ASSUME NEW k \in DOMAIN pages
        PROVE  pages[k].events = {p \in 1 .. pages[k].cursor.pos :
                   IF k[1] = "start" THEN chain[p] >= k[2] ELSE p > k[2].pos}
    <3>1. /\ pages[k].events = {p \in 1..pages[k].cursor.pos : p > KeyPos(k)}
          /\ k \in Keys /\ pages[k].cursor.pos \in 0..Len(chain)
      BY DEF BootInv, PagesInv, After, Splits, SplitsAt
    <3>2. CASE k[1] = "start"
      <4>1. k[2] = 1 /\ KeyPos(k) = -1
        BY <3>1, <3>2 DEF Keys, StartKey, CursorKey, Deployment, KeyPos
      <4>2. ASSUME NEW p \in 1..pages[k].cursor.pos PROVE p > -1 /\ chain[p] >= 1
        BY <3>1, ChainFacts DEF BootInv, Positions
      <4> QED BY <3>1, <3>2, <4>1, <4>2
    <3>3. CASE k[1] # "start"
      BY <3>1, <3>3 DEF KeyPos
    <3> QED BY <3>2, <3>3
  <2>2. ArchiveFaithful
    BY <2>1 DEF ArchiveFaithful
  <2>3. ArchiveComplete
    BY DEF BootInv, UncrashedInv, Archived, ArchiveComplete, Positions
  <2> QED BY <2>2, <2>3 DEF ArchiveSound
<1> QED BY <1>1, BootAlways, PTL
=============================================================================
