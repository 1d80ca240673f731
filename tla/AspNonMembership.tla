-------------------------- MODULE AspNonMembership --------------------------
(***************************************************************************)
(* The ASP non-membership contract (contracts/asp-non-membership): a       *)
(* sparse Merkle tree of blocked keys whose nodes are stored under their   *)
(* hash.  A hash is the term it is computed from, so Node(hash) determines *)
(* its own contents and the store is the set of terms present in it.       *)
(* A key is the sequence of its bits, lowest bit (level 0) first; 256 bits *)
(* in the code, Bits here.  A call that fails changes nothing.             *)
(***************************************************************************)
EXTENDS Naturals, Sequences, FiniteSets

CONSTANTS
  Bits, Keys, Values, Address,
  Entries    \* pairs of a key and a value the callers try to insert

ASSUME BitsAssumption == Bits \in Nat
ASSUME KeysAssumption == Keys \subseteq [1..Bits -> {0, 1}]
ASSUME EntriesAssumption == Entries \subseteq Keys \X Values

ZeroHash == <<"zero">>
HashLeaf(key, value) == <<"leaf", key, value>>
HashInternal(left, right) == <<"internal", left, right>>

IsLeaf(node) == node[1] = "leaf"
IsInternal(node) == node[1] = "internal"
LeafKey(node) == node[2]
LeafValue(node) == node[3]

Bit(key, level) == key[level + 1]

\* The node on the side of the bit and the one on the other side.
Join(bit, node, sibling) ==
  IF bit = 1 THEN HashInternal(sibling, node) ELSE HashInternal(node, sibling)
Child(node, bit) == node[2 + bit]
Other(node, bit) == node[3 - bit]

VARIABLES
  admin,     \* Admin
  root,      \* Root
  nodes,     \* the hashes h with an entry Node(h)
  contents   \* history: the blocked keys, with the values given to them

exclusionVars == <<admin, root, nodes, contents>>

-----------------------------------------------------------------------------
(* find_key_internal: descend from the root along the bits of the key.     *)

\* The nodes visited: level l+1 is the child of an internal node at level l.
Descent(key) ==
  LET at[l \in 0..Bits] ==
        IF l = 0 THEN root
        ELSE LET parent == at[l - 1]
             IN  IF IsInternal(parent) THEN Child(parent, Bit(key, l - 1)) ELSE ZeroHash
  IN  at

Depth(key) ==
  LET at == Descent(key)
  IN  CHOOSE d \in 0..Bits :
        /\ ~IsInternal(at[d])
        /\ \A l \in 0..(d - 1) : IsInternal(at[l])

\* store.get(Node(h)) succeeds for every non-zero node visited.
FindSucceeds(key) ==
  \A l \in 0..Depth(key) : Descent(key)[l] # ZeroHash => Descent(key)[l] \in nodes

FindResult(key) ==
  LET at == Descent(key)
      d == Depth(key)
      end == at[d]
  IN  [found |-> IsLeaf(end) /\ LeafKey(end) = key,
       siblings |-> [l \in 1..d |-> Other(at[l - 1], Bit(key, l - 1))],
       end |-> end,
       is_old0 |-> end = ZeroHash]

-----------------------------------------------------------------------------
(* insert_leaf                                                             *)

CommonPrefix(k1, k2) ==
  CHOOSE n \in 0..(Bits - 1) : /\ Bit(k1, n) # Bit(k2, n)
                               /\ \A l \in 0..(n - 1) : Bit(k1, l) = Bit(k2, l)

\* On a collision the path is extended with zeros over the common prefix and
\* the old leaf becomes the last sibling.
InsertSiblings(key, find) ==
  IF find.is_old0 THEN find.siblings
  ELSE LET n == Len(find.siblings)
           c == CommonPrefix(key, LeafKey(find.end))
       IN  find.siblings \o [i \in 1..(c - n) |-> ZeroHash] \o <<find.end>>

\* One iteration of the rebuilding loop, at level i.
InsertLevel(s, key, find, siblings, i) ==
  LET last == Len(siblings) - 1
      isLastAddedLeaf == ~find.is_old0 /\ i = last
      sibling == siblings[i + 1]
      mixed == s.mixed \/ (~isLastAddedLeaf /\ i < last /\ sibling # ZeroHash)
      oldSibling == IF i < Len(find.siblings) THEN find.siblings[i + 1] ELSE ZeroHash
      drop == mixed /\ ~isLastAddedLeaf
      rtOld == IF drop THEN Join(Bit(key, i), s.rtOld, oldSibling) ELSE s.rtOld
      rt == Join(Bit(key, i), s.rt, sibling)
  IN  [rt |-> rt, rtOld |-> rtOld, mixed |-> mixed,
       nodes |-> (IF drop THEN s.nodes \ {rtOld} ELSE s.nodes) \cup {rt}]

Inserted(key, value) ==
  LET find == FindResult(key)
      siblings == InsertSiblings(key, find)
      n == Len(siblings)
      leaf == HashLeaf(key, value)
      after[k \in 0..n] ==
        IF k = 0
        THEN [rt |-> leaf, rtOld |-> find.end, nodes |-> nodes \cup {leaf},
              mixed |-> find.is_old0 /\ find.siblings # <<>>]
        ELSE InsertLevel(after[k - 1], key, find, siblings, n - k)
  IN  after[n]

InsertLeaf(caller, key, value) ==
  /\ caller = admin
  /\ FindSucceeds(key)
  /\ ~FindResult(key).found
  /\ root' = Inserted(key, value).rt
  /\ nodes' = Inserted(key, value).nodes
  /\ contents' = contents \cup {<<key, value>>}
  /\ UNCHANGED admin

-----------------------------------------------------------------------------
(* delete_leaf                                                             *)

\* Mutant: a leaf left alone in its subtree stays where it is.
PromotesNever(find) == FALSE

\* The last sibling moves up when it is a leaf.
Promotes(find) == IsLeaf(find.siblings[Len(find.siblings)])

DeleteLevel(s, key, siblings, i) ==
  LET sibling == siblings[i + 1]
      rtOld == Join(Bit(key, i), s.rtOld, sibling)
      mixed == s.mixed \/ sibling # ZeroHash
      rtNew == IF mixed THEN Join(Bit(key, i), s.rtNew, sibling) ELSE s.rtNew
  IN  [rtNew |-> rtNew, rtOld |-> rtOld, mixed |-> mixed,
       nodes |-> (s.nodes \ {rtOld}) \cup (IF mixed THEN {rtNew} ELSE {})]

Deleted(key) ==
  LET find == FindResult(key)
      all == find.siblings
      promote == all # <<>> /\ Promotes(find)
      siblings == IF promote THEN SubSeq(all, 1, Len(all) - 1) ELSE all
      n == Len(siblings)
      after[k \in 0..n] ==
        IF k = 0
        THEN [rtNew |-> IF promote THEN all[Len(all)] ELSE ZeroHash,
              rtOld |-> find.end, mixed |-> FALSE, nodes |-> nodes \ {find.end}]
        ELSE DeleteLevel(after[k - 1], key, siblings, n - k)
  IN  after[n]

\* The last sibling has to be in the store (a zero sibling never is).
LastSiblingStored(find) ==
  find.siblings # <<>> => find.siblings[Len(find.siblings)] \in nodes

DeleteLeaf(caller, key) ==
  /\ caller = admin
  /\ FindSucceeds(key)
  /\ FindResult(key).found
  /\ LastSiblingStored(FindResult(key))
  /\ root' = Deleted(key).rtNew
  /\ nodes' = Deleted(key).nodes
  /\ contents' = {kv \in contents : kv[1] # key}
  /\ UNCHANGED admin

-----------------------------------------------------------------------------
(* verify_non_membership, called with the proof find_key returns.          *)

RootFromProof(key, start, siblings) ==
  LET n == Len(siblings)
      up[k \in 0..n] ==
        IF k = 0 THEN start
        ELSE Join(Bit(key, n - k), up[k - 1], siblings[n - k + 1])
  IN  up[n]

\* A collision leaf is hashed only when its value is not zero.
ProofStart(find) ==
  IF ~find.is_old0 /\ LeafValue(find.end) # 0 THEN find.end ELSE ZeroHash

VerifyNonMembership(key) ==
  LET find == FindResult(key)
  IN  IF ~FindSucceeds(key) THEN "KeyNotFound"
      ELSE IF find.found THEN "false"
      ELSE IF RootFromProof(key, ProofStart(find), find.siblings) # root
           THEN "InvalidProof"
      ELSE "true"

-----------------------------------------------------------------------------
UpdateExclusionAdmin(caller, newAdmin) ==
  /\ caller = admin
  /\ admin' = newAdmin
  /\ UNCHANGED <<root, nodes, contents>>

\* __constructor
ExclusionInit ==
  /\ admin \in Address
  /\ root = ZeroHash
  /\ nodes = {}
  /\ contents = {}

ExclusionNext ==
  \/ \E a, b \in Address : UpdateExclusionAdmin(a, b)
  \/ \E a \in Address, kv \in Entries : InsertLeaf(a, kv[1], kv[2])
  \/ \E a \in Address, k \in Keys : DeleteLeaf(a, k)

ExclusionSpec == ExclusionInit /\ [][ExclusionNext]_exclusionVars

-----------------------------------------------------------------------------
\* The tree the circuits assume, of some of the entries: a subtree with one
\* key is that leaf, one with several keys branches on the next bit.  tree[h]
\* are the subtrees with h bits to go.
CanonicalTree(entries, kvs) ==
  LET tree[h \in 0..Bits] == [s \in SUBSET entries |->
        IF s = {} THEN ZeroHash
        ELSE IF h = 0 \/ \E kv \in s : s = {kv}
        THEN LET kv == CHOOSE x \in s : TRUE IN HashLeaf(kv[1], kv[2])
        ELSE LET Side(b) == {kv \in s : Bit(kv[1], Bits - h) = b}
             IN  HashInternal(tree[h - 1][Side(0)], tree[h - 1][Side(1)])]
  IN  tree[Bits][kvs]

\* The root depends only on the set of blocked keys, not on the order in
\* which they were inserted and deleted: off-chain tree builders and the
\* contract agree.
RootCanonical == root = CanonicalTree(Entries, contents)

\* Nothing the tree still needs is removed from the store: every node below
\* the root is on the path of some key and can be read, and so can the last
\* sibling of a blocked key, so no lookup, insertion or deletion fails for a
\* missing node.
TreeComplete ==
  /\ \A k \in [1..Bits -> {0, 1}] : FindSucceeds(k)
  /\ \A kv \in contents : FindResult(kv[1]).found /\ LastSiblingStored(FindResult(kv[1]))

\* verify_non_membership, given the proof find_key returns, answers true for
\* every key that is not blocked and false for every key that is; it refuses
\* the proof exactly when the path ends at another key's leaf of value zero.
NonMembershipDecided ==
  \A k \in Keys :
    LET blocked == \E v \in Values : <<k, v>> \in contents
        besideZero == \E other \in Keys \ {k} :
                        <<other, 0>> \in contents /\ FindResult(k).end = HashLeaf(other, 0)
    IN  VerifyNonMembership(k) =
          IF blocked THEN "false" ELSE IF besideZero THEN "InvalidProof" ELSE "true"
=============================================================================
