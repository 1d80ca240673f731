------------------------------ MODULE PoolTree ------------------------------
(***************************************************************************)
(* MerkleTreeWithHistory as it is stored (FilledSubtree, Root ring,        *)
(* NextIndex), with the sequence of inserted leaves as history variable.   *)
(* Module Pool replaces the stored hashes by that sequence; the invariants *)
(* here justify it.                                                        *)
(***************************************************************************)
EXTENDS MerkleTree

CONSTANTS RootHistorySize, Commitment, NoRoot

ASSUME HistorySize == RootHistorySize \in Nat \ {0}
\* A commitment is a hash with a known preimage: never the zero leaf.
ASSUME LeafAssumption == Zero \notin Commitment

VARIABLES filledSubtree, roots, currentRootIndex, treeNextIndex, leaves

treeVars == <<filledSubtree, roots, currentRootIndex, treeNextIndex, leaves>>

TreeInit ==
  /\ filledSubtree = Zeroes
  /\ roots = [i \in 0..(RootHistorySize - 1) |->
                IF i = 0 THEN Zeroes[Levels] ELSE NoRoot]
  /\ currentRootIndex = 0
  /\ treeNextIndex = 0
  /\ leaves = <<>>

HasRoom == treeNextIndex % 2 = 0 /\ treeNextIndex + 2 <= TwoTo[Levels]

NextSlot(i) == (i + 1) % RootHistorySize

InsertTwoLeaves(leaf1, leaf2) ==
  /\ HasRoom
  /\ LET top == Climb(filledSubtree, Hash(leaf1, leaf2), treeNextIndex \div 2, 1)
         slot == NextSlot(currentRootIndex)
     IN  /\ filledSubtree' = top.filled
         /\ roots' = [roots EXCEPT ![slot] = top.hash]
         /\ currentRootIndex' = slot
  /\ treeNextIndex' = treeNextIndex + 2
  /\ leaves' = leaves \o <<leaf1, leaf2>>

TreeNext == \E a, b \in Commitment : InsertTwoLeaves(a, b)

TreeSpec == TreeInit /\ [][TreeNext]_treeVars

\* is_known_root: from the current slot once around the ring.
IsKnownRoot(root) ==
  \E k \in 0..(RootHistorySize - 1) :
    roots[(currentRootIndex + k) % RootHistorySize] = root

GetLastRoot == roots[currentRootIndex]

-----------------------------------------------------------------------------
TreeAfter(k) == SubSeq(leaves, 1, 2 * k)

\* The root the contract stores is the one the prover computes from the
\* leaves it collected from the events, at every fill level of the tree.
ProverRootAgrees == GetLastRoot = PrefixRoot(leaves)

\* Every leaf can be spent: the path the prover extracts makes the circuit
\* compute a root the contract knows, for the current tree and for each
\* older tree still in the window.
PathsVerify ==
  \A k \in 0..(Len(leaves) \div 2) : Len(leaves) \div 2 - k < RootHistorySize =>
    \A i \in 0..(2 * k - 1) :
      IsKnownRoot(CircuitRoot(leaves[i + 1], PathElements(TreeAfter(k), i), i))

\* Of all the states the tree went through exactly the last
\* ROOT_HISTORY_SIZE are known.
KnownRootsExact ==
  \A k \in 0..(Len(leaves) \div 2) :
    IsKnownRoot(PrefixRoot(TreeAfter(k)))
      <=> Len(leaves) \div 2 - k < RootHistorySize

\* The three computations of the commitment tree and the ring of its roots
\* agree at every fill level: contract, prover and circuit.
TreesAgree == ProverRootAgrees /\ PathsVerify /\ KnownRootsExact
=============================================================================
