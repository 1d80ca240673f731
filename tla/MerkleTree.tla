----------------------------- MODULE MerkleTree -----------------------------
(***************************************************************************)
(* The three implementations of the commitment tree that have to agree:    *)
(* the contracts' incremental insertion, the prover's prefix tree, and the *)
(* circuit's Merkle path.  Poseidon2 compression is an injective pairing,  *)
(* so a hash is the term <<left, right>>.                                  *)
(***************************************************************************)
EXTENDS Naturals, Sequences

CONSTANTS Levels, Zero

ASSUME TreeLevels == Levels \in 1..32

\* 1 << n, the number of leaves of a tree of n levels.
TwoTo[n \in 0..Levels] == IF n = 0 THEN 1 ELSE 2 * TwoTo[n - 1]

Hash(left, right) == <<left, right>>

\* Zeroes(lvl): get_zeroes on chain, the empty-subtree chain off chain.
Zeroes == LET z[l \in 0..Levels] == IF l = 0 THEN Zero ELSE Hash(z[l-1], z[l-1])
          IN  z

-----------------------------------------------------------------------------
(* On chain: recompute one path, keeping the left siblings seen so far.    *)

\* Mutant: the left sibling is not remembered.
ClimbLevelForgets(s, lvl) ==
  IF s.index % 2 = 1
  THEN [s EXCEPT !.hash = Hash(s.filled[lvl], @), !.index = @ \div 2]
  ELSE [s EXCEPT !.hash = Hash(@, Zeroes[lvl]), !.index = @ \div 2]

\* One iteration of the loop over the levels.
ClimbLevel(s, lvl) ==
  IF s.index % 2 = 1
  THEN [s EXCEPT !.hash = Hash(s.filled[lvl], @), !.index = @ \div 2]
  ELSE [s EXCEPT !.hash = Hash(@, Zeroes[lvl]), !.index = @ \div 2,
                 !.filled[lvl] = s.hash]

\* The loop from level `from` (1 in the pool, where two leaves are hashed
\* first, 0 in the membership tree) up to the root.
Climb(filledSubtrees, hash, index, from) ==
  LET after[l \in from..Levels] ==
        IF l = from
        THEN [hash |-> hash, index |-> index, filled |-> filledSubtrees]
        ELSE ClimbLevel(after[l - 1], l - 1)
  IN  after[Levels]

-----------------------------------------------------------------------------
(* In the prover: MerklePrefixTree and its proofs.                         *)

At(nodes, i, empty) == IF i < Len(nodes) THEN nodes[i + 1] ELSE empty

Parents(nodes, level) ==
  [i \in 1..((Len(nodes) + 1) \div 2) |->
     Hash(At(nodes, 2 * i - 2, Zeroes[level]), At(nodes, 2 * i - 1, Zeroes[level]))]

\* build_from_parts: an empty level is filled with one empty node.
BuildLevels(leaves) ==
  LET NonEmpty(nodes, l) == IF nodes = <<>> THEN <<Zeroes[l]>> ELSE nodes
      level[l \in 0..Levels] ==
        IF l = 0 THEN NonEmpty(leaves, 0)
        ELSE NonEmpty(Parents(level[l - 1], l - 1), l)
  IN  level

PrefixRoot(leaves) == BuildLevels(leaves)[Levels][1]

Sibling(i) == IF i % 2 = 0 THEN i + 1 ELSE i - 1

\* MerklePrefixTreeBuilt.proof: the sibling of the path at every level.
PathElements(leaves, index) ==
  LET built == BuildLevels(leaves)
      pos[l \in 0..Levels] == IF l = 0 THEN index ELSE pos[l - 1] \div 2
  IN  [l \in 0..(Levels - 1) |-> At(built[l], Sibling(pos[l]), Zeroes[l])]

-----------------------------------------------------------------------------
(* In the circuit: template MerkleProof.                                   *)

CircuitSwitch(bit, node, element) ==
  IF bit = 1 THEN Hash(element, node) ELSE Hash(node, element)

CircuitRoot(leaf, pathElements, pathIndices) ==
  LET node[l \in 0..Levels] ==
        IF l = 0 THEN leaf
        ELSE CircuitSwitch((pathIndices \div TwoTo[l - 1]) % 2, node[l - 1],
                           pathElements[l - 1])
  IN  node[Levels]
=============================================================================
