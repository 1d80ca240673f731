----------------------------- MODULE ProverSmt -----------------------------
(***************************************************************************)
(* The sparse Merkle tree of the prover (sparse_merkle.rs), the proof of   *)
(* absence the wallet takes from the contract's tree, and the circuit that *)
(* checks such proofs on a fixed number of levels.  Keys, hashes and the   *)
(* canonical tree are those of module AspNonMembership.                    *)
(***************************************************************************)
EXTENDS AspNonMembership

CONSTANTS
  SmtLevels,  \* levels of the circuit's verifier (10)
  SmtValues,  \* values given to insert and update
  MaxSmtNodes \* bound on the nodes the prover's tree has stored before a call

ASSUME SmtAssumption == SmtLevels \in Nat \ {0} /\ MaxSmtNodes \in Nat

VARIABLES
  smtRoot,      \* root
  smtDb,        \* db: the nodes stored
  smtContents,  \* history: the keys and values the tree stands for
  smtResult     \* the last SMTResult returned

smtVars == <<smtRoot, smtDb, smtContents, smtResult>>

\* A tree may be 256 deep; a key below the field's modulus has 254 bits.
MaxTreeDepth == Bits + 2

ZeroKey == [i \in 1..Bits |-> 0]

-----------------------------------------------------------------------------
GetNode(hash) == IF hash = ZeroHash THEN ZeroHash ELSE CHOOSE n \in smtDb : n = hash
Stored(hash) == hash = ZeroHash \/ hash \in smtDb
PutNode(db, node) == IF node = ZeroHash THEN db ELSE db \cup {node}

\* find_internal: the nodes from the root down to where the descent ends.
SmtDescent(key) ==
  LET at[l \in 0..Bits] ==
        IF l = 0 THEN smtRoot
        ELSE LET parent == at[l - 1]
             IN  IF IsInternal(parent) THEN Child(GetNode(parent), Bit(key, l - 1)) ELSE ZeroHash
      depth == CHOOSE d \in 0..Bits : /\ ~IsInternal(at[d])
                                      /\ \A l \in 0..(d - 1) : IsInternal(at[l])
  IN  [l \in 1..(depth + 1) |-> at[l - 1]]

SmtFindSucceeds(key) ==
  LET path == SmtDescent(key)
  IN  Len(path) <= MaxTreeDepth /\ \A l \in DOMAIN path : Stored(path[l])

SmtFind(key) ==
  LET path  == SmtDescent(key)
      d     == Len(path) - 1
      end   == path[d + 1]
      empty == end = ZeroHash
      hit   == ~empty /\ LeafKey(end) = key
  IN  [found           |-> hit,
       siblings        |-> [l \in 1..d |-> Other(path[l], Bit(key, l - 1))],
       found_value     |-> IF hit THEN LeafValue(end) ELSE 0,
       not_found_key   |-> IF empty THEN key ELSE IF hit THEN ZeroKey ELSE LeafKey(end),
       not_found_value |-> IF empty \/ hit THEN 0 ELSE LeafValue(end),
       is_old0         |-> empty]

\* On a collision zeros are pushed until the keys part, then the old leaf.
SmtSiblings(key, find) ==
  LET n == Len(find.siblings)
      shared == CommonPrefix(key, find.not_found_key) - n
  IN  IF find.is_old0 THEN find.siblings
      ELSE find.siblings \o [i \in 1..shared |-> ZeroHash]
             \o <<HashLeaf(find.not_found_key, find.not_found_value)>>

\* The path from the leaf to the root; every node of it is stored.
Rebuild(key, leaf, siblings) ==
  LET n == Len(siblings)
      up[k \in 0..n] ==
        IF k = 0 THEN [hash |-> leaf, db |-> PutNode(smtDb, leaf)]
        ELSE LET node == Join(Bit(key, n - k), up[k - 1].hash, siblings[n - k + 1])
             IN  [hash |-> node, db |-> PutNode(up[k - 1].db, node)]
  IN  up[n]

\* Trailing zeros are trimmed, then the collision leaf is taken off.
Trimmed(siblings) ==
  LET used == {i \in DOMAIN siblings : siblings[i] # ZeroHash}
      n == IF used = {} THEN 0 ELSE CHOOSE i \in used : \A j \in used : j <= i
  IN  SubSeq(siblings, 1, n)

ResultSiblings(siblings, find) ==
  LET t == Trimmed(siblings)
  IN  IF ~find.is_old0 /\ t # <<>> THEN SubSeq(t, 1, Len(t) - 1) ELSE t

SmtInsert(key, value) ==
  LET find == SmtFind(key)
      siblings == SmtSiblings(key, find)
      top == Rebuild(key, HashLeaf(key, value), siblings)
  IN  /\ SmtFindSucceeds(key)
      /\ ~find.found
      /\ smtRoot' = top.hash
      /\ smtDb' = top.db
      /\ smtContents' = smtContents \cup {<<key, value>>}
      /\ smtResult' = [op |-> "insert", old_root |-> smtRoot, new_root |-> top.hash,
                       siblings |-> ResultSiblings(siblings, find),
                       old_key |-> find.not_found_key, old_value |-> find.not_found_value,
                       new_key |-> key, new_value |-> value, is_old0 |-> find.is_old0]

SmtUpdate(key, value) ==
  LET find == SmtFind(key)
      top == Rebuild(key, HashLeaf(key, value), find.siblings)
  IN  /\ SmtFindSucceeds(key)
      /\ find.found
      /\ smtRoot' = top.hash
      /\ smtDb' = top.db
      /\ smtContents' = {kv \in smtContents : kv[1] # key} \cup {<<key, value>>}
      /\ smtResult' = [op |-> "update", old_root |-> smtRoot, new_root |-> top.hash,
                       siblings |-> find.siblings,
                       old_key |-> key, old_value |-> find.found_value,
                       new_key |-> key, new_value |-> value, is_old0 |-> FALSE]

NoSmtResult ==
  [op |-> "none", old_root |-> ZeroHash, new_root |-> ZeroHash, siblings |-> <<>>,
   old_key |-> <<>>, old_value |-> 0, new_key |-> <<>>, new_value |-> 0, is_old0 |-> TRUE]

SmtInit ==
  /\ smtRoot = ZeroHash
  /\ smtDb = {}
  /\ smtContents = {}
  /\ smtResult = NoSmtResult

SmtNext ==
  /\ Cardinality(smtDb) <= MaxSmtNodes
  /\ \E k \in Keys, v \in SmtValues : SmtInsert(k, v) \/ SmtUpdate(k, v)

SmtSpec == SmtInit /\ [][SmtNext]_smtVars

-----------------------------------------------------------------------------
(* Proofs for the circuit: siblings padded with zeros to its levels.        *)

Padded(siblings, levels) ==
  siblings \o [i \in 1..(levels - Len(siblings)) |-> ZeroHash]

\* get_proof pads and never truncates.
GetProof(key, maxLevels) ==
  LET find == SmtFind(key)
  IN  [found |-> find.found, siblings |-> Padded(find.siblings, maxLevels),
       old_key |-> find.not_found_key, old_value |-> find.not_found_value,
       is_old0 |-> find.is_old0, root |-> smtRoot]

\* parse_find_result of what the contract's find_key returned.
ParseFindResult(key) ==
  LET find == FindResult(key)
      other == ~find.is_old0 /\ ~find.found
  IN  [found |-> find.found, siblings |-> find.siblings,
       not_found_key |-> IF find.is_old0 THEN key
                         ELSE IF other THEN LeafKey(find.end) ELSE ZeroKey,
       not_found_value |-> IF other THEN LeafValue(find.end) ELSE 0,
       is_old0 |-> find.is_old0]

\* get_nonmembership_proof pads, or truncates; a key that was found is an
\* error and gives no proof.
NonmembershipProofs(key) ==
  LET parsed == ParseFindResult(key)
      n == Len(parsed.siblings)
  IN  IF root = ZeroHash
      THEN {[siblings |-> [i \in 1..SmtLevels |-> ZeroHash],
             old_key |-> ZeroKey, old_value |-> 0, is_old0 |-> TRUE, root |-> ZeroHash]}
      ELSE IF parsed.found THEN {}
      ELSE {[siblings |-> IF n > SmtLevels THEN SubSeq(parsed.siblings, 1, SmtLevels)
                          ELSE Padded(parsed.siblings, SmtLevels),
             old_key |-> parsed.not_found_key, old_value |-> parsed.not_found_value,
             is_old0 |-> parsed.is_old0, root |-> root]}

-----------------------------------------------------------------------------
(* SMTVerifier(SmtLevels) with enabled = 1 and fnc = 1.                     *)

\* SMTLevIns: the level after the last sibling that is not zero; the last
\* sibling itself has to be zero.
LevIns(siblings) == Len(Trimmed(siblings))

\* The levels above are hashed; the one of the insertion is the old leaf or
\* zero.
VerifierRoot(key, p) ==
  LET ins == LevIns(p.siblings)
      leaf == IF p.is_old0 THEN ZeroHash ELSE HashLeaf(p.old_key, p.old_value)
      up[k \in 0..ins] ==
        IF k = 0 THEN leaf ELSE Join(Bit(key, ins - k), up[k - 1], p.siblings[ins - k + 1])
  IN  up[ins]

\* Mutant: the old key may be the key itself.
VerifierAcceptsSelf(key, p) ==
  /\ Len(p.siblings) = SmtLevels
  /\ p.siblings[SmtLevels] = ZeroHash
  /\ VerifierRoot(key, p) = p.root

VerifierAccepts(key, p) ==
  /\ Len(p.siblings) = SmtLevels
  /\ p.siblings[SmtLevels] = ZeroHash
  /\ ~(~p.is_old0 /\ p.old_key = key)
  /\ VerifierRoot(key, p) = p.root

-----------------------------------------------------------------------------
\* The prover's tree is the contract's: for the same keys and values it has
\* the canonical root too, in whatever order they were inserted and updated.
SmtRootCanonical == smtRoot = CanonicalTree(Keys \X SmtValues, smtContents)

\* Every node of it can be read: no lookup fails for a missing node or for
\* its depth.
SmtComplete == \A k \in [1..Bits -> {0, 1}] : SmtFindSucceeds(k)

\* What insert and update return proves the change to who holds only the
\* roots: the siblings lead from the old entry to the old root, and for an
\* update from the new leaf to the new root.
ResultProvesChange ==
  LET r == smtResult
      old == IF r.is_old0 THEN ZeroHash ELSE HashLeaf(r.old_key, r.old_value)
  IN  r.op # "none" =>
        /\ RootFromProof(r.new_key, old, Trimmed(r.siblings)) = r.old_root
        /\ r.op = "update" =>
             RootFromProof(r.new_key, HashLeaf(r.new_key, r.new_value), r.siblings) = r.new_root

\* The circuit accepts the wallet's proof, from the contract's tree or from
\* the prover's own, for every key that is not in the tree and whose path ends
\* above the circuit's last level, and for no other: a longer path is not cut
\* to one that proves something else.
CircuitDecides ==
  \A k \in Keys :
    LET find == FindResult(k)
        own == SmtFind(k)
    IN  /\ (\E p \in NonmembershipProofs(k) : VerifierAccepts(k, p)) <=>
             (~find.found /\ Len(find.siblings) < SmtLevels)
        /\ VerifierAccepts(k, GetProof(k, SmtLevels)) <=>
             (~own.found /\ Len(own.siblings) < SmtLevels)

\* No proof of absence exists for a blocked key: not with any part of its own
\* path, and with whatever old leaf is claimed beside it.
BlockedNeverExcluded ==
  \A kv \in contents :
    LET path == FindResult(kv[1]).siblings
    IN  \A n \in 0..(IF Len(path) < SmtLevels THEN Len(path) ELSE SmtLevels - 1) :
          \A old \in Keys, v \in Values, zero \in BOOLEAN :
            ~VerifierAccepts(kv[1],
                [siblings |-> Padded(SubSeq(path, 1, n), SmtLevels),
                 old_key |-> old, old_value |-> v, is_old0 |-> zero, root |-> root])

\* The contract's sparse tree and the prover's are the one tree their contents
\* determine, with every node it needs, and the prover's results prove what
\* they changed.
SparseTreesAgree ==
  RootCanonical /\ TreeComplete /\ SmtRootCanonical /\ SmtComplete /\ ResultProvesChange

\* Contract and circuit decide whether a key is blocked, and decide alike:
\* no path, whole, cut or padded, excludes a blocked key.
ExclusionDecided == NonMembershipDecided /\ CircuitDecides /\ BlockedNeverExcluded
=============================================================================
