-------------------------------- MODULE Pool --------------------------------
(***************************************************************************)
(* The privacy-pool contract (contracts/pool): the only on-chain holder of *)
(* value.  One action per entry point; a failing call reverts as a whole   *)
(* on Soroban (the deposit transfer included), so it is a stuttering step  *)
(* and only the accepting path of an entry point is an action.             *)
(*                                                                         *)
(* Hashes are injective terms: a note commitment is the note, a Merkle     *)
(* root is the sequence of leaves below it (module MerkleTree shows that   *)
(* the incremental insertion computes exactly that), a nullifier is the    *)
(* spent note together with its position, and the roots of the two         *)
(* association-set contracts are the sets of keys they contain.  No        *)
(* sequence of leaves hashes to the zero root that is_known_root rejects.  *)
(***************************************************************************)
EXTENDS Integers, Sequences, FiniteSets, Functions

CONSTANTS
  Levels,           \* depth of the commitment tree, 1..32
  RootHistorySize,  \* ROOT_HISTORY_SIZE (90 in the code)
  NIns,             \* inputs of the policy circuit (2 in policy_tx_2_2)
  Users,            \* note public keys
  Accounts,         \* Stellar addresses, the pool's own address included
  PoolAddr,         \* env.current_contract_address()
  MembershipAsps,   \* addresses of ASP membership contracts
  NonMembershipAsps,\* addresses of ASP non-membership contracts
  MaxDeposit,       \* maximum_deposit_amount
  AmountBound,      \* 2^248: bound of note amounts and of |ext_amount|
  I128Max,          \* largest amount a token transfer can carry
  Field,            \* the BN254 scalar field modulus
  Supply,           \* tokens every account holds initially
  \* What provers and callers try (bounds of the model only):
  NoteAmounts,      \* amounts put into notes
  ExtTried,         \* external data submitted, and hashed into the proof
  DummyPaths,       \* path indices used with zero-amount inputs
  ForgedRoots,      \* leaf sequences that were never a state of the tree
  MemberRootsTried, \* membership roots proofs are built against
  BlockedRootsTried,\* non-membership roots proofs are built against
  NoRoot            \* an unset slot of the root history

ASSUME LevelsAssumption == Levels \in 1..32
\* The number of leaves is even (the provers know no law of exponentiation).
ASSUME CapacityAssumption == 2^Levels \in Nat /\ (2^Levels) % 2 = 0
ASSUME HistoryAssumption == RootHistorySize \in Nat \ {0}
ASSUME InputsAssumption == NIns \in Nat \ {0}
ASSUME AddressAssumption == PoolAddr \in Accounts /\ Accounts \ {PoolAddr} # {}
ASSUME AspAssumption == MembershipAsps # {} /\ NonMembershipAsps # {}
\* No sum of NIns inputs, two outputs and one public amount wraps around.
ASSUME AmountAssumption ==
  /\ AmountBound \in Nat \ {0}
  /\ Field \in Nat
  /\ Field > (NIns + 3) * AmountBound
  /\ {MaxDeposit, I128Max, Supply} \subseteq Nat
ASSUME NotesAssumption == NoteAmounts \subseteq 0..(Field - 1)
ASSUME PathsAssumption == DummyPaths \subseteq Nat
ASSUME AspRootsAssumption ==
  MemberRootsTried \cup BlockedRootsTried \subseteq SUBSET Users

\* A commitment is Poseidon2(amount, publicKey, blinding): the note itself.
Commitment == [owner : Users, amount : 0..(Field - 1)]
\* An input nullifier is Poseidon2(commitment, pathIndices, signature).
Nullifier == [note : Commitment, path : Nat]
Root == Seq(Commitment)

ASSUME ForgedAssumption == ForgedRoots \subseteq Root /\ NoRoot \notin Root
ASSUME ExtAssumption ==
  \A e \in ExtTried : e.ext_amount \in Int /\ e.recipient \in Accounts

VARIABLES
  roots,              \* Root(i): ring buffer of tree roots
  currentRootIndex,   \* CurrentRootIndex
  nextIndex,          \* NextIndex
  nullifiers,         \* Nullifiers: the spent ones
  admin,              \* Admin
  aspMembership,      \* ASPMembership: address the pool asks for a root
  aspNonMembership,   \* ASPNonMembership
  balance,            \* the token contract's balances
  memberRoot,         \* get_root() of every membership contract
  blockedRoot,        \* get_root() of every non-membership contract
  events              \* the contract events published so far

treeVars == <<roots, currentRootIndex, nextIndex>>
configVars == <<admin, aspMembership, aspNonMembership>>
aspVars == <<memberRoot, blockedRoot>>
vars == <<roots, currentRootIndex, nextIndex, nullifiers, admin, aspMembership,
          aspNonMembership, balance, memberRoot, blockedRoot, events>>

-----------------------------------------------------------------------------
(* The Merkle tree with history.                                           *)

\* get_last_root: the leaves inserted so far.
Leaves == roots[currentRootIndex]

\* Mutant: only the current root is compared, the history is ignored.
IsKnownRootLatest(root) == roots[currentRootIndex] = root

\* is_known_root scans the whole ring, starting at the current slot.
IsKnownRoot(root) ==
  \E i \in 0..(RootHistorySize - 1) : roots[i] = root

\* insert_two_leaves accepts an even index with room for two leaves.
HasRoom == nextIndex % 2 = 0 /\ nextIndex + 2 <= 2^Levels

\* Mutant: the ring index saturates at the last slot instead of wrapping.
InsertTwoLeavesSaturating(leaf0, leaf1) ==
  /\ HasRoom
  /\ LET i == IF currentRootIndex + 1 < RootHistorySize
              THEN currentRootIndex + 1 ELSE currentRootIndex IN
       /\ roots' = [roots EXCEPT ![i] = Leaves \o <<leaf0, leaf1>>]
       /\ currentRootIndex' = i
  /\ nextIndex' = nextIndex + 2

InsertTwoLeaves(leaf0, leaf1) ==
  /\ HasRoom
  /\ LET i == (currentRootIndex + 1) % RootHistorySize IN
       /\ roots' = [roots EXCEPT ![i] = Leaves \o <<leaf0, leaf1>>]
       /\ currentRootIndex' = i
  /\ nextIndex' = nextIndex + 2

-----------------------------------------------------------------------------
(* The policy circuit: what a proof that verifies says about its witness.  *)

Sum(amounts) == SumFunction(amounts)

NullifierOf(in) == [note |-> in.note, path |-> in.path]

\* The Merkle proof of an input is enforced only for a non-zero amount.
InTree(root, in) ==
  in.note.amount # 0 => /\ in.path < Len(root)
                        /\ root[in.path + 1] = in.note

\* Num2Bits(levels) bounds every path, also that of a zero-amount input.
InputsOK(proof) ==
  \A i \in 1..NIns :
    /\ proof.inputs[i].path < 2^Levels
    /\ InTree(proof.root, proof.inputs[i])
    /\ proof.inputs[i].note.owner \in proof.asp_membership_root
    /\ proof.inputs[i].note.owner \notin proof.asp_non_membership_root

NullifiersDistinct(proof) ==
  \A i, j \in 1..NIns :
    i # j => NullifierOf(proof.inputs[i]) # NullifierOf(proof.inputs[j])

Balanced(proof) ==
  (Sum([i \in 1..NIns |-> proof.inputs[i].note.amount])
     + proof.public_amount) % Field
    = (proof.outputs[1].amount + proof.outputs[2].amount) % Field

\* Mutant: the same input note may be used twice in one transaction.
CircuitAcceptsRepeats(proof) ==
  /\ InputsOK(proof)
  /\ \A k \in 1..2 : proof.outputs[k].amount < AmountBound
  /\ Balanced(proof)

CircuitAccepts(proof) ==
  /\ InputsOK(proof)
  /\ NullifiersDistinct(proof)
  /\ \A k \in 1..2 : proof.outputs[k].amount < AmountBound
  /\ Balanced(proof)

-----------------------------------------------------------------------------
(* transact                                                                *)

Abs(x) == IF x < 0 THEN -x ELSE x

CalculatePublicAmount(ext) == IF ext >= 0 THEN ext ELSE Field - Abs(ext)

IsSpent(n) == n \in nullifiers

\* Mutant: the sender's funds are not checked.
DepositAllowedUnfunded(sender, ext) ==
  ext.ext_amount > 0 => /\ ext.ext_amount <= MaxDeposit
                        /\ ext.ext_amount <= I128Max

\* The part of transact before internal_transact: a deposit is taken first.
DepositAllowed(sender, ext) ==
  ext.ext_amount > 0 => /\ ext.ext_amount <= MaxDeposit
                        /\ ext.ext_amount <= I128Max
                        /\ ext.ext_amount <= balance[sender]

\* Mutant: the public amount of the proof is not compared.
PublicAmountUnchecked(proof, ext) == Abs(ext.ext_amount) < AmountBound

PublicAmountMatches(proof, ext) ==
  /\ Abs(ext.ext_amount) < AmountBound
  /\ proof.public_amount = CalculatePublicAmount(ext.ext_amount)

\* Mutant: the exclusion root is not compared.
AspRootsMatchMembersOnly(proof) ==
  proof.asp_membership_root = memberRoot[aspMembership]

\* Both roots are asked from the contracts configured at this moment.
AspRootsMatch(proof) ==
  /\ proof.asp_membership_root = memberRoot[aspMembership]
  /\ proof.asp_non_membership_root = blockedRoot[aspNonMembership]

VerifyProof(proof) == proof.public_amount < Field /\ CircuitAccepts(proof)

\* token.transfer(pool, recipient) after the deposit has been credited.
WithdrawalAllowed(ext) ==
  ext.ext_amount < 0 => /\ -ext.ext_amount <= I128Max
                        /\ -ext.ext_amount <= balance[PoolAddr]

\* Mutant: the loop over the nullifiers skips the first.
InputsUnspentTail(proof) ==
  \A i \in 2..NIns : ~IsSpent(NullifierOf(proof.inputs[i]))

InputsUnspent(proof) ==
  \A i \in 1..NIns : ~IsSpent(NullifierOf(proof.inputs[i]))

\* Every check of transact and internal_transact: the call returns Ok(()).
Accepts(sender, proof, ext) ==
  /\ DepositAllowed(sender, ext)
  /\ IsKnownRoot(proof.root)
  /\ InputsUnspent(proof)
  /\ proof.ext_data_hash = ext
  /\ PublicAmountMatches(proof, ext)
  /\ AspRootsMatch(proof)
  /\ VerifyProof(proof)
  /\ WithdrawalAllowed(ext)
  /\ HasRoom

Transfer(bal, from, to, amount) ==
  LET debited == [bal EXCEPT ![from] = @ - amount]
  IN  [debited EXCEPT ![to] = @ + amount]

Settled(sender, ext) ==
  IF ext.ext_amount >= 0
  THEN Transfer(balance, sender, PoolAddr, ext.ext_amount)
  ELSE Transfer(balance, PoolAddr, ext.recipient, Abs(ext.ext_amount))

NullifierEvent(n) == [type |-> "NewNullifier", nullifier |-> n]
CommitmentEvent(c, index) ==
  [type |-> "NewCommitment", commitment |-> c, index |-> index]

\* Mutant: both commitments are published with the left leaf's index.
TransactEventsSameIndex(proof) ==
  [i \in 1..NIns |-> NullifierEvent(NullifierOf(proof.inputs[i]))]
    \o << CommitmentEvent(proof.outputs[1], nextIndex),
          CommitmentEvent(proof.outputs[2], nextIndex) >>

TransactEvents(proof) ==
  [i \in 1..NIns |-> NullifierEvent(NullifierOf(proof.inputs[i]))]
    \o << CommitmentEvent(proof.outputs[1], nextIndex),
          CommitmentEvent(proof.outputs[2], nextIndex + 1) >>

MarkSpent(proof) ==
  nullifiers' = nullifiers \cup {NullifierOf(proof.inputs[i]) : i \in 1..NIns}

Transact(sender, proof, ext) ==
  /\ Accepts(sender, proof, ext)
  /\ MarkSpent(proof)
  /\ balance' = Settled(sender, ext)
  /\ InsertTwoLeaves(proof.outputs[1], proof.outputs[2])
  /\ events' = events \o TransactEvents(proof)
  /\ UNCHANGED <<configVars, aspVars>>

\* Administration: each entry point requires the stored admin's signature.
UpdateAdmin(caller, newAdmin) ==
  /\ caller = admin
  /\ admin' = newAdmin
  /\ UNCHANGED <<treeVars, nullifiers, aspMembership, aspNonMembership,
                 balance, aspVars, events>>

UpdateAspMembership(caller, addr) ==
  /\ caller = admin
  /\ aspMembership' = addr
  /\ UNCHANGED <<treeVars, nullifiers, admin, aspNonMembership, balance,
                 aspVars, events>>

UpdateAspNonMembership(caller, addr) ==
  /\ caller = admin
  /\ aspNonMembership' = addr
  /\ UNCHANGED <<treeVars, nullifiers, admin, aspMembership, balance,
                 aspVars, events>>

-----------------------------------------------------------------------------
(* The other contracts the pool depends on, seen from the pool.            *)

\* asp-membership is append-only: a key is approved and stays approved.
AspApprove(addr, user) ==
  /\ memberRoot' = [memberRoot EXCEPT ![addr] = @ \cup {user}]
  /\ UNCHANGED <<treeVars, nullifiers, configVars, balance, blockedRoot, events>>

\* asp-non-membership: keys are blocked (insert_leaf) and unblocked.
AspBlock(addr, user) ==
  /\ blockedRoot' = [blockedRoot EXCEPT ![addr] = @ \cup {user}]
  /\ UNCHANGED <<treeVars, nullifiers, configVars, balance, memberRoot, events>>

AspUnblock(addr, user) ==
  /\ blockedRoot' = [blockedRoot EXCEPT ![addr] = @ \ {user}]
  /\ UNCHANGED <<treeVars, nullifiers, configVars, balance, memberRoot, events>>

\* Anybody may move tokens, to the pool's address too, without calling it.
TokenTransfer(from, to, amount) ==
  /\ from # PoolAddr
  /\ balance[from] >= amount
  /\ balance' = Transfer(balance, from, to, amount)
  /\ UNCHANGED <<treeVars, nullifiers, configVars, aspVars, events>>

-----------------------------------------------------------------------------
(* __constructor, and the contracts it points at.                          *)
Init ==
  /\ roots = [i \in 0..(RootHistorySize - 1) |-> IF i = 0 THEN <<>> ELSE NoRoot]
  /\ currentRootIndex = 0
  /\ nextIndex = 0
  /\ nullifiers = {}
  /\ admin \in Accounts \ {PoolAddr}
  /\ aspMembership \in MembershipAsps
  /\ aspNonMembership \in NonMembershipAsps
  /\ balance = [a \in Accounts |-> IF a = PoolAddr THEN 0 ELSE Supply]
  /\ memberRoot = [a \in MembershipAsps |-> {}]
  /\ blockedRoot = [a \in NonMembershipAsps |-> {}]
  /\ events = <<>>

\* A prover can use any tree state ever published, or a tree of its own.
TreeStates == {SubSeq(Leaves, 1, 2 * k) : k \in 0..(Len(Leaves) \div 2)}

InputsTried(root) ==
  {in \in [note : [owner : Users, amount : NoteAmounts],
           path : DummyPaths \cup 0..(Len(root) - 1)] :
     IF in.note.amount = 0 THEN in.path \in DummyPaths ELSE InTree(root, in)}

OutputsTried == [1..2 -> [owner : Users, amount : NoteAmounts]]

\* The balance constraint leaves a proof no choice of its public amount.
PublicAmountOf(inputs, outputs) ==
  (outputs[1].amount + outputs[2].amount
     - Sum([i \in 1..NIns |-> inputs[i].note.amount])) % Field

ProofOf(root, inputs, outputs, ext, m, n) ==
  [root |-> root, inputs |-> inputs, outputs |-> outputs,
   public_amount |-> PublicAmountOf(inputs, outputs), ext_data_hash |-> ext,
   asp_membership_root |-> m, asp_non_membership_root |-> n]

TransactStep ==
  \E sender \in Accounts \ {PoolAddr}, ext \in ExtTried,
     m \in MemberRootsTried, n \in BlockedRootsTried,
     root \in TreeStates \cup ForgedRoots :
    \E inputs \in [1..NIns -> InputsTried(root)], outputs \in OutputsTried :
      Transact(sender, ProofOf(root, inputs, outputs, ext, m, n), ext)

AdminStep ==
  \/ \E a, b \in Accounts : UpdateAdmin(a, b)
  \/ \E a \in Accounts, addr \in MembershipAsps : UpdateAspMembership(a, addr)
  \/ \E a \in Accounts, addr \in NonMembershipAsps :
       UpdateAspNonMembership(a, addr)

EnvironmentStep ==
  \/ \E addr \in MembershipAsps, u \in Users : AspApprove(addr, u)
  \/ \E addr \in NonMembershipAsps, u \in Users :
       AspBlock(addr, u) \/ AspUnblock(addr, u)
  \/ \E a, b \in Accounts, x \in 1..MaxDeposit : TokenTransfer(a, b, x)

Next == TransactStep \/ AdminStep \/ EnvironmentStep

Spec == Init /\ [][Next]_vars

-----------------------------------------------------------------------------
(* Properties                                                              *)

Event ==
  [type : {"NewNullifier"}, nullifier : Nullifier]
    \cup [type : {"NewCommitment"}, commitment : Commitment, index : Nat]

\* Type invariant of the contract's storage, the balances and the events.
TypeOK ==
  /\ roots \in [0..(RootHistorySize - 1) -> Root \cup {NoRoot}]
  /\ currentRootIndex \in 0..(RootHistorySize - 1)
  /\ Leaves \in Root
  /\ nextIndex \in Nat
  /\ nullifiers \subseteq Nullifier
  /\ admin \in Accounts
  /\ aspMembership \in MembershipAsps
  /\ aspNonMembership \in NonMembershipAsps
  /\ balance \in [Accounts -> Nat]
  /\ memberRoot \in [MembershipAsps -> SUBSET Users]
  /\ blockedRoot \in [NonMembershipAsps -> SUBSET Users]
  /\ events \in Seq(Event)

Transactions == nextIndex \div 2

\* The tree as it was after k transactions.
TreeAfter(k) == SubSeq(Leaves, 1, 2 * k)

\* The ring of ROOT_HISTORY_SIZE roots knows the last ROOT_HISTORY_SIZE
\* states of the tree and nothing else: a proof survives exactly
\* ROOT_HISTORY_SIZE - 1 later transactions, also across the wrap-around.
HistoryWindow ==
  /\ Len(Leaves) = nextIndex
  /\ {roots[i] : i \in 0..(RootHistorySize - 1)} \ {NoRoot}
       = {TreeAfter(k) : k \in {j \in 0..Transactions :
                                  Transactions - j < RootHistorySize}}

\* No nullifier is ever published twice.  The contract compares nullifiers
\* with earlier transactions only; inside one transaction the circuit does.
NullifierPublishedOnce ==
  \A i, j \in 1..Len(events) :
    /\ events[i].type = "NewNullifier" /\ events[j].type = "NewNullifier"
    /\ events[i].nullifier = events[j].nullifier
    => i = j

IsCommitment(i) == events[i].type = "NewCommitment"

\* The published commitments are the tree: replaying the events in order
\* gives the leaf at every index, once, in index order and without a gap.
EventsRebuildTree ==
  /\ \A i \in 1..Len(events) : IsCommitment(i) =>
       /\ events[i].index < nextIndex
       /\ events[i].commitment = Leaves[events[i].index + 1]
  /\ \A k \in 0..(nextIndex - 1) : \E i \in 1..Len(events) :
       IsCommitment(i) /\ events[i].index = k
  /\ \A i, j \in 1..Len(events) :
       i < j /\ IsCommitment(i) /\ IsCommitment(j)
         => events[i].index < events[j].index

\* Value of the notes in the tree that nobody has spent yet.
UnspentValue ==
  SumFunction([i \in {k \in 1..nextIndex :
                        [note |-> Leaves[k], path |-> k - 1] \notin nullifiers}
                 |-> Leaves[i].amount])

\* Solvency: the pool holds at least the tokens its unspent notes stand for,
\* whatever roots, dummy inputs, amounts and recipients provers choose.
Solvency == balance[PoolAddr] >= UnspentValue

\* A withdrawal of two unspent notes by an owner both association sets
\* accept, proved against any root still in the window.
HonestInputs(root) ==
  {in \in InputsTried(root) :
     /\ NullifierOf(in) \notin nullifiers
     /\ in.path < 2^Levels
     /\ in.note.owner \in memberRoot[aspMembership] \ blockedRoot[aspNonMembership]}

WithdrawalAccepted(root, inputs, recipient) ==
  LET amount == Sum([i \in 1..NIns |-> inputs[i].note.amount])
      ext == [ext_amount |-> -amount, recipient |-> recipient]
      zero == [owner |-> inputs[1].note.owner, amount |-> 0]
      proof == ProofOf(root, inputs, <<zero, zero>>, ext,
                       memberRoot[aspMembership], blockedRoot[aspNonMembership])
  IN  /\ amount < AmountBound
      /\ amount <= I128Max
      => \A sender \in Accounts \ {PoolAddr} : Accepts(sender, proof, ext)

FullWithdrawalAccepted ==
  \A k \in {j \in 0..Transactions : Transactions - j < RootHistorySize} :
    \A inputs \in [1..NIns -> HonestInputs(TreeAfter(k))] :
      (\A i, j \in 1..NIns : i # j => inputs[i] # inputs[j])
        => \A recipient \in Accounts :
             WithdrawalAccepted(TreeAfter(k), inputs, recipient)

\* While the tree has room, transact accepts the withdrawal of any unspent
\* notes of an accepted owner in full: no interleaving of other
\* transactions, transfers or rotations of the history makes it fail.
WithdrawalWhileRoom == nextIndex < 2^Levels => FullWithdrawalAccepted

\* Every nullifier that becomes spent belongs to a key that the association
\* sets the pool is configured with accept at that moment, not at the time
\* the proof was made.
SpendsFollowPolicy ==
  [][\A n \in nullifiers' \ nullifiers :
       n.note.owner \in memberRoot[aspMembership]
                          \ blockedRoot[aspNonMembership]]_vars

=============================================================================
