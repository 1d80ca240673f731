-------------------------------- MODULE Flows --------------------------------
(***************************************************************************)
(* The prover's transaction flows (deposit, withdraw, transfer over the    *)
(* generic transact) against the circuit and the pool that judge what they *)
(* build, and against the wallets that must find the notes they create.    *)
(*                                                                         *)
(* A pool root is the sequence of leaves itself and a Merkle path that     *)
(* sequence with the slot of the note left to be filled in: MerkleTree and *)
(* PoolTree check the real tree.  Integer widths are scaled down but keep  *)
(* their proportions: u128 is 0..NoteMax, i128 is -ExtMax-1..ExtMax, and   *)
(* the field of P elements is larger than both.                            *)
(*                                                                         *)
(* A client builds from what it has read: a prefix of the leaves and the   *)
(* roots of the two ASP contracts.  Other transactions, and updates of the *)
(* ASP sets, may come before its own reaches the pool.                     *)
(***************************************************************************)
EXTENDS Notes, FiniteSets, FiniteSetsExt, SequencesExt

CONSTANTS
  Users,         \* accounts, each known by its wallet signature
  NoteMax,       \* u128::MAX, scaled
  ExtMax,        \* i128::MAX, scaled
  P,             \* the order of the scalar field, scaled
  NoteAmounts,   \* the note amounts that requests ask for
  ExtAmounts,    \* the non-negative external amounts that requests ask for
  MaximumDeposit,\* the pool's cap on one deposit
  MaxExtAmount,  \* the pool's bound on external amounts, 2^248, scaled
  RootsKept,     \* roots the pool remembers
  MaxLeaves      \* bound on the leaves of the tree

ASSUME FlowsAssumption ==
  /\ IsFiniteSet(Users) /\ NoteMax \in Nat /\ ExtMax \in Nat /\ P \in Nat
  /\ ExtMax < NoteMax /\ 2 * NoteMax + ExtMax < P
  /\ NoteAmounts \subseteq 0..NoteMax /\ ExtAmounts \subseteq 0..ExtMax
  /\ MaximumDeposit \in Nat /\ RootsKept \in Nat \ {0}
  /\ MaxExtAmount \in Nat /\ ExtMax + 1 < MaxExtAmount

VARIABLES
  leaves,        \* the pool's commitments, in order
  boxes,         \* the encrypted output emitted with each commitment
  minted,        \* history: whom each output was meant for, and its amount
  spent,         \* the pool's nullifiers
  balance,       \* tokens held by the pool
  outcome        \* what became of the last request

flowVars == <<leaves, boxes, minted, spent, balance, outcome>>

(* generate_random_blinding: a request draws at most four values, and the   *)
(* draws of a request that was rejected leave no trace.                     *)
fresh == 2 * Len(leaves) + 1

N_INPUTS == 2
N_OUTPUTS == 2
Network == "testnet"

KeysOf(u) == Keys(u)

-----------------------------------------------------------------------------
(* Checked arithmetic: None when the result leaves the type. *)

CheckedAdd(a, b) == IF a + b <= NoteMax THEN Some(a + b) ELSE None
CheckedNeg(x) == IF x = -ExtMax - 1 THEN None ELSE Some(-x)
NoteFromExt(x) == IF x >= 0 THEN Some(x) ELSE None

(* sum_note_amounts_inputs and sum_note_amounts_outputs. *)
SumNoteAmounts(notes) ==
  FoldLeft(LAMBDA sum, n : UNION {CheckedAdd(s, n.amount) : s \in sum}, Some(0), notes)

(* Field::try_from(ExtAmount): a negative amount is p - |x|. *)
FieldFromExt(x) == IF x >= 0 THEN x ELSE P - (-x)

(* calculate_public_amount of the pool contract: None from its bound on. *)
CalculatePublicAmount(x) ==
  IF (IF x >= 0 THEN x ELSE -x) >= MaxExtAmount THEN None
  ELSE IF x >= 0 THEN Some(x) ELSE Some(P - (0 - x))

-----------------------------------------------------------------------------
(* Requests.  A recipient is self, a user's registered pair of keys, or one *)
(* half of a pair.                                                          *)

SelfKeys == [note |-> None, enc |-> None]
KeysFor(u) == [note |-> Some(KeysOf(u).notePublic), enc |-> Some(KeysOf(u).encPublic)]

RecipientNotePublic(out, sender) ==
  IF out.keys.note = None THEN KeysOf(sender).notePublic ELSE CHOOSE k \in out.keys.note : TRUE
RecipientEncPublic(out, sender) ==
  IF out.keys.enc = None THEN KeysOf(sender).encPublic ELSE CHOOSE k \in out.keys.enc : TRUE

Output(amount, blinding, keys) == [amount |-> amount, blinding |-> blinding, keys |-> keys]

(* The tree that the client has read. *)
SeenLeaves(seen) == SubSeq(leaves, 1, seen.size)

(* An input note: a discovered note with its path in that tree. *)
InputNote(note, seen) ==
  [amount |-> note.amount, blinding |-> note.blinding, index |-> note.index,
   path |-> SeenLeaves(seen)]

(* Mutant: a dummy input without a blinding of its own. *)
DummyInputUnblinded(blinding) == [amount |-> 0, blinding |-> 0, index |-> 0, path |-> <<>>]

DummyInput(blinding) == [amount |-> 0, blinding |-> blinding, index |-> 0, path |-> <<>>]

(* Padding draws a fresh blinding for every slot it fills: the inputs first. *)
PadInputs(inputs, next) ==
  [i \in 1..N_INPUTS |-> IF i <= Len(inputs) THEN inputs[i]
                         ELSE DummyInput(next + (i - Len(inputs) - 1))]
PadOutputs(outputs, next) ==
  [i \in 1..N_OUTPUTS |-> IF i <= Len(outputs) THEN outputs[i]
                          ELSE Output(0, next + (i - Len(outputs) - 1), SelfKeys)]

-----------------------------------------------------------------------------
(* transact *)

(* inputs + ext_amount = outputs, in checked arithmetic. *)
Balanced(inputs, outputs, ext) ==
  \E in \in SumNoteAmounts(inputs), out \in SumNoteAmounts(outputs) :
    IF ext >= 0
    THEN \E public \in NoteFromExt(ext) : CheckedAdd(in, public) = Some(out)
    ELSE \E neg \in CheckedNeg(ext) : \E public \in NoteFromExt(neg) :
           CheckedAdd(out, public) = Some(in)

(* Mutant: a missing encryption key falls back to the sender's. *)
KeysPairedOrSender(outputs) ==
  \A i \in DOMAIN outputs : outputs[i].keys.enc = None \/ outputs[i].keys.note # None

(* Recipient keys are both set or both unset. *)
KeysPaired(outputs) ==
  \A i \in DOMAIN outputs : (outputs[i].keys.note = None) <=> (outputs[i].keys.enc = None)

(* The request's shape: depths are positive and every path has the depth's length. *)
ShapeOK(shape) ==
  /\ shape.treeDepth > 0 /\ shape.smtDepth > 0
  /\ shape.membershipPath = shape.treeDepth
  /\ shape.siblings = shape.smtDepth
  /\ shape.inputPath = shape.treeDepth

TransactAccepts(inputs, outputs, ext, shape) ==
  /\ ShapeOK(shape)
  /\ Len(outputs) <= N_OUTPUTS
  /\ Balanced(inputs, outputs, ext)
  /\ Len(inputs) <= N_INPUTS
  /\ KeysPaired(outputs)

(* Nullifier of an input slot, as the prover computes it. *)
SlotCommitment(u, inp) == ComputeCommitment(inp.amount, KeysOf(u).notePublic, inp.blinding)
SlotNullifier(u, inp) ==
  LET c == SlotCommitment(u, inp)
  IN  ComputeNullifier(c, inp.index, ComputeSignature(KeysOf(u).notePrivate, c, inp.index))

OutputCommitment(u, out) ==
  ComputeCommitment(out.amount, RecipientNotePublic(out, u), out.blinding)
OutputBox(u, out) ==
  EncryptOutputNote(RecipientEncPublic(out, u), out.amount, out.blinding)

(* The membership proof of the caller's own ASP leaf. *)
MembershipProof(u) ==
  LET b == MembershipBlinding(u, Network)
  IN  [leaf |-> AspMembershipLeaf(KeysOf(u).notePublic, b), blinding |-> b]
NonMembershipProof(u) == [key |-> KeysOf(u).notePublic]

(* Soroban structs are hashed as a map sorted by key. *)
HashExtDataOffchain(ext) ==
  <<"keccak", <<ext.encrypted_output0, ext.encrypted_output1, ext.ext_amount, ext.recipient>>>>
HashExtData(ext) ==
  <<"keccak", <<ext.encrypted_output0, ext.encrypted_output1, ext.ext_amount, ext.recipient>>>>

(* TransactArtifacts: circuit inputs, extData and the prepared public values. *)
Artifacts(u, ins, outs, ext, recipient, seen) ==
  LET extData == [recipient |-> recipient, ext_amount |-> ext,
                  encrypted_output0 |-> OutputBox(u, outs[1]),
                  encrypted_output1 |-> OutputBox(u, outs[2])]
  IN  [extData |-> extData,
       public  |-> [root |-> SeenLeaves(seen), publicAmount |-> FieldFromExt(ext),
                    aspMembershipRoot |-> seen.membership,
                    aspNonMembershipRoot |-> seen.nonMembership,
                    extDataHash |-> HashExtDataOffchain(extData),
                    inputNullifier |-> [i \in 1..N_INPUTS |-> SlotNullifier(u, ins[i])],
                    outputCommitment |-> [i \in 1..N_OUTPUTS |-> OutputCommitment(u, outs[i])]],
       private |-> [inAmount |-> [i \in 1..N_INPUTS |-> ins[i].amount],
                    inPrivateKey |-> [i \in 1..N_INPUTS |-> KeysOf(u).notePrivate],
                    inBlinding |-> [i \in 1..N_INPUTS |-> ins[i].blinding],
                    inPathIndices |-> [i \in 1..N_INPUTS |-> ins[i].index],
                    inPathElements |-> [i \in 1..N_INPUTS |-> ins[i].path],
                    outAmount |-> [i \in 1..N_OUTPUTS |-> outs[i].amount],
                    outPubkey |-> [i \in 1..N_OUTPUTS |-> RecipientNotePublic(outs[i], u)],
                    outBlinding |-> [i \in 1..N_OUTPUTS |-> outs[i].blinding],
                    membership |-> MembershipProof(u),
                    nonMembership |-> NonMembershipProof(u)]]

-----------------------------------------------------------------------------
(* The policy circuit.  Its hashes are written out with the circuit's own   *)
(* domain tags, so that the prover's must agree with them.                   *)

CircuitInputHolds(pub, prv, i) ==
  LET key        == Poseidon2Hash2(prv.inPrivateKey[i], 0, 3)
      commitment == Poseidon2Hash3(prv.inAmount[i], key, prv.inBlinding[i], 1)
      signature  == Poseidon2Hash3(prv.inPrivateKey[i], commitment, prv.inPathIndices[i], 4)
  IN  /\ pub.inputNullifier[i] = Poseidon2Hash3(commitment, prv.inPathIndices[i], signature, 2)
      /\ prv.inAmount[i] # 0 =>
           MerkleRoot(commitment, prv.inPathIndices[i], prv.inPathElements[i]) = pub.root
      /\ prv.membership.leaf = Poseidon2Hash2(key, prv.membership.blinding, 1)
      /\ prv.nonMembership.key = key

CircuitOutputHolds(pub, prv, i) ==
  pub.outputCommitment[i] =
    Poseidon2Hash3(prv.outAmount[i], prv.outPubkey[i], prv.outBlinding[i], 1)

Circuit(pub, prv) ==
  /\ \A i \in 1..N_INPUTS : CircuitInputHolds(pub, prv, i)
  /\ \A i \in 1..N_OUTPUTS : CircuitOutputHolds(pub, prv, i)
  /\ pub.inputNullifier[1] # pub.inputNullifier[2]
  /\ (prv.inAmount[1] + prv.inAmount[2] + pub.publicAmount) % P
       = (prv.outAmount[1] + prv.outAmount[2]) % P

(* is_known_root: the pool keeps its last RootsKept roots, one for each     *)
(* transaction and the first for the empty tree.                            *)
KnownRoot(root) ==
  \E k \in 0..Len(leaves) :
    /\ k % N_OUTPUTS = 0 /\ (Len(leaves) - k) \div N_OUTPUTS < RootsKept
    /\ root = SubSeq(leaves, 1, k)

(* What the pool asks before it moves anything: in transact the cap on a    *)
(* deposit, in internal_transact the rest.                                  *)
PoolAccepts(a) ==
  /\ a.extData.ext_amount > 0 => a.extData.ext_amount <= MaximumDeposit
  /\ KnownRoot(a.public.root)
  /\ \A i \in 1..N_INPUTS : a.public.inputNullifier[i] \notin spent
  /\ a.public.extDataHash = HashExtData(a.extData)
  /\ Some(a.public.publicAmount) = CalculatePublicAmount(a.extData.ext_amount)
  /\ a.public.aspMembershipRoot = "current" /\ a.public.aspNonMembershipRoot = "current"
  /\ Circuit(a.public, a.private)

-----------------------------------------------------------------------------
(* The wallet's view: the notes it finds on the chain, spent or not. *)

Discovered(u) ==
  UNION {TryDecryptAndDerive(KeysOf(u), leaves[i], i - 1, boxes[i]) : i \in DOMAIN leaves}

Unspent(u) == {n \in Discovered(u) : n.nullifier \notin spent}

-----------------------------------------------------------------------------
(* The reference for what transact may refuse, in unbounded integers. *)

TotalOf(notes) == FoldLeft(LAMBDA s, n : s + n.amount, 0, notes)

WellFormed(inputs, outputs, ext, shape) ==
  /\ ShapeOK(shape)
  /\ Len(inputs) <= N_INPUTS /\ Len(outputs) <= N_OUTPUTS
  /\ KeysPaired(outputs)
  /\ TotalOf(inputs) + ext = TotalOf(outputs)
  /\ TotalOf(inputs) <= NoteMax /\ TotalOf(outputs) <= NoteMax
  /\ ext > -ExtMax - 1

(* What the client could not have known or asked for in vain: a note it     *)
(* names twice or that is spent, a root that has left the pool's history,   *)
(* an ASP set that has changed, a deposit above the cap.                    *)
Reuses(inputs) ==
  \/ \E i, j \in DOMAIN inputs : i # j /\ inputs[i].index = inputs[j].index
  \/ \E i \in DOMAIN inputs : inputs[i].nullifier \in spent

Outdated(seen) ==
  \/ Len(leaves) - seen.size >= N_OUTPUTS * RootsKept
  \/ seen.membership # "current" \/ seen.nonMembership # "current"

-----------------------------------------------------------------------------
(* A request goes through transact and, when an artifact was built, to the  *)
(* pool.  next is the first blinding that transact may draw.                *)

Refuse(well) ==
  /\ outcome' = [built |-> FALSE, accepted |-> FALSE, well |-> well, cause |-> FALSE]
  /\ UNCHANGED <<leaves, boxes, minted, spent, balance>>

Addressee(u, out) == 
  IF out.keys.note = None THEN u ELSE CHOOSE v \in Users : KeysFor(v).note = out.keys.note

Transact(u, inputs, outputs, ext, recipient, shape, next, seen) ==
  LET notes == [i \in DOMAIN inputs |-> InputNote(inputs[i], seen)]
      ins   == PadInputs(notes, next)
      outs  == PadOutputs(outputs, next + (N_INPUTS - Len(inputs)))
      a     == Artifacts(u, ins, outs, ext, recipient, seen)
      well  == WellFormed(notes, outputs, ext, shape)
      ok    == PoolAccepts(a)
  IN  IF ~TransactAccepts(notes, outputs, ext, shape)
      THEN Refuse(well)
      ELSE /\ outcome' = [built |-> TRUE, accepted |-> ok, well |-> well,
                          cause |-> Reuses(inputs) \/ Outdated(seen) \/ ext > MaximumDeposit]
           /\ IF ok
              THEN /\ leaves' = leaves \o a.public.outputCommitment
                   /\ boxes' = boxes \o <<a.extData.encrypted_output0, a.extData.encrypted_output1>>
                   /\ minted' = minted \o [i \in 1..N_OUTPUTS |->
                                  [to |-> Addressee(u, outs[i]), amount |-> outs[i].amount]]
                   /\ spent' = spent \union Range(a.public.inputNullifier)
                   /\ balance' = balance + ext
              ELSE UNCHANGED <<leaves, boxes, minted, spent, balance>>

(* deposit *)
Deposit(u, amount, outputs, shape, next, seen) ==
  Transact(u, <<>>, outputs, amount, "pool", shape, next, seen)

(* withdraw: without outputs the change goes back to the sender. *)
WithdrawOutputs(change, next) ==
  <<Output(change, next, SelfKeys), Output(0, next + 1, SelfKeys)>>

Withdraw(u, amount, inputs, outputs, shape, next, seen) ==
  LET total == SumNoteAmounts(inputs)
      covered == \E t \in total : \E w \in NoteFromExt(amount) : t >= w
      change  == (CHOOSE t \in total : TRUE) - amount
      outs    == IF outputs = None THEN WithdrawOutputs(change, next)
                 ELSE CHOOSE o \in outputs : TRUE
      drawn   == IF outputs = None THEN next + 2 ELSE next
  IN  IF ~covered \/ CheckedNeg(amount) = None
      THEN Refuse(amount \in 0..TotalOf(inputs) /\ TotalOf(inputs) <= NoteMax)
      ELSE Transact(u, inputs, outs, -amount, "wallet", shape, drawn, seen)

(* transfer *)
Transfer(u, inputs, outputs, shape, next, seen) ==
  Transact(u, inputs, outputs, 0, "pool", shape, next, seen)

-----------------------------------------------------------------------------
(* The requests a client may make. *)

Depth == 3
SmtDepth == 2
GoodShape == [treeDepth |-> Depth, smtDepth |-> SmtDepth, membershipPath |-> Depth,
              siblings |-> SmtDepth, inputPath |-> Depth]
Shapes == {GoodShape} \union
  {[GoodShape EXCEPT !.treeDepth = 0], [GoodShape EXCEPT !.smtDepth = 0],
   [GoodShape EXCEPT !.membershipPath = Depth - 1], [GoodShape EXCEPT !.siblings = 0],
   [GoodShape EXCEPT !.inputPath = Depth + 1]}

Recipients(u) == {SelfKeys} \union {KeysFor(v) : v \in Users \ {u}}
HalfKeys(u) == {[KeysFor(v) EXCEPT !.note = None] : v \in Users \ {u}}
                 \union {[KeysFor(v) EXCEPT !.enc = None] : v \in Users \ {u}}

(* Callers draw their outputs' blindings too: fresh, fresh + 1, ... *)
OutputLists(u) ==
  LET amounts == NoteAmounts
  IN  {<<>>}
      \union {<<Output(a, fresh, k)>> : a \in amounts, k \in Recipients(u) \union HalfKeys(u)}
      \union {<<Output(a, fresh, k), Output(b, fresh + 1, l)>> :
                a, b \in amounts, k, l \in Recipients(u)}
      \union {[i \in 1..(N_OUTPUTS + 1) |-> Output(0, fresh + i - 1, SelfKeys)]}

(* What a client may have read: any tree the pool has had, with the ASP     *)
(* roots of now, or the tree of now with one ASP root that has changed.     *)
View(size, membership, nonMembership) ==
  [size |-> size, membership |-> membership, nonMembership |-> nonMembership]
Views ==
  {View(k, "current", "current") : k \in {n \in 0..Len(leaves) : n % N_OUTPUTS = 0}}
    \union {View(Len(leaves), "past", "current"), View(Len(leaves), "current", "past")}

InputLists(u, seen) ==
  LET notes == {n \in Discovered(u) : n.index < seen.size}
  IN  {<<>>} \union {<<n>> : n \in notes}
      \union {p \in {<<n, m>> : n, m \in notes} : p[1].index <= p[2].index}
      \union {[i \in 1..(N_INPUTS + 1) |-> n] : n \in notes}

(* Negative amounts, i128::MIN among them, are tried as well. *)
Requested == ExtAmounts \union {-1, -ExtMax - 1}

NextBlinding(outputs) == fresh + Len(outputs)

DoDeposit ==
  \E u \in Users, seen \in Views : \E amount \in Requested, outputs \in OutputLists(u) :
    Deposit(u, amount, outputs, GoodShape, NextBlinding(outputs), seen)

DoMalformed ==
  \E u \in Users, seen \in Views, shape \in Shapes \ {GoodShape} :
    Deposit(u, 0, <<>>, shape, fresh, seen)

DoWithdraw ==
  \E u \in Users, seen \in Views : \E amount \in Requested, inputs \in InputLists(u, seen) :
    \/ Withdraw(u, amount, inputs, None, GoodShape, fresh, seen)
    \/ \E outputs \in {o \in OutputLists(u) : Len(o) = 1} :
         Withdraw(u, amount, inputs, Some(outputs), GoodShape, NextBlinding(outputs), seen)

DoTransfer ==
  \E u \in Users, seen \in Views : \E inputs \in InputLists(u, seen), outputs \in OutputLists(u) :
    Transfer(u, inputs, outputs, GoodShape, NextBlinding(outputs), seen)

FlowsInit ==
  /\ leaves = <<>> /\ boxes = <<>> /\ minted = <<>>
  /\ spent = {} /\ balance = 0
  /\ outcome = [built |-> FALSE, accepted |-> FALSE, well |-> FALSE, cause |-> FALSE]

FlowsNext ==
  /\ Len(leaves) < MaxLeaves
  /\ DoDeposit \/ DoMalformed \/ DoWithdraw \/ DoTransfer

FlowsSpec == FlowsInit /\ [][FlowsNext]_flowVars

-----------------------------------------------------------------------------
(* Properties *)

(* What transact builds is accepted by the circuit and by the pool, unless  *)
(* the caller reused a note, asked for more than the deposit cap or built   *)
(* from roots that are out of date: the prover's commitments, nullifiers,   *)
(* public amount and extData hash are the ones that the circuit and the     *)
(* contract compute for themselves.  For those causes it is refused.        *)
BuiltIsAccepted == outcome.built => (outcome.accepted <=> ~outcome.cause)

(* transact builds the requests that balance in the integers, fit the types *)
(* and are well formed, and no others.                                      *)
BuiltWhenWell == outcome.built <=> outcome.well

(* Every note of value is found by the account it was made for, and by no   *)
(* other: commitment and ciphertext are addressed to the same account.      *)
NotesRecoverable ==
  \A i \in DOMAIN minted : minted[i].amount # 0 =>
    \A u \in Users : (\E n \in Discovered(u) : n.index = i - 1 /\ n.amount = minted[i].amount)
                       <=> u = minted[i].to

(* The notes that the wallets still hold as unspent, by the nullifiers they *)
(* derived on discovery, are worth exactly what the pool holds.             *)
ValueConserved ==
  balance = MapThenSumSet(LAMBDA u : MapThenSumSet(LAMBDA n : n.amount, Unspent(u)), Users)

\* A flow builds a transaction exactly for the requests that are well formed,
\* and the circuit and the pool accept what it built exactly when nothing the
\* client could not decide stands against it: a note used before, a root out
\* of date, a deposit above the cap.
FlowsDecide == BuiltIsAccepted /\ BuiltWhenWell

\* Every note a transaction creates is found by its owner with its full value,
\* and its spend is recognised.
NotesFound == NotesRecoverable /\ ValueConserved
=============================================================================
