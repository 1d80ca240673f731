----------------------------- MODULE Disclosure -----------------------------
(***************************************************************************)
(* Selective disclosure: a wallet proves to an authority that it owns a    *)
(* note of a pool, bound to a context (network, pool, authority, purpose,  *)
(* nonce), and anyone verifies the receipt later.                          *)
(*                                                                         *)
(* The client runs the generation and the verification as sequences of     *)
(* awaits, so the pool, the local mirror and the prover worker move        *)
(* between two steps of either.  The pool appends one leaf per transaction *)
(* here; a transaction may spend a note.  A root is the sequence of leaves *)
(* (Notes), a proof the record of the public inputs it was made for, under *)
(* the key it was made with.                                               *)
(***************************************************************************)
EXTENDS Notes, FiniteSets, FiniteSetsExt, SequencesExt

CONSTANTS
  Account,       \* the account whose keys the local store holds
  Other,         \* another account, unknown to the local store
  Start,         \* per enabled pool, the transactions before the run begins
  MaxTx,         \* bound on the transactions of a pool
  RootHistory,   \* roots the pool remembers
  Purposes,      \* purposes a disclosure may state
  MaxReceipts    \* bound on the receipts of this wallet

ASSUME DisclosureAssumption ==
  /\ Account # Other /\ RootHistory \in Nat \ {0} /\ MaxReceipts \in Nat
  /\ MaxTx \in Nat
  /\ Start \in [DOMAIN Start -> Seq([owner : {Account, Other}, spends : Nat])]

VARIABLES
  chain,         \* per pool, the transactions: the owner of the new leaf and the leaf spent
  mirror,        \* per pool, how many transactions' rows the local store has saved
  marked,        \* per pool, of how many it has derived the notes and marked the spends
  worker,        \* the prover worker: loading, ready or failed
  gen,           \* the generation under way
  receipts,      \* receipts handed out
  ver,           \* the verification under way
  report         \* the report just delivered, with what was presented

storeVars == <<mirror, marked>>
disclosureVars == <<chain, storeVars, worker, gen, receipts, ver, report>>

Pools == DOMAIN Start
Vk == "vk"                    \* hash of the verifying key in the build
Version == 1
CircuitName == "selectiveDisclosure_1"
Idle == [phase |-> "idle"]

(* A report is seen in the state in which it is delivered. *)
NoReport == report' = [kind |-> "none"]

-----------------------------------------------------------------------------
(* The pool. *)

Commitment(p, i) ==
  ComputeCommitment(1, Keys(chain[p][i].owner).notePublic, <<p, i>>)
LeavesUpTo(p, n) == [i \in 1..n |-> Commitment(p, i)]
SpentBy(p, n) == {chain[p][i].spends : i \in 1..n}

(* is_known_root: the pool keeps the last RootHistory roots. *)
IsKnownRoot(p, root) ==
  LET n == Len(chain[p])
      first == IF n < RootHistory THEN 0 ELSE n - RootHistory + 1
  IN  \E k \in first..n : root = LeavesUpTo(p, k)

(* A transaction of anyone: it appends a leaf and may spend an earlier one. *)
PoolTransact ==
  \E p \in Pools, o \in {Account, Other} :
    \E s \in {0} \union (DOMAIN chain[p] \ SpentBy(p, Len(chain[p]))) :
      /\ Len(chain[p]) < MaxTx
      /\ chain' = [chain EXCEPT ![p] = Append(@, [owner |-> o, spends |-> s])]
      /\ UNCHANGED <<storeVars, worker, gen, receipts, ver>> /\ NoReport

(* The indexer stores the next events, and the processor their rows: leaf   *)
(* and nullifier.  The event listener may return for good, and a row may be *)
(* refused: nothing makes the store catch up.                               *)
SaveRows ==
  \E p \in Pools :
    /\ mirror[p] < Len(chain[p])
    /\ mirror' = [mirror EXCEPT ![p] = @ + 1]
    /\ UNCHANGED <<chain, marked, worker, gen, receipts, ver>> /\ NoReport

(* Later transactions of the processor derive the user's notes from the     *)
(* rows and mark the spent ones (LocalStore has them one by one).  A crash  *)
(* may come first, and a note that fails to derive stops them for good.     *)
ProcessNotes ==
  \E p \in Pools :
    /\ marked[p] < mirror[p]
    /\ marked' = [marked EXCEPT ![p] = @ + 1]
    /\ UNCHANGED <<chain, mirror, worker, gen, receipts, ver>> /\ NoReport

-----------------------------------------------------------------------------
(* The prover worker loads the four circuit files once, checks the length   *)
(* and the hash of each, and sets its cells together; a failure is logged.  *)

LoadCircuitArtifacts ==
  /\ worker = "loading"
  /\ worker' \in {"ready", "failed"}
  /\ UNCHANGED <<chain, storeVars, gen, receipts, ver>> /\ NoReport

(* The page is reloaded: a new worker, and whatever was under way is gone. *)
Reload ==
  /\ worker = "failed" \/ gen # Idle
  /\ worker' = "loading" /\ gen' = Idle /\ ver' = Idle
  /\ UNCHANGED <<chain, storeVars, receipts>> /\ NoReport

-----------------------------------------------------------------------------
(* Contexts and receipts. *)

Fields == {"network", "pool_address", "authority_label", "authority_identity_payload_hex",
           "purpose", "context_nonce"}
Context(p, purpose) ==
  [network |-> "testnet", pool_address |-> p, authority_label |-> "authority",
   authority_identity_payload_hex |-> "0x01", purpose |-> purpose, context_nonce |-> 7]

(* DisclosureContext::validate *)
ContextValid(c) == \A f \in Fields \ {"context_nonce"} : c[f] # ""

(* Mutant: the purpose is left out of the hash. *)
DeriveExtContextHashNoPurpose(c) ==
  <<"disclosure-context-v1", c.network, c.pool_address, c.authority_label,
    c.authority_identity_payload_hex, c.context_nonce>>

(* derive_ext_context_hash: every field, each with its length. *)
DeriveExtContextHash(c) ==
  <<"disclosure-context-v1", c.network, c.pool_address, c.authority_label,
    c.authority_identity_payload_hex, c.purpose, c.context_nonce>>

(* The circuit: the commitment of the opened note is the one disclosed and  *)
(* a leaf of the tree with that root.  The context hash is only bound.      *)
CircuitHolds(pub, in) ==
  LET c == ComputeCommitment(in.amount, DerivePublicKey(in.privateKey), in.blinding)
  IN  /\ pub.noteCommitments = <<c>>
      /\ pub.roots = <<MerkleRoot(c, in.index, in.path)>>

(* The public inputs in the order of the circuit: the prover takes them     *)
(* from the witness, the verifier from the receipt.                         *)
ExtractPublicInputs(pub) == pub.roots \o pub.noteCommitments \o <<pub.extContextHash>>
PublicInputsBytes(r) == r.public.roots \o r.public.noteCommitments \o <<r.public.extContextHash>>

(* A proof holds for the public inputs it was made for. *)
ProofOf(vk, pub) == [vk |-> vk, inputs |-> ExtractPublicInputs(pub)]
ProofVerifies(vk, proof, inputs) == proof = [vk |-> vk, inputs |-> inputs]

(* selective_disclosure_1: the public half of the circuit's inputs. *)
SelectiveDisclosure1(in, hash) ==
  [roots |-> <<in.root>>, noteCommitments |-> <<in.commitment>>, extContextHash |-> hash]

Receipt(p, purpose, in, vk) ==
  LET c   == Context(p, purpose)
      pub == SelectiveDisclosure1(in, DeriveExtContextHash(c))
  IN  [version |-> Version, name |-> CircuitName, vk_hash |-> vk,
       context |-> c, public |-> pub, proof |-> ProofOf(vk, pub)]

-----------------------------------------------------------------------------
(* Generation.  It and a verification share the worker alone, so one is    *)
(* under way at a time here.                                                *)

GenerateSelectiveDisclosure ==
  \E u \in {Account, Other}, p \in Pools, purpose \in Purposes \union {""} :
    \E i \in DOMAIN chain[p] :
      /\ gen = Idle /\ ver = Idle
      /\ Cardinality({x \in receipts : x.honest}) < MaxReceipts
      /\ gen' = [phase |-> "fetch", user |-> u, pool |-> p, purpose |-> purpose,
                 commitment |-> Commitment(p, i)]
      /\ UNCHANGED <<chain, storeVars, worker, receipts, ver>> /\ NoReport

GenEnds == gen' = Idle /\ UNCHANGED <<chain, storeVars, worker, receipts, ver>> /\ NoReport

(* contracts_data_for_pool: the number of leaves and the index of the       *)
(* current root are read first, the root at that index and the index again  *)
(* in a second read, which starts over when the index has moved: a whole    *)
(* turn of the ring goes unnoticed.                                         *)
FetchNextIndex ==
  /\ gen.phase = "fetch"
  /\ gen' = [phase |-> "root", user |-> gen.user, pool |-> gen.pool, purpose |-> gen.purpose,
             commitment |-> gen.commitment, next |-> Len(chain[gen.pool])]
  /\ UNCHANGED <<chain, storeVars, worker, receipts, ver>> /\ NoReport

Refetch == [phase |-> "fetch", user |-> gen.user, pool |-> gen.pool, purpose |-> gen.purpose,
            commitment |-> gen.commitment]

FetchRoot ==
  LET now == Len(chain[gen.pool])
  IN  /\ gen.phase = "root"
      /\ gen' = IF (now - gen.next) % RootHistory # 0 THEN Refetch
                ELSE [phase |-> "load", user |-> gen.user, pool |-> gen.pool,
                      purpose |-> gen.purpose, commitment |-> gen.commitment,
                      next |-> gen.next, root |-> LeavesUpTo(gen.pool, now)]
      /\ UNCHANGED <<chain, storeVars, worker, receipts, ver>> /\ NoReport

(* A read fails, or the third attempt still finds the index moved. *)
FetchFails == gen.phase \in {"fetch", "root"} /\ GenEnds

(* build_validated_pool_tree *)
BuildValidatedPoolTree(p, next, root) ==
  IF mirror[p] # next THEN "SyncRequired"
  ELSE IF LeavesUpTo(p, mirror[p]) # root THEN "mismatch" ELSE "tree"

(* get_unspent_user_note_by_commitment: a derived note not marked as spent. *)
UnspentUserNote(u, p, c) ==
  {i \in 1..marked[p] : /\ Commitment(p, i) = c /\ chain[p][i].owner = u
                        /\ i \notin SpentBy(p, marked[p])}

(* The worker's answer: inputs, a request to wait, or an error. *)
DisclosureInputs ==
  LET p     == gen.pool
      tree  == BuildValidatedPoolTree(p, gen.next, gen.root)
      notes == UnspentUserNote(gen.user, p, gen.commitment)
      path  == LeavesUpTo(p, mirror[p])
  IN  /\ gen.phase = "load"
      /\ \/ /\ gen.user = Account /\ tree = "SyncRequired"
            /\ gen' = Refetch
         \/ /\ \/ gen.user # Account
               \/ tree = "mismatch"
               \/ tree = "tree" /\ notes = {}
            /\ gen' = Idle
         \/ /\ gen.user = Account /\ tree = "tree"
            /\ \E i \in notes :
                 gen' = [phase |-> "prove", pool |-> p, purpose |-> gen.purpose,
                         next |-> gen.next, known |-> marked[p],
                         inputs |-> [root |-> MerkleRoot(gen.commitment, i - 1, path),
                                     commitment |-> gen.commitment, amount |-> 1,
                                     privateKey |-> Keys(gen.user).notePrivate,
                                     blinding |-> <<p, i>>, index |-> i - 1, path |-> path]]
      /\ UNCHANGED <<chain, storeVars, worker, receipts, ver>> /\ NoReport

(* with_timeout around the storage worker: five seconds. *)
StorageTimesOut == gen.phase = "load" /\ GenEnds

(* Ping and the Disclosure request.  The worker derives the hash from the   *)
(* context, which must be valid, computes the witness, proves and checks    *)
(* its own proof.                                                           *)
ProveDisclosure ==
  LET r == Receipt(gen.pool, gen.purpose, gen.inputs, Vk)
  IN  /\ gen.phase = "prove" /\ worker = "ready"
      /\ gen' = Idle
      /\ receipts' = IF ContextValid(r.context) /\ CircuitHolds(r.public, gen.inputs)
                     THEN receipts \union {[r |-> r, at |-> gen.next, known |-> gen.known, honest |-> TRUE]}
                     ELSE receipts
      /\ UNCHANGED <<chain, storeVars, worker, ver>> /\ NoReport

(* Mutant: the client waits for the worker without a limit. *)
PingTimesOutNever(phase) == FALSE

(* ping_prover gives up after five seconds, a request after twenty. *)
PingTimesOut(phase) == phase = "prove"

ProverTimesOut == PingTimesOut(gen.phase) /\ GenEnds

(* The circuit takes any tree, so a receipt can exist whose root no pool    *)
(* ever had: one made by another client, or on another deployment.          *)
ProveElsewhere ==
  \E p \in Pools :
    LET purpose == CHOOSE x \in Purposes : TRUE
        c  == ComputeCommitment(1, Keys(Other).notePublic, <<p, 0>>)
        in == [root |-> <<c>>, commitment |-> c]
    IN  /\ receipts = {}
        /\ gen = Idle /\ ver = Idle
        /\ receipts' = receipts \union {[r |-> Receipt(p, purpose, in, Vk), at |-> 0, known |-> 0, honest |-> FALSE]}
        /\ UNCHANGED <<chain, storeVars, worker, gen, ver>> /\ NoReport

-----------------------------------------------------------------------------
(* Verification: any receipt, with at most one part replaced by something   *)
(* else or by the same part of another receipt.                             *)

Contexts == {Context(p, purpose) : p \in Pools \union {"unknown_pool"}, purpose \in Purposes}
Issued == {x.r : x \in receipts}

Presentable ==
  UNION {{r, [r EXCEPT !.version = 2], [r EXCEPT !.name = "other"], [r EXCEPT !.vk_hash = "other"],
          [r EXCEPT !.public.roots = <<>>]}
         \union {[r EXCEPT !.context = c] : c \in Contexts}
         \union {[r EXCEPT !.context.network = "mainnet"], [r EXCEPT !.context.purpose = ""]}
         \union {[r EXCEPT !.public.roots = q.public.roots] : q \in Issued}
         \union {[r EXCEPT !.public.noteCommitments = q.public.noteCommitments] : q \in Issued}
         \union {[r EXCEPT !.public.extContextHash = q.public.extContextHash] : q \in Issued}
         \union {[r EXCEPT !.proof = q.proof] : q \in Issued} : r \in Issued}

(* DisclosureReceipt::validate *)
ReceiptValid(r) ==
  /\ r.version = Version /\ ContextValid(r.context)
  /\ Len(r.public.roots) = 1 /\ Len(r.public.noteCommitments) = 1

(* The receipt names the registered circuit and the expected key. *)
ValidateReceipt(r, expected) == ReceiptValid(r) /\ r.vk_hash = expected
FindCircuit(name) == name = CircuitName
ValidateRegisteredReceipt(r, expected) == FindCircuit(r.name) /\ ValidateReceipt(r, expected)

(* The key that the verifier loaded is the one expected. *)
ValidateVerifyingKeyHash(expected) == Vk = expected

(* The worker validates the receipt, and checks the proof only under a key  *)
(* whose hash is the expected one; this far the answer depends on nothing   *)
(* that changes.                                                            *)
VerifySelectiveDisclosure ==
  \E r \in Presentable, expected \in {Vk, "other"} :
    /\ ver = Idle /\ gen = Idle /\ worker = "ready"
    /\ expected = Vk \/ r \in Issued
    /\ IF ValidateVerifyingKeyHash(expected) /\ ValidateRegisteredReceipt(r, expected)
       THEN /\ ver' = [phase |-> "roots", r |-> r,
                       proof_verified |-> ProofVerifies(Vk, r.proof, PublicInputsBytes(r))]
            /\ NoReport
       ELSE report' = [kind |-> "error"] /\ UNCHANGED ver
    /\ UNCHANGED <<chain, storeVars, worker, gen, receipts>>

(* The roots are looked up in the pool that the receipt's own context names. *)
KnownRootStatus(r) ==
  \A i \in DOMAIN r.public.roots : IsKnownRoot(r.context.pool_address, r.public.roots[i])

VerifyReceiptContext(r) == DeriveExtContextHash(r.context) = r.public.extContextHash

ReportOf(r, proofVerified) ==
  [kind |-> "report", r |-> r, proof_verified |-> proofVerified,
   known_root_status |-> KnownRootStatus(r), context_verified |-> VerifyReceiptContext(r)]

(* The root lookup, which fails for a pool that is not configured, and then *)
(* the context, in one step: nothing is awaited between them.               *)
VerifyRootsAndContext ==
  /\ ver.phase = "roots"
  /\ \/ /\ ver.r.context.pool_address \notin Pools
        /\ report' = [kind |-> "error"]
     \/ /\ ver.r.context.pool_address \in Pools
        /\ report' = ReportOf(ver.r, ver.proof_verified)
  /\ ver' = Idle /\ UNCHANGED <<chain, storeVars, worker, gen, receipts>>

(* is_fully_verified *)
Full(rep) ==
  rep.kind = "report" /\ rep.proof_verified /\ rep.context_verified /\ rep.known_root_status

-----------------------------------------------------------------------------
DisclosureInit ==
  /\ chain = Start /\ mirror = [p \in Pools |-> Len(Start[p])]
  /\ marked = mirror
  /\ worker = "loading" /\ gen = Idle /\ ver = Idle
  /\ receipts = {} /\ report = [kind |-> "none"]

DisclosureNext ==
  \/ PoolTransact \/ SaveRows \/ ProcessNotes
  \/ LoadCircuitArtifacts \/ Reload
  \/ GenerateSelectiveDisclosure \/ FetchNextIndex \/ FetchRoot \/ FetchFails
  \/ DisclosureInputs \/ StorageTimesOut \/ ProveDisclosure \/ ProverTimesOut
  \/ ProveElsewhere
  \/ VerifySelectiveDisclosure \/ VerifyRootsAndContext

(* Fairness: the browser runs the pending continuations and timers of the   *)
(* page.  The pool owes nothing, nor does the store: its listener may have  *)
(* returned, and its processing may fail for good.                          *)
DisclosureFairness ==
  /\ WF_disclosureVars(LoadCircuitArtifacts)
  /\ WF_disclosureVars(FetchNextIndex)
  /\ WF_disclosureVars(FetchRoot)
  /\ WF_disclosureVars(DisclosureInputs)
  /\ WF_disclosureVars(ProveDisclosure)
  /\ WF_disclosureVars(ProverTimesOut)

DisclosureSpec == DisclosureInit /\ [][DisclosureNext]_disclosureVars /\ DisclosureFairness

-----------------------------------------------------------------------------
(* Properties *)


(* A fully verified report is about a receipt exactly as it was issued, up  *)
(* to its date: no part of it - context, root, commitment, key - can come   *)
(* from another receipt or be altered.                                      *)
VerifiedAsIssued == Full(report) => report.r \in Issued

(* ... and the disclosed commitment is a leaf of the pool that the context  *)
(* names.                                                                   *)
VerifiedNoteInPool ==
  Full(report) =>
    LET p == report.r.context.pool_address
    IN  \E i \in DOMAIN chain[p] : report.r.public.noteCommitments = <<Commitment(p, i)>>

(* A receipt of this wallet is about a note that the account owned in the   *)
(* pool with that root, although the store that chose the note and the      *)
(* chain that gave the root were read at different times.  The note was     *)
(* unspent there as far as the store had processed notes: at that very root *)
(* when it had caught up, and at an earlier one when notes lagged behind    *)
(* the leaves.                                                              *)
IssuedWhileUnspent ==
  \A x \in receipts : x.honest =>
    LET p == x.r.context.pool_address
    IN  /\ x.r.public.roots = <<LeavesUpTo(p, x.at)>>
        /\ \E i \in 1..x.known : /\ x.r.public.noteCommitments = <<Commitment(p, i)>>
                                 /\ chain[p][i].owner = Account
                                 /\ i \notin SpentBy(p, x.known)
        /\ x.known <= x.at

(* An unaltered receipt of this wallet fails to verify only because its     *)
(* root has left the pool's history, never for its proof or its context.    *)
HonestFailsOnlyByAge ==
  (report.kind = "report" /\ report.r \in {x.r : x \in {y \in receipts : y.honest}}) =>
    /\ report.proof_verified /\ report.context_verified
    /\ ~report.known_root_status => ~IsKnownRoot(report.r.context.pool_address, report.r.public.roots[1])

(* A generation comes to an end: with a receipt, a refusal or an error,     *)
(* also when the worker never finished loading.  Only a store that stays    *)
(* behind the pool for ever keeps it waiting: the client then asks it again *)
(* and again.                                                               *)
StoreBehind == gen # Idle /\ mirror[gen.pool] < Len(chain[gen.pool])
GenerationEnds == (gen # Idle) ~> (gen = Idle \/ []StoreBehind)

\* A receipt means what it says: it is issued only for a note that was unspent
\* as far as the store knew, verifies only as issued and for a note of the
\* pool, and an honest one fails only by age.
ReceiptsSound ==
  VerifiedAsIssued /\ VerifiedNoteInPool /\ IssuedWhileUnspent /\ HonestFailsOnlyByAge
=============================================================================
