------------------------------ MODULE Signing ------------------------------
(***************************************************************************)
(* How a contract call becomes a signed Stellar transaction: the sequence  *)
(* number, the raw envelope, the merge of the simulation's result, the     *)
(* signatures on Soroban authorization entries and the signature on the    *)
(* envelope.  Operators only; Session runs them one by one.                *)
(*                                                                         *)
(* A signature is the record of who signed what.  The network passphrase   *)
(* is one and the same for every signature and is left out.                *)
(***************************************************************************)
EXTENDS Integers, Sequences, FiniteSets, SequencesExt

CONSTANTS
    User,           \* the account that transacts
    AuthExpiration, \* AUTH_EXPIRATION_LEDGERS (100)
    MaxU32,         \* the largest ledger number and fee
    MaxSequence,    \* the largest sequence number (i64)
    BaseFee         \* BASE_FEE

ASSUME SigningAssumption ==
    /\ {AuthExpiration, MaxU32, MaxSequence, BaseFee} \subseteq Nat
    /\ BaseFee <= MaxU32
    /\ User \notin {"source", "nobody", "stranger"}

Unsigned == [publicKey |-> "nobody", key |-> "nobody", nonce |-> 0, expiration |-> 0]

\* An authorization entry of the simulation: on behalf of the transaction's
\* source account ("source"), or of an address that signs for itself.
Entry(cred, nonce) ==
    [cred |-> cred, nonce |-> nonce, expiration |-> 0, signature |-> Unsigned]

HasNextSequence(current) == current < MaxSequence
NextSequence(current) == current + 1

BuildInvokeContractTx(sequence, call) ==
    [sequence |-> sequence, fee |-> BaseFee, call |-> call, auth |-> <<>>, signers |-> <<>>]

\* What assemble_soroban_transaction and from_simulation refuse: a failed
\* simulation, a fee or a ledger number beyond 32 bits, an operation that has
\* authorization entries already.
Assembles(raw, sim) ==
    /\ ~sim.error
    /\ sim.minResourceFee <= MaxU32
    /\ raw.fee + sim.minResourceFee <= MaxU32
    /\ sim.latest <= MaxU32
    /\ raw.auth = <<>>

AssembleSorobanTransaction(raw, sim) ==
    [raw EXCEPT !.fee = @ + sim.minResourceFee, !.auth = sim.auth]

\* PreparedSorobanTx.
FromSimulation(raw, sim) ==
    [tx |-> AssembleSorobanTransaction(raw, sim), entries |-> sim.auth, latest |-> sim.latest]

\* saturating_add
AuthExpirationLedger(prepared) ==
    IF prepared.latest + AuthExpiration > MaxU32 THEN MaxU32
                                                 ELSE prepared.latest + AuthExpiration

NeedsWalletAuth(entry) == entry.cred = User /\ entry.signature = Unsigned

SorobanAuthPreimage(entry, expiration) ==
    [nonce |-> entry.nonce, expiration |-> expiration]

\* The entries the wallet is asked to sign.
AuthIndices(prepared) ==
    {i \in DOMAIN prepared.entries : NeedsWalletAuth(prepared.entries[i])}

\* One step for each of them, in their order.
AuthSignSteps(prepared) ==
    [k \in 1 .. Cardinality(AuthIndices(prepared)) |->
        LET i == CHOOSE i \in AuthIndices(prepared) :
                     Cardinality({j \in AuthIndices(prepared) : j < i}) = k - 1
        IN  [index |-> i,
             preimage |-> SorobanAuthPreimage(prepared.entries[i],
                                              AuthExpirationLedger(prepared))]]

SignPreimage(preimage) ==
    [key |-> User, nonce |-> preimage.nonce, expiration |-> preimage.expiration]

\* The signature with the public key that is to verify it.
AddressCredentialsSignature(publicKey, signature) ==
    [publicKey |-> publicKey, key |-> signature.key, nonce |-> signature.nonce,
     expiration |-> signature.expiration]

ApplyAddressAuthSignature(entry, signature, expiration) ==
    [entry EXCEPT !.expiration = expiration,
                  !.signature = AddressCredentialsSignature(User, signature)]

\* What unsigned_tx_for_signing refuses: an entry without its signature, a
\* signature no entry asked for.
SignaturesFit(prepared, signatures) ==
    DOMAIN signatures = AuthIndices(prepared)

\* All entries of the operation are replaced.
PatchAuthEntries(tx, entries) == [tx EXCEPT !.auth = entries]

UnsignedTxForSigning(prepared, signatures) ==
    PatchAuthEntries(prepared.tx,
        [i \in DOMAIN prepared.entries |->
            IF i \in DOMAIN signatures
            THEN ApplyAddressAuthSignature(prepared.entries[i], signatures[i],
                                           AuthExpirationLedger(prepared))
            ELSE prepared.entries[i]])

\* The envelope's hash covers everything but its signatures.
SignTransaction(envelope, signer) == [envelope EXCEPT !.signers = Append(@, signer)]

\* LocalSigner::sign_prepared_transaction: every entry and the envelope with
\* one secret key, which must be the user's.
SignPreparedTransaction(prepared, key) ==
    LET steps == AuthSignSteps(prepared)
        signatures == [i \in {steps[k].index : k \in DOMAIN steps} |->
            SignPreimage((CHOOSE s \in Range(steps) : s.index = i).preimage)]
    IN  SignTransaction(UnsignedTxForSigning(prepared, signatures), key)

\* The network's check of one signature of an envelope, which verify_tx makes
\* too.
VerifyTx(envelope, signer, i) == i \in DOMAIN envelope.signers /\ envelope.signers[i] = signer

\* An entry the network accepts at the given ledger.
EntryAuthorised(entry, ledger) ==
    \/ entry.cred = "source"
    \/ /\ entry.signature.publicKey = entry.cred
       /\ entry.signature.key = entry.cred
       /\ entry.signature.nonce = entry.nonce
       /\ entry.signature.expiration = entry.expiration
       /\ ledger <= entry.expiration
=============================================================================
