-------------------------------- MODULE Notes --------------------------------
(***************************************************************************)
(* The cryptographic vocabulary of a note, shared by the wallet, the       *)
(* prover and the circuits: keys derived from one wallet signature,        *)
(* commitments, nullifiers, ASP leaves and encrypted outputs.              *)
(*                                                                         *)
(* A hash is an injective term that keeps its domain tag and its inputs in *)
(* order, so that two parties agree on a hash exactly when they computed   *)
(* it with the same tag from the same inputs in the same order: that       *)
(* agreement is what the modules that use this one check.  Collisions and  *)
(* preimages are outside the model.                                        *)
(***************************************************************************)
EXTENDS Integers, Sequences

(* Rust's Option is a set of at most one element. *)
None == {}
Some(x) == {x}

(* Poseidon2 with two and three inputs and a domain tag. *)
Poseidon2Hash2(a, b, domain) == <<domain, a, b>>
Poseidon2Hash3(a, b, c, domain) == <<domain, a, b, c>>

-----------------------------------------------------------------------------
(* Keys derived from the wallet's signature of KEY_DERIVATION_MESSAGE.  Each *)
(* derivation hashes the signature under a tag of its own; only the         *)
(* membership blinding depends on the network.                              *)

HashSignatureWithDomain(signature, domain) == <<domain, signature>>
HashSignatureWithContext(signature, domain, context) == <<domain, 0, context, 0, signature>>

NotePrivateKey(signature) == HashSignatureWithDomain(signature, "note-key")
EncryptionPrivateKey(signature) == HashSignatureWithDomain(signature, "encryption-key")
EncryptionPublicKey(private) == <<"x25519", private>>
MembershipBlinding(signature, network) ==
  HashSignatureWithContext(signature, "asp-secret", network)

DerivePublicKey(private) == Poseidon2Hash2(private, 0, 3)

(* derive_encryption_and_note_keypairs *)
Keys(signature) ==
  LET note == NotePrivateKey(signature)
      enc  == EncryptionPrivateKey(signature)
  IN  [notePrivate |-> note, notePublic |-> DerivePublicKey(note),
       encPrivate  |-> enc,  encPublic  |-> EncryptionPublicKey(enc)]

AspMembershipLeaf(notePublic, blinding) == Poseidon2Hash2(notePublic, blinding, 1)

-----------------------------------------------------------------------------
(* Commitment, spend signature and nullifier of a note. *)

ComputeCommitment(amount, public, blinding) == Poseidon2Hash3(amount, public, blinding, 1)
ComputeSignature(private, commitment, path) == Poseidon2Hash3(private, commitment, path, 4)
ComputeNullifier(commitment, path, signature) == Poseidon2Hash3(commitment, path, signature, 2)

(* The circuits' MerkleProof.  A root is the sequence of leaves itself and a *)
(* path that sequence with the note's slot left to be filled in; a path    *)
(* with no such slot leads to a root no tree has.                          *)
MerkleRoot(leaf, index, path) ==
  IF index + 1 \in DOMAIN path THEN [path EXCEPT ![index + 1] = leaf] ELSE <<>>

-----------------------------------------------------------------------------
(* Encrypted outputs: a box that only the holder of the private half of the *)
(* recipient key opens; anyone else gets nothing, not an error.             *)

EncryptNoteData(recipient, plaintext) == [to |-> recipient, plaintext |-> plaintext]
DecryptNoteData(private, box) ==
  IF EncryptionPublicKey(private) = box.to THEN Some(box.plaintext) ELSE None

EncryptOutputNote(recipient, amount, blinding) ==
  EncryptNoteData(recipient, <<amount, blinding>>)
DecryptOutputNote(private, box) ==
  {[amount |-> plaintext[1], blinding |-> plaintext[2]] :
     plaintext \in DecryptNoteData(private, box)}

(* What an account makes of one commitment row: nothing, or the note with   *)
(* the nullifier that will announce its spending.                           *)
TryDecryptAndDerive(keys, commitment, leafIndex, box) ==
  LET spendable(plain) ==
        /\ plain.amount # 0
        /\ ComputeCommitment(plain.amount, keys.notePublic, plain.blinding) = commitment
      expected == ComputeNullifier(commitment, leafIndex,
                    ComputeSignature(keys.notePrivate, commitment, leafIndex))
  IN  {[amount |-> plain.amount, blinding |-> plain.blinding,
        index |-> leafIndex, nullifier |-> expected] :
         plain \in {p \in DecryptOutputNote(keys.encPrivate, box) : spendable(p)}}
=============================================================================
