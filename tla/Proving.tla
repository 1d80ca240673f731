------------------------------ MODULE Proving ------------------------------
(***************************************************************************)
(* From a transaction's values to a proof the pool accepts: the R1CS file  *)
(* and the proving key are loaded, the witness is computed from the named  *)
(* circuit inputs, the proof is made, checked locally and turned into the  *)
(* contract's byte layout, and the pool hands it with its own copy of the  *)
(* public values to the Groth16 verifier contract.                         *)
(*                                                                         *)
(* A group element is its logarithm modulo the group's order, a pairing a  *)
(* product.  Of the policy circuit only the conservation of value stays:   *)
(* wires 0 (one), 1..11 (public), 12,13 (inAmount), 14,15 (outAmount).     *)
(***************************************************************************)
EXTENDS Encoding, FiniteSets

CONSTANTS
    Amounts,    \* note amounts of the requests
    Exts,       \* sizes of the external amounts of the requests
    Blinds      \* random values of a proof

ASSUME ProvingAssumption ==
    /\ Amounts \subseteq Nat
    /\ Exts \subseteq Nat
    /\ Blinds \subseteq 1 .. (Modulus - 1)

(***************************************************************************)
(* Groups                                                                  *)
(***************************************************************************)
Neg(g) == (Modulus - g) % Modulus
Inverse1(g) == CHOOSE x \in 1 .. (Modulus - 1) : (x * g) % Modulus = 1

\* The product of pairings is one.
PairingCheck(g1, g2) ==
    FoldLeft(LAMBDA acc, i : (acc + g1[i] * g2[i]) % Modulus, 0, [i \in 1 .. Len(g1) |-> i]) = 0

\* A coordinate of a point, in 32 bytes.
Coordinate(g, c) == [point |-> g, coordinate |-> c]
G1BytesUncompressed(g) == <<Coordinate(g, "x"), Coordinate(g, "y")>>
G2BytesUncompressed(g) ==
    <<Coordinate(g, "x.c1"), Coordinate(g, "x.c0"), Coordinate(g, "y.c1"), Coordinate(g, "y.c0")>>
ProofToUncompressedBytes(p) ==
    G1BytesUncompressed(p.a) \o G2BytesUncompressed(p.b) \o G1BytesUncompressed(p.c)

\* How the host reads a point: the imaginary part of a coordinate comes first.
IsG1(bytes) == \A i \in 1 .. 2 : bytes[i] = Coordinate(bytes[1].point, <<"x", "y">>[i])
IsG2(bytes) ==
    \A i \in 1 .. 4 :
        bytes[i] = Coordinate(bytes[1].point, <<"x.c1", "x.c0", "y.c1", "y.c0">>[i])
PointOf(bytes) == bytes[1].point

(***************************************************************************)
(* The circuit and its setup                                               *)
(***************************************************************************)
NumPublic == 11
NumWires == 16
Term(wire) == [wire |-> wire, coefficient |-> 1]
Conservation ==
    [a |-> <<Term(12), Term(13), Term(2)>>, b |-> <<Term(0)>>, c |-> <<Term(14), Term(15)>>]
Circuit == <<Conservation>>

\* The keys of two setups of the same circuit: their points differ.
Setups == {1, 2}
VerifyingKey(setup) ==
    [alpha |-> 3, beta |-> 5, gamma |-> 6 + setup, delta |-> 1 + setup,
     ic |-> [i \in 1 .. NumPublic + 1 |-> i + setup]]

\* Signals in the order in which the circuit declares them.
PublicSignals(c) ==
    <<c.root, c.publicAmount, c.extDataHash>> \o c.inputNullifier \o c.outputCommitment
        \o c.membershipRoots \o c.nonMembershipRoots

(***************************************************************************)
(* R1CS files                                                              *)
(***************************************************************************)
\* sections: the types of the sections, in file order.
File(version, sections, numPublic, numWires, constraints) ==
    [version |-> version, sections |-> sections, fieldSize |-> FieldSize, pubOut |-> 0,
     pubIn |-> numPublic, wires |-> numWires, constraints |-> constraints]

Files ==
    <<File(1, <<1, 2, 3>>, NumPublic, NumWires, Circuit),
      File(1, <<2, 3, 9, 1>>, NumPublic, NumWires, Circuit),
      File(1, <<2, 3>>, NumPublic, NumWires, Circuit),
      File(1, <<1, 3>>, NumPublic, NumWires, Circuit),
      File(2, <<1, 2, 3>>, NumPublic, NumWires, Circuit),
      [File(1, <<1, 2, 3>>, NumPublic, NumWires, Circuit) EXCEPT !.fieldSize = FieldSize + LimbBytes],
      File(1, <<1, 2, 3>>, NumPublic - 1, NumWires, Circuit),
      File(1, <<1, 2, 3>>, NumPublic, NumWires + 1, Circuit),
      File(1, <<1, 2, 3>>, NumPublic, NumWires, <<[Conservation EXCEPT !.b = <<Term(NumWires)>>]>>)>>

HasSection(file, type) == \E i \in DOMAIN file.sections : file.sections[i] = type
Parses(file) == file.version = 1 /\ HasSection(file, 1) /\ file.fieldSize = FieldSize

\* The header may follow the constraints; without constraints there are none.
ParseR1CS(file) ==
    [numWires    |-> file.wires,
     numPublic   |-> file.pubOut + file.pubIn,
     constraints |-> IF HasSection(file, 2) THEN file.constraints ELSE <<>>]

(***************************************************************************)
(* Prover                                                                  *)
(***************************************************************************)
ProverNew(vk, file) == Parses(file) /\ Len(vk.ic) - 1 = ParseR1CS(file).numPublic

\* witness: elements from wire 0, each in 32 little-endian bytes.
Elements(witness) == [i \in DOMAIN witness |-> BytesToPrimeField(witness[i])]

WireIdsInRange(r1cs) ==
    \A k \in DOMAIN r1cs.constraints :
        LET c == r1cs.constraints[k]
            terms == c.a \o c.b \o c.c
        IN \A i \in DOMAIN terms : terms[i].wire < r1cs.numWires

\* generate_constraints: what it refuses.
Synthesizes(r1cs, elements) ==
    /\ Len(elements) > 0
    /\ elements[1] = 1
    /\ r1cs.numPublic + 1 <= r1cs.numWires
    /\ Len(elements) >= r1cs.numWires
    /\ WireIdsInRange(r1cs)

LinearCombination(terms, elements) ==
    FoldLeft(LAMBDA acc, t : (acc + t.coefficient * elements[t.wire + 1]) % Modulus, 0, terms)
Satisfied(constraints, elements) ==
    \A k \in DOMAIN constraints :
        LET c == constraints[k]
        IN  (LinearCombination(c.a, elements) * LinearCombination(c.b, elements)) % Modulus
              = LinearCombination(c.c, elements)

VkX(vk, inputs) ==
    FoldLeft(LAMBDA acc, i : (acc + vk.ic[i + 1] * inputs[i]) % Modulus, vk.ic[1],
             [i \in 1 .. Len(inputs) |-> i])

ProveAccepts(r1cs, witness) ==
    Len(witness) >= r1cs.numWires /\ Synthesizes(r1cs, Elements(witness))

\* A Groth16 proof of the public part of the witness: it verifies when the
\* constraints are the ones of the key's circuit and the witness satisfies them.
ProveWitness(vk, r1cs, witness, blind) ==
    LET elements == Elements(witness)
        inputs   == [i \in 1 .. r1cs.numPublic |-> elements[i + 1]]
        good     == r1cs.constraints = Circuit /\ Satisfied(Circuit, elements)
        rest     == blind * blind + 2 * Modulus * Modulus
                      - vk.alpha * vk.beta - VkX(vk, inputs) * vk.gamma
        c        == (rest * Inverse1(vk.delta)) % Modulus
    IN  [a |-> blind, b |-> blind, c |-> IF good THEN c ELSE (c + 1) % Modulus]

ExtractPublicInputs(r1cs, witness) == SubSeq(witness, 2, r1cs.numPublic + 1)

\* Groth16 verification as arkworks does it: e(A, B) = e(alpha, beta) ...
VerifyLocally(vk, proof, inputBytes) ==
    /\ Len(inputBytes) = Len(vk.ic) - 1
    /\ LET inputs == [i \in DOMAIN inputBytes |-> BytesToPrimeField(inputBytes[i])]
       IN  (proof.a * proof.b) % Modulus
             = (vk.alpha * vk.beta + VkX(vk, inputs) * vk.gamma + proof.c * vk.delta) % Modulus

(***************************************************************************)
(* Witness calculator                                                      *)
(***************************************************************************)
\* A circuit input: hexadecimal text of a number below the modulus.
ToFieldElement(hex) == IF FromBE(hex) < Modulus THEN FromBE(hex) ELSE Refused
FlattenInput(values) == [i \in DOMAIN values |-> ToFieldElement(values[i])]
WitnessToBytes(elements) == [i \in DOMAIN elements |-> ToLE(elements[i], FieldSize)]

\* The compiled circuit computes the wires; it stops when a constraint fails.
\* extra: elements the calculator of another build has more, or less.
CalculateWitness(inputs, extra) ==
    LET wires == <<1>> \o FlattenInput(PublicSignals(inputs))
                   \o FlattenInput(inputs.inAmount) \o FlattenInput(inputs.outAmount)
    IN  IF extra < 0 THEN SubSeq(wires, 1, NumWires - 1)
                     ELSE wires \o [i \in 1 .. extra |-> 0]
WitnessComputed(inputs) ==
    LET wires == CalculateWitness(inputs, 0)
    IN  (\A i \in DOMAIN wires : wires[i] # Refused) /\ Satisfied(Circuit, wires)

(***************************************************************************)
(* The transaction's values                                                *)
(***************************************************************************)
\* Values of the chain and of the notes: all different.
ChainRoots == [pool |-> 741, membership |-> 742, nonMembership |-> 743]
Nullifiers == <<531, 532>>
Commitments == <<633, 634>>
HashExtData(ext) == (300 + ext) % Modulus

\* A value the wallet reads from a contract's state or from an event.
ReadFromChain(v) == TryFromU256(ScvalToU256(FieldToScvalU256(v)))
\* A value the wallet reads back from its database.
ReadFromStore(v) == FieldFromSql(FieldToSql(v))

\* PreparedTx of the flow.
Prepared(request) ==
    [root               |-> ReadFromStore(ReadFromChain(ChainRoots.pool)),
     public_amount      |-> FieldFromExtAmount(request.ext),
     ext_data_hash_be   |-> ToBE(HashExtData(request.ext), FieldSize),
     input_nullifiers   |-> Nullifiers,
     output_commitments |-> Commitments,
     membership         |-> ReadFromChain(ChainRoots.membership),
     nonMembership      |-> ReadFromChain(ChainRoots.nonMembership)]

HexOf(values) == [i \in DOMAIN values |-> FieldToCircuitHex(values[i])]
CircuitInputs(request) ==
    LET p == Prepared(request)
    IN  [root               |-> FieldToCircuitHex(p.root),
         publicAmount       |-> ExtAmountToCircuitHex(request.ext),
         extDataHash        |-> Be32ToHex(p.ext_data_hash_be),
         inputNullifier     |-> HexOf(p.input_nullifiers),
         outputCommitment   |-> HexOf(p.output_commitments),
         membershipRoots    |-> HexOf(<<p.membership, p.membership>>),
         nonMembershipRoots |-> HexOf(<<p.nonMembership, p.nonMembership>>),
         inAmount           |-> HexOf([i \in 1 .. 2 |-> FieldFromNoteAmount(request.ins[i])]),
         outAmount          |-> HexOf([i \in 1 .. 2 |-> FieldFromNoteAmount(request.outs[i])])]

(***************************************************************************)
(* The call of the pool                                                    *)
(***************************************************************************)
\* A value of the worker's answer, read by the page.
FromWorker(v) == FieldFromText(FieldToText(v))
U256Arg(v) == FieldToScvalU256(FromWorker(v))

PoolCall(p, proofBytes, ext) ==
    [a                   |-> SubSeq(proofBytes, 1, 2),
     b                   |-> SubSeq(proofBytes, 3, 6),
     c                   |-> SubSeq(proofBytes, 7, 8),
     root                |-> U256Arg(p.root),
     input_nullifiers    |-> [i \in DOMAIN p.input_nullifiers |-> U256Arg(p.input_nullifiers[i])],
     output_commitment0  |-> U256Arg(p.output_commitments[1]),
     output_commitment1  |-> U256Arg(p.output_commitments[2]),
     public_amount       |-> U256Arg(p.public_amount),
     ext_data_hash       |-> p.ext_data_hash_be,
     membership          |-> U256Arg(p.membership),
     nonMembership       |-> U256Arg(p.nonMembership),
     ext_amount          |-> I128ToI256Scval(ext)]

\* Calls that differ from the wallet's: a value plus the modulus, another
\* value, another order or number, another amount throughout.
U256Fields == {"root", "public_amount", "output_commitment0", "output_commitment1",
               "membership", "nonMembership"}
Changes == {"none", "otherAmount", "swapNullifiers", "swapCommitments", "fewerNullifiers",
            "moreNullifiers", "aliasNullifier", "swapPoints"}
             \cup ({"alias", "other"} \X U256Fields)

Aliased(limbs) == FieldToScvalU256(ScvalToU256(limbs) + Modulus)
Bumped(limbs) == FieldToScvalU256((ScvalToU256(limbs) + 1) % Modulus)

Changed(call, change, ext) ==
    LET n == call.input_nullifiers
    IN CASE change = "none" -> call
         [] change = "otherAmount" ->
              [call EXCEPT !.ext_amount = I128ToI256Scval(ext + 1),
                           !.ext_data_hash = ToBE(HashExtData(ext + 1), FieldSize),
                           !.public_amount = FieldToScvalU256(FieldFromExtAmount(ext + 1))]
         [] change = "swapNullifiers" -> [call EXCEPT !.input_nullifiers = <<n[2], n[1]>>]
         [] change = "swapCommitments" ->
              [call EXCEPT !.output_commitment0 = call.output_commitment1,
                           !.output_commitment1 = call.output_commitment0]
         [] change = "fewerNullifiers" -> [call EXCEPT !.input_nullifiers = <<n[1]>>]
         [] change = "moreNullifiers" -> [call EXCEPT !.input_nullifiers = n \o <<n[1]>>]
         [] change = "aliasNullifier" -> [call EXCEPT !.input_nullifiers = <<Aliased(n[1]), n[2]>>]
         [] change = "swapPoints" -> [call EXCEPT !.a = call.c, !.c = call.a]
         [] OTHER -> IF change[1] = "alias"
                     THEN [call EXCEPT ![change[2]] = Aliased(@)]
                     ELSE [call EXCEPT ![change[2]] = Bumped(@)]

(***************************************************************************)
(* The contracts                                                           *)
(***************************************************************************)
\* The key in the verifier contract's code, and the proof of the call.
PointsReadable(call) == IsG1(call.a) /\ IsG2(call.b) /\ IsG1(call.c)
EmbeddedVk(setup) == VerifyingKey(setup)

VerifyWithVk(vk, call, inputs) ==
    /\ Len(inputs) + 1 = Len(vk.ic)
    /\ PairingCheck(<<Neg(PointOf(call.a)), vk.alpha, VkX(vk, inputs), PointOf(call.c)>>,
                    <<PointOf(call.b), vk.beta, vk.gamma, vk.delta>>)

ValidateWithoutNullifiers(call) == \A f \in U256Fields : IsCanonical(ScvalToU256(call[f]))
ValidateBn256PublicInputs(call) ==
    /\ \A f \in U256Fields : IsCanonical(ScvalToU256(call[f]))
    /\ \A i \in DOMAIN call.input_nullifiers : IsCanonical(ScvalToU256(call.input_nullifiers[i]))

Fr(limbs) == FrFromBytes(U256ToBytes(ScvalToU256(limbs)))
PoolPublicInputs(call) ==
    LET n == Len(call.input_nullifiers)
    IN  <<Fr(call.root), Fr(call.public_amount), FrFromBytes(call.ext_data_hash)>>
          \o [i \in 1 .. n |-> Fr(call.input_nullifiers[i])]
          \o <<Fr(call.output_commitment0), Fr(call.output_commitment1)>>
          \o [i \in 1 .. n |-> Fr(call.membership)]
          \o [i \in 1 .. n |-> Fr(call.nonMembership)]

VerifyProof(call, setup) ==
    /\ PointsReadable(call)
    /\ ValidateBn256PublicInputs(call)
    /\ VerifyWithVk(EmbeddedVk(setup), call, PoolPublicInputs(call))

\* internal_transact up to the proof; the nullifiers are unspent.
PoolAccepts(call, setup) ==
    LET ext == I256OfLimbs(call.ext_amount)
    IN  /\ ScvalToU256(call.root) = ChainRoots.pool
        /\ call.ext_data_hash = ToBE(HashExtData(ext), FieldSize)
        /\ CalculatePublicAmount(ext) # Refused
        /\ ScvalToU256(call.public_amount) = CalculatePublicAmount(ext)
        /\ ScvalToU256(call.membership) = ChainRoots.membership
        /\ ScvalToU256(call.nonMembership) = ChainRoots.nonMembership
        /\ VerifyProof(call, setup)

(***************************************************************************)
(* The page's request, step by step                                        *)
(***************************************************************************)
VARIABLES
    artifacts,  \* R1CS file, witness calculator and the setup of the wallet's key
    deployedSetup,   \* the setup of the deployed verifier's key
    proveStage, \* "new", "loaded", "proved", "answered" or "failed"
    request,    \* the amounts of the transaction
    proofBytes, \* the proof in the contract's layout
    change      \* how the call that reached the pool differs from the wallet's

provingVars == <<artifacts, deployedSetup, proveStage, request, proofBytes, change>>

NoRequest == [ins |-> <<0, 0>>, ext |-> 0, outs |-> <<0, 0>>]

ProvingInit ==
    /\ artifacts \in [file : DOMAIN Files, extra : {0 - 1, 0, 1}, setup : {1}]
    /\ deployedSetup = 1
    /\ proveStage = "new"
    /\ request = NoRequest
    /\ proofBytes = <<>>
    /\ change = "none"

WalletKey == VerifyingKey(artifacts.setup)
WalletR1CS == ParseR1CS(Files[artifacts.file])

LoadProver ==
    /\ proveStage = "new"
    /\ proveStage' = IF ProverNew(WalletKey, Files[artifacts.file]) THEN "loaded" ELSE "failed"
    /\ UNCHANGED <<artifacts, deployedSetup, request, proofBytes, change>>

\* prove_from_artifacts of the prover worker.
ProveFromArtifacts(r, blind) ==
    LET inputs  == CircuitInputs(r)
        witness == WitnessToBytes(CalculateWitness(inputs, artifacts.extra))
        proof   == ProveWitness(WalletKey, WalletR1CS, witness, blind)
        public  == ExtractPublicInputs(WalletR1CS, witness)
        ok      == /\ WitnessComputed(inputs)
                   /\ ProveAccepts(WalletR1CS, witness)
                   /\ VerifyLocally(WalletKey, proof, public)
    IN  /\ proveStage = "loaded"
        /\ \A i \in 1 .. 2 : /\ NoteAmountFromText(r.ins[i]) # Refused
                             /\ NoteAmountFromText(r.outs[i]) # Refused
        /\ ExtAmountFromText(r.ext) # NoExtAmount
        /\ request' = r
        /\ proveStage' = IF ok THEN "proved" ELSE "failed"
        /\ proofBytes' = IF ok THEN ProofToUncompressedBytes(proof) ELSE <<>>
        /\ UNCHANGED <<artifacts, deployedSetup, change>>

Requests == {[ins |-> i, ext |-> e, outs |-> o] :
               i \in Amounts \X Amounts, o \in Amounts \X Amounts,
               e \in Exts \cup {0 - e : e \in Exts}}

SubmitCall(ch, setup) ==
    /\ proveStage = "proved"
    /\ ch = "otherAmount" => request.ext + 1 \in ExtAmounts
    /\ proveStage' = "answered"
    /\ change' = ch
    /\ deployedSetup' = setup
    /\ UNCHANGED <<artifacts, request, proofBytes>>

ProvingNext ==
    \/ LoadProver
    \/ \E r \in Requests, blind \in Blinds : ProveFromArtifacts(r, blind)
    \/ \E ch \in Changes, setup \in Setups : SubmitCall(ch, setup)

ProvingSpec == ProvingInit /\ [][ProvingNext]_provingVars

Call == Changed(PoolCall(Prepared(request), proofBytes, request.ext), change, request.ext)
Accepted == proveStage = "answered" /\ PoolAccepts(Call, deployedSetup)

(***************************************************************************)
(* Properties                                                              *)
(***************************************************************************)
\* Whatever artifacts the page loaded, a proof its own check let through is
\* accepted by the pool when the deployed key is the wallet's: the witness, the
\* circuit inputs, the values of the call, their order, the point layout and
\* the signed amount agree although each side computes them on its own.
SubmittedIsAccepted ==
    (proveStage = "answered" /\ change = "none" /\ deployedSetup = artifacts.setup) => Accepted

\* What the pool acts on in an accepted call is what was proved: the nullifiers
\* it records and the commitments it inserts are the proved values themselves,
\* not others with the same remainder, and the tokens it moves balance the
\* notes as integers.
AcceptedIsProved ==
    Accepted =>
        /\ [i \in DOMAIN Call.input_nullifiers |-> ScvalToU256(Call.input_nullifiers[i])] = Nullifiers
        /\ <<ScvalToU256(Call.output_commitment0), ScvalToU256(Call.output_commitment1)>> = Commitments
        /\ request.ins[1] + request.ins[2] + I256OfLimbs(Call.ext_amount)
             = request.outs[1] + request.outs[2]

\* Honest transactions get through and nothing else does: what the wallet
\* submits is accepted, what the pool accepts was proved.
ProvedIffAccepted == SubmittedIsAccepted /\ AcceptedIsProved
=============================================================================
