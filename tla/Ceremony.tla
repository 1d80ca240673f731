------------------------------ MODULE Ceremony ------------------------------
(***************************************************************************)
(* The trusted setup ceremony (tools/ceremony-cli, a wrapper of snarkjs)   *)
(* and the consumers of its keys: the export into the deployment           *)
(* directory, the build of the verifier contract from a vk.json and the    *)
(* build of the web client, which embeds the proving key.                  *)
(*                                                                         *)
(* A zkey is the circuit it was set up for and the random contributions it *)
(* holds.  One command runs at a time; it may be interrupted after every   *)
(* snarkjs call and every file it writes.                                  *)
(***************************************************************************)
EXTENDS Naturals, Sequences, FiniteSets, SequencesExt

CONSTANTS
  Zkeys,         \* names of .zkey files
  MaxDraws,      \* how many contributions may be drawn
  MaxRecompiles, \* how often the circuit may be compiled anew
  MaxForced      \* how many exports may be run with --force

ASSUME CeremonyBounds == MaxDraws \in Nat /\ MaxRecompiles \in Nat /\ MaxForced \in Nat

VARIABLES
  r1cs,      \* the compiled circuit the commands resolve
  zkey,      \* the .zkey files
  draws,     \* contributions drawn so far
  cmd,       \* the running command
  deployed,  \* deployments/testnet/circuit_keys
  forced,    \* history: exports run with --force
  verifier,  \* the verification key in the verifier contract
  bundle     \* the proving key the web client embeds

ceremonyVars == <<r1cs, zkey, draws, cmd, deployed, forced, verifier, bundle>>

\* No file, no key, no command.
Nothing == <<>>

Outputs == <<"pk", "vk_json", "vk_soroban", "vk_const">>

CeremonyInit ==
  /\ r1cs = 0
  /\ zkey = [z \in Zkeys |-> Nothing]
  /\ draws = 0
  /\ cmd = Nothing
  /\ deployed = [o \in ToSet(Outputs) |-> Nothing]
  /\ forced = 0
  /\ verifier = Nothing
  /\ bundle = Nothing

----------------------------------------------------------------------------
(* The two encodings of a verification key.  A G2 coordinate is an element *)
(* c0 + c1 u of a quadratic extension; both writers start from the same    *)
(* curve point.                                                            *)

Point(k) == [x |-> [c0 |-> <<k, "xc0">>, c1 |-> <<k, "xc1">>],
             y |-> [c0 |-> <<k, "yc0">>, c1 |-> <<k, "yc1">>]]

\* vk_to_snarkjs_json, g2_to_snarkjs: c0 before c1.
G2ToSnarkjs(p) == <<<<p.x.c0, p.x.c1>>, <<p.y.c0, p.y.c1>>, <<"1", "0">>>>

\* write_vk_soroban_bin, g2_to_soroban_bytes: c1 before c0, on the wire of the host.
G2ToSoroban(p) == <<p.x.c1, p.x.c0, p.y.c1, p.y.c0>>

G2FromJsonSwapped(j) ==
  G2ToSoroban([x |-> [c0 |-> j[1][2], c1 |-> j[1][1]],
               y |-> [c0 |-> j[2][2], c1 |-> j[2][1]]])

\* The verifier's build script: g2_bytes reads a JSON point and encodes it.
G2FromJson(j) ==
  G2ToSoroban([x |-> [c0 |-> j[1][1], c1 |-> j[1][2]],
               y |-> [c0 |-> j[2][1], c1 |-> j[2][2]]])

\* The four files an export writes, each in its format, and the key they are of.
Encoded(o, k) ==
  [key |-> k, form |-> CASE o = "vk_json"                  -> G2ToSnarkjs(Point(k))
                         [] o \in {"vk_soroban", "vk_const"} -> G2ToSoroban(Point(k))
                         [] o = "pk"                       -> Point(k)]

----------------------------------------------------------------------------

\* assert_output_allowed
OutputAllowed(file, force) == file = Nothing \/ force

\* snarkjs zkey verify: the zkey was set up for the given circuit.
ZkeyVerifies(k) == k # Nothing /\ k.circuit = r1cs

\* cargo build -p circuits writes another r1cs, also while a command is running.
Recompile ==
  /\ r1cs < MaxRecompiles
  /\ r1cs' = r1cs + 1
  /\ UNCHANGED <<zkey, draws, cmd, deployed, forced, verifier, bundle>>

\* init: snarkjs groth16 setup writes the output, then it is verified.
CeremonySetup(o, force) ==
  /\ cmd = Nothing
  /\ OutputAllowed(zkey[o], force)
  /\ zkey' = [zkey EXCEPT ![o] = [circuit |-> r1cs, draws |-> <<>>, beacon |-> FALSE]]
  /\ cmd' = [name |-> "verify", out |-> o]
  /\ UNCHANGED <<r1cs, draws, deployed, forced, verifier, bundle>>

\* contribute: the input is verified and the output name allowed, ...
Preverify(i, o, force) ==
  /\ cmd = Nothing
  /\ i # o
  /\ ZkeyVerifies(zkey[i])
  /\ OutputAllowed(zkey[o], force)
  /\ cmd' = [name |-> "contribute", in |-> i, out |-> o]
  /\ UNCHANGED <<r1cs, zkey, draws, deployed, forced, verifier, bundle>>

\* ... fresh entropy is drawn and mixed in, and the output is verified.
Contribute ==
  /\ cmd # Nothing /\ cmd.name = "contribute"
  /\ draws < MaxDraws
  /\ draws' = draws + 1
  /\ zkey' = [zkey EXCEPT ![cmd.out] =
                [zkey[cmd.in] EXCEPT !.draws = Append(@, draws'), !.beacon = FALSE]]
  /\ cmd' = [name |-> "verify", out |-> cmd.out]
  /\ UNCHANGED <<r1cs, deployed, forced, verifier, bundle>>

\* The verification ends init and contribute; when it fails the command does,
\* and the output it complains of stays on disk.
Verify ==
  /\ cmd # Nothing /\ cmd.name = "verify"
  /\ cmd' = Nothing
  /\ UNCHANGED <<r1cs, zkey, draws, deployed, forced, verifier, bundle>>

\* finalize: applies the beacon to the input, which it does not verify.  (The
\* verification key it exports as well is that of the same final zkey.)
Finalize(i, o, force) ==
  /\ cmd = Nothing
  /\ i # o
  /\ zkey[i] # Nothing
  /\ OutputAllowed(zkey[o], force)
  /\ zkey' = [zkey EXCEPT ![o] = [zkey[i] EXCEPT !.beacon = TRUE]]
  /\ UNCHANGED <<r1cs, draws, cmd, deployed, forced, verifier, bundle>>

\* export-deployment: all four outputs must be allowed before the first is
\* written; the key is read once, at the start.
ExportStart(i, force) ==
  /\ cmd = Nothing
  /\ zkey[i] # Nothing
  /\ \A o \in ToSet(Outputs) : OutputAllowed(deployed[o], force)
  /\ cmd' = [name |-> "export", key |-> zkey[i], next |-> 1]
  /\ force => forced < MaxForced
  /\ forced' = forced + (IF force THEN 1 ELSE 0)
  /\ UNCHANGED <<r1cs, zkey, draws, deployed, verifier, bundle>>

ExportWrite ==
  /\ cmd # Nothing /\ cmd.name = "export"
  /\ deployed' = [deployed EXCEPT ![Outputs[cmd.next]] = Encoded(Outputs[cmd.next], cmd.key)]
  /\ cmd' = IF cmd.next < Len(Outputs) THEN [cmd EXCEPT !.next = @ + 1] ELSE Nothing
  /\ UNCHANGED <<r1cs, zkey, draws, forced, verifier, bundle>>

\* A command is interrupted, or one of its steps fails and it returns the error.
Interrupt ==
  /\ cmd # Nothing
  /\ cmd' = Nothing
  /\ UNCHANGED <<r1cs, zkey, draws, deployed, forced, verifier, bundle>>

\* The verifier contract is built from the exported vk.json.
BuildVerifier ==
  /\ deployed["vk_json"] # Nothing
  /\ verifier' = [key |-> deployed["vk_json"].key, form |-> G2FromJson(deployed["vk_json"].form)]
  /\ UNCHANGED <<r1cs, zkey, draws, cmd, deployed, forced, bundle>>

\* The web client is built with the exported proving key.
BuildWeb ==
  /\ deployed["pk"] # Nothing
  /\ bundle' = deployed["pk"]
  /\ UNCHANGED <<r1cs, zkey, draws, cmd, deployed, forced, verifier>>

CeremonyNext ==
  \/ Recompile
  \/ \E o \in Zkeys, force \in BOOLEAN : CeremonySetup(o, force)
  \/ \E i, o \in Zkeys, force \in BOOLEAN : Preverify(i, o, force) \/ Finalize(i, o, force)
  \/ Contribute \/ Verify
  \/ \E i \in Zkeys, force \in BOOLEAN : ExportStart(i, force)
  \/ ExportWrite \/ Interrupt
  \/ BuildVerifier \/ BuildWeb

CeremonySpec == CeremonyInit /\ [][CeremonyNext]_ceremonyVars

----------------------------------------------------------------------------
(* Properties. *)

\* As long as --force was never given, the deployment directory holds files of
\* one zkey only, whatever commands were interrupted and however often the
\* ceremony was repeated in between; so a client and a verifier built from it at
\* any two moments use the two halves of one key.
DeployedKeysAgree ==
  forced = 0 =>
    /\ \A o, q \in ToSet(Outputs) :
         deployed[o] # Nothing /\ deployed[q] # Nothing => deployed[o].key = deployed[q].key
    /\ verifier # Nothing /\ bundle # Nothing => verifier.key = bundle.key

\* The verifier that is built from vk.json, through two conversions in two crates,
\* holds the bytes that the export wrote directly for the same key.
VerifierEncodingsAgree ==
  verifier # Nothing /\ deployed["vk_soroban"] # Nothing
    /\ verifier.key = deployed["vk_soroban"].key
  => verifier.form = deployed["vk_soroban"].form

\* Prover and verifier are deployed with the keys of one ceremony, in one
\* encoding.
KeysAgree == DeployedKeysAgree /\ VerifierEncodingsAgree
=============================================================================
