------------------------------ MODULE Hashing ------------------------------
(***************************************************************************)
(* The Poseidon2 permutation as the three parts of the system compute it:  *)
(* the poseidon2 crate (wallet and prover), the circuits, and the host     *)
(* function the contracts call.  The three run in lock step, round by      *)
(* round, on the same input; a second input runs beside them in the crate. *)
(* The field is a small prime field.  Each part holds its own tables of    *)
(* round constants; their values are small stand-ins, the same in each.    *)
(***************************************************************************)
EXTENDS Integers, Sequences, SequencesExt

CONSTANTS
  HashPrime,     \* the field's modulus
  HashWidths,    \* state sizes t
  HashDigits,    \* elements the inputs are made of
  HalfFull,      \* rounds_f / 2 (4)
  PartialRounds  \* rounds_p (56)

ASSUME HashAssumption ==
  /\ HashPrime \in Nat \ {0, 1}
  /\ HashWidths \subseteq {2, 3, 4, 8, 12, 16, 20, 24}
  /\ HashDigits \subseteq Nat
  /\ HalfFull \in Nat /\ PartialRounds \in Nat

VARIABLES
  hashInputs,   \* the two inputs
  hashRound,    \* rounds done; -1 before the first linear layer
  crateState,   \* current_state, for each of the two inputs
  circuitState, \* aux[k]
  hostState     \* the host's state, or refused

hashVars == <<hashInputs, hashRound, crateState, circuitState, hostState>>

Mod(x) == x % HashPrime
SumOf(s) == FoldLeft(LAMBDA acc, x : acc + x, 0, s)
Width == Len(hashInputs[1])
Rounds == 2 * HalfFull + PartialRounds

IsPartial(r) == r \in HalfFull..(HalfFull + PartialRounds - 1)

\* A row of a table: one constant for each element, in a partial round only
\* the first is not zero.
RcRow(t, r) == [j \in 1..t |-> IF IsPartial(r) /\ j > 1 THEN 0 ELSE Mod(3 * r + 2 * j + t)]

\* The crate's tables for the three states the system uses.
RC2(r) == RcRow(2, r)
RC3(r) == RcRow(3, r)
RC4(r) == RcRow(4, r)
RoundConstants(t, r) ==
  CASE t = 2 -> RC2(r) [] t = 3 -> RC3(r) [] t = 4 -> RC4(r) [] OTHER -> RcRow(t, r)
\* MAT_DIAG_M_1, for larger states some non-zero entries.
MatDiagM1(t) == CASE t = 2 -> <<1, 2>> [] t = 3 -> <<1, 1, 2>> [] OTHER -> [j \in 1..t |-> Mod(j + 1)]

-----------------------------------------------------------------------------
(* poseidon2.rs                                                            *)

SboxP(x) == Mod(x * Mod(Mod(x * x) * Mod(x * x)))
Sbox(s) == [j \in DOMAIN s |-> SboxP(s[j])]
AddRc(s, rc) == [j \in DOMAIN s |-> Mod(s[j] + rc[j])]

MatmulM4(s) ==
  [j \in DOMAIN s |->
     LET start == 4 * ((j - 1) \div 4)
         x(i) == s[start + i]
         t0 == x(1) + x(2)
         t1 == x(3) + x(4)
         t2 == 2 * x(2) + t1
         t3 == 2 * x(4) + t0
         t4 == 4 * t1 + t3
         t5 == 4 * t0 + t2
     IN  Mod(CASE j - start = 1 -> t3 + t5
               [] j - start = 2 -> t5
               [] j - start = 3 -> t2 + t4
               [] j - start = 4 -> t4)]

MatmulExternal(s) ==
  LET t == Len(s)
      m4 == MatmulM4(s)
      stored(l) == SumOf([b \in 1..(t \div 4) |-> m4[4 * (b - 1) + l]])
  IN  CASE t \in {2, 3} -> [j \in 1..t |-> Mod(s[j] + SumOf(s))]
        [] t = 4 -> m4
        [] OTHER -> [j \in 1..t |-> Mod(m4[j] + stored(1 + ((j - 1) % 4)))]

MatmulInternal(s) ==
  LET t == Len(s)
  IN  CASE t = 2 -> <<Mod(s[1] + SumOf(s)), Mod(2 * s[2] + SumOf(s))>>
        [] t = 3 -> <<Mod(s[1] + SumOf(s)), Mod(s[2] + SumOf(s)), Mod(2 * s[3] + SumOf(s))>>
        [] OTHER -> [j \in 1..t |-> Mod(s[j] * MatDiagM1(t)[j] + SumOf(s))]

FullRound(s, rc) == MatmulExternal(Sbox(AddRc(s, rc)))
PartialRound(s, rc) == MatmulInternal([s EXCEPT ![1] = SboxP(Mod(@ + rc[1]))])

-----------------------------------------------------------------------------
(* poseidon2_perm.circom: full and partial rounds have tables of their own. *)

CircuitFull(t, k) == RcRow(t, IF k < HalfFull THEN k ELSE k + PartialRounds)
CircuitPartial(t, k) == RcRow(t, HalfFull + k)[1]

LinearLayer(s) ==
  IF Len(s) = 4 THEN MatmulM4(s) ELSE [j \in DOMAIN s |-> Mod(SumOf(s) + s[j])]
ExternalRound(k, s) ==
  LET sb == [j \in DOMAIN s |-> Mod((s[j] + CircuitFull(Len(s), k)[j])^5)]
  IN  LinearLayer(sb)

\* Mutant: the first element is multiplied before the S-box.
InternalRoundUnboxed(k, s) ==
  LET sb == Mod((s[1] + CircuitPartial(Len(s), k))^5)
      total == sb + SumOf(Tail(s))
  IN  [j \in DOMAIN s |-> Mod(total + s[j] * MatDiagM1(Len(s))[j])]

InternalRound(k, s) ==
  LET sb == Mod((s[1] + CircuitPartial(Len(s), k))^5)
      total == sb + SumOf(Tail(s))
  IN  [j \in DOMAIN s |-> Mod(total + (IF j = 1 THEN sb ELSE s[j]) * MatDiagM1(Len(s))[j])]

-----------------------------------------------------------------------------
(* The host's poseidon2_permutation, given the tables of the contracts: the *)
(* matrices are multiplied out.  The contracts have states of 2 and 3.      *)

GetRoundConstantsT2(r) == RcRow(2, r)
GetRoundConstantsT3(r) == RcRow(3, r)
HostConstants(t, r) ==
  CASE t = 2 -> GetRoundConstantsT2(r) [] t = 3 -> GetRoundConstantsT3(r) [] OTHER -> RcRow(t, r)

M4 == << <<5, 7, 1, 3>>, <<4, 6, 1, 1>>, <<1, 3, 5, 7>>, <<1, 1, 4, 6>> >>
External(t) ==
  CASE t \in {2, 3} -> [i \in 1..t |-> [j \in 1..t |-> IF i = j THEN 2 ELSE 1]]
    [] t = 4 -> M4
    [] OTHER -> [i \in 1..t |-> [j \in 1..t |->
         (IF (i - 1) \div 4 = (j - 1) \div 4 THEN 2 ELSE 1)
            * M4[1 + ((i - 1) % 4)][1 + ((j - 1) % 4)]]]
Internal(t) == [i \in 1..t |-> [j \in 1..t |-> IF i = j THEN 1 + MatDiagM1(t)[i] ELSE 1]]
MatVecMul(m, s) == [i \in DOMAIN s |-> Mod(SumOf([j \in DOMAIN s |-> m[i][j] * s[j]]))]

\* The contracts panic on an input that is not below the modulus.
InRange(s) == \A j \in DOMAIN s : s[j] < HashPrime
HostRefused == <<>>

-----------------------------------------------------------------------------
(* What is taken from the last state.                                       *)

\* poseidon2_compression: the first input is added to the first element.
Compression(input, s) == Mod(s[1] + Mod(input[1]))
\* poseidon2_compress of the contracts: reduced only when it is too large.
Compress(input, s) ==
  LET sum == s[1] + input[1] IN IF sum >= HashPrime THEN sum % HashPrime ELSE sum
\* PoseidonCompress of the circuits.
CircuitCompress(input, s) == Mod(s[1] + input[1])

-----------------------------------------------------------------------------
\* Inputs of small states in full; larger ones differ from ones in one place.
HashInputs(t) ==
  IF t <= 3 THEN [1..t -> HashDigits]
  ELSE {[j \in 1..t |-> IF j = i THEN d ELSE 1] : i \in 1..t, d \in HashDigits}

HashInit ==
  /\ \E t \in HashWidths : hashInputs \in [1..2 -> HashInputs(t)]
  /\ hashRound = 0 - 1
  /\ crateState = [i \in 1..2 |-> [j \in DOMAIN hashInputs[i] |-> Mod(hashInputs[i][j])]]
  /\ circuitState = crateState[1]
  /\ hostState = IF InRange(hashInputs[1]) THEN hashInputs[1] ELSE HostRefused

HashStep(crate(_), circuit(_), host(_)) ==
  /\ hashRound < Rounds
  /\ hashRound' = hashRound + 1
  /\ crateState' = [i \in 1..2 |-> crate(crateState[i])]
  /\ circuitState' = circuit(circuitState)
  /\ hostState' = IF hostState = HostRefused THEN HostRefused ELSE host(hostState)
  /\ UNCHANGED hashInputs

\* Linear layer at the beginning.
FirstLayer ==
  /\ hashRound = 0 - 1
  /\ HashStep(MatmulExternal, LinearLayer, LAMBDA s : MatVecMul(External(Width), s))

FullRounds ==
  /\ hashRound >= 0 /\ ~IsPartial(hashRound)
  /\ LET rc == RoundConstants(Width, hashRound)
         k == IF hashRound < HalfFull THEN hashRound ELSE hashRound - PartialRounds
     IN  HashStep(LAMBDA s : FullRound(s, rc), LAMBDA s : ExternalRound(k, s),
                  LAMBDA s : MatVecMul(External(Width), [j \in DOMAIN s |->
                                  Mod((s[j] + HostConstants(Width, hashRound)[j])^5)]))

PartialRoundsNext ==
  /\ IsPartial(hashRound)
  /\ LET rc == RoundConstants(Width, hashRound)
     IN  HashStep(LAMBDA s : PartialRound(s, rc),
                  LAMBDA s : InternalRound(hashRound - HalfFull, s),
                  LAMBDA s : MatVecMul(Internal(Width), [s EXCEPT ![1] =
                                  Mod((@ + HostConstants(Width, hashRound)[1])^5)]))

HashNext == FirstLayer \/ FullRounds \/ PartialRoundsNext

HashSpec == HashInit /\ [][HashNext]_hashVars

-----------------------------------------------------------------------------
\* The wallet, the circuit and the contracts compute the same hashes: after
\* every round their states agree (the circuits exist for t up to 4), and so
\* do the compressions and hashes taken from the last one.  A contract refuses
\* exactly the inputs that are not field elements.
HashesAgree ==
  /\ Width <= 4 => circuitState = crateState[1]
  /\ hostState # HostRefused => hostState = crateState[1]
  /\ (hostState = HostRefused) <=> ~InRange(hashInputs[1])
  /\ Width = 2 /\ hashRound = Rounds /\ hostState # HostRefused =>
       /\ Compress(hashInputs[1], hostState) = Compression(hashInputs[1], crateState[1])
       /\ CircuitCompress(hashInputs[1], circuitState) = Compression(hashInputs[1], crateState[1])

\* The permutation of the crate loses nothing: two inputs that differ as field
\* elements differ after every round.  (The modulus is chosen as BN254's is:
\* the matrices are invertible and 5 is prime to its predecessor.)
PermutationInjective ==
  (\E j \in 1..Width : Mod(hashInputs[1][j]) # Mod(hashInputs[2][j]))
     => crateState[1] # crateState[2]

\* One hash function: the same in every part, and without collisions by its
\* construction.
HashesSound == HashesAgree /\ PermutationInjective
=============================================================================
