------------------------------ MODULE Encoding ------------------------------
(***************************************************************************)
(* How numbers travel between the wallet, the circuit and the contracts:   *)
(* amounts, field elements, their little- and big-endian bytes, their      *)
(* hexadecimal text and the four-limb values of Soroban.  Operators only.  *)
(*                                                                         *)
(* Widths keep their proportions: a byte has Byte values, a 256-bit value  *)
(* four limbs of LimbBytes bytes, a 128-bit value two.  Hexadecimal text   *)
(* is the sequence of its bytes in reading order, two digits to a byte.    *)
(***************************************************************************)
EXTENDS Integers, Sequences, SequencesExt

CONSTANTS
    Byte,       \* number of values of a byte (256)
    LimbBytes,  \* bytes of a limb (8)
    Modulus,    \* the order of the BN254 scalar field
    MaxExt      \* max_ext_amount of the pool (2^248)

FieldSize == 4 * LimbBytes
U256Bound == Byte ^ FieldSize
U128Bound == Byte ^ (2 * LimbBytes)
NoteAmounts == 0 .. (U128Bound - 1)
ExtAmounts == (0 - (U128Bound \div 2)) .. ((U128Bound \div 2) - 1)

ASSUME EncodingAssumption ==
    /\ Byte \in Nat /\ Byte > 1 /\ LimbBytes \in Nat /\ LimbBytes > 0
    /\ {Modulus, MaxExt} \subseteq Nat
    /\ 2 * U128Bound + (U128Bound \div 2) <= MaxExt /\ MaxExt <= Modulus /\ Modulus < U256Bound

\* A conversion that fails.
Refused == 0 - 1
NoExtAmount == 0 - U128Bound

(***************************************************************************)
(* Bytes                                                                   *)
(***************************************************************************)
ToBE(n, size) == [i \in 1 .. size |-> (n \div Byte ^ (size - i)) % Byte]
ToLE(n, size) == Reverse(ToBE(n, size))
FromBE(bytes) == FoldLeft(LAMBDA acc, b : acc * Byte + b, 0, bytes)
FromLE(bytes) == FromBE(Reverse(bytes))

(***************************************************************************)
(* Field, the wallet's own field element                                   *)
(***************************************************************************)
TryFromU256(v) == IF v < Modulus THEN v ELSE Refused
ToBeBytes(field) == ToBE(field, FieldSize)
ToLeBytes(field) == ToLE(field, FieldSize)
TryFromBeBytes(bytes) == TryFromU256(FromBE(bytes))
TryFromLeBytes(bytes) == TryFromU256(FromLE(bytes))

\* Field::from_str and its serde form: a text of exactly 32 bytes, big-endian.
FieldToText(field) == ToBeBytes(field)
FieldFromText(text) == IF Len(text) # FieldSize THEN Refused ELSE TryFromBeBytes(text)

\* A field element in a column of the local database.
FieldToSql(field) == ToLeBytes(field)
FieldFromSql(blob) == IF Len(blob) # FieldSize THEN Refused ELSE TryFromLeBytes(blob)

\* TryFrom<ExtAmount>: a negative amount is the modulus less its size.
FieldFromExtAmount(ext) ==
    IF ext >= 0 THEN TryFromU256(ext)
    ELSE IF (0 - ext) >= Modulus THEN Refused ELSE Modulus - (0 - ext)
FieldFromNoteAmount(note) == note

\* Note amounts are kept and sent as decimal text: every u128 survives.
NoteAmountFromText(n) == IF n \in NoteAmounts THEN n ELSE Refused
ExtAmountFromText(n) == IF n \in ExtAmounts THEN n ELSE NoExtAmount

(***************************************************************************)
(* The prover's bytes and text: bytes are reduced, not refused.            *)
(***************************************************************************)
BytesToPrimeField(bytes) ==
    IF Len(bytes) # FieldSize THEN Refused ELSE FromLE(bytes) % Modulus
PrimeFieldToBytes(f) == ToLE(f, FieldSize)
ScalarToHex(s) == Reverse(PrimeFieldToBytes(s))
FieldBytesToHex(bytes) == ScalarToHex(BytesToPrimeField(bytes))
FieldToCircuitHex(field) == FieldBytesToHex(ToLeBytes(field))
ExtAmountToCircuitHex(ext) == FieldToCircuitHex(FieldFromExtAmount(ext))
Be32ToHex(bytes) == bytes

(***************************************************************************)
(* Soroban values                                                          *)
(***************************************************************************)
Limb(bytes, k) == FromBE(SubSeq(bytes, (k - 1) * LimbBytes + 1, k * LimbBytes))
LimbBound == Byte ^ LimbBytes

FieldToScvalU256(field) == [k \in 1 .. 4 |-> Limb(ToBeBytes(field), k)]
ScvalToU256(limbs) == FoldLeft(LAMBDA acc, l : acc * LimbBound + l, 0, limbs)

\* Two's complement: the upper half of a negative amount is all ones.
I128ToI256Scval(n) ==
    LET hi   == IF n < 0 THEN LimbBound - 1 ELSE 0
        rest == ToBE(IF n < 0 THEN U128Bound + n ELSE n, 2 * LimbBytes)
    IN  <<hi, hi, Limb(rest, 1), Limb(rest, 2)>>

\* How the host reads a signed 256-bit value.
I256OfLimbs(limbs) ==
    LET u == ScvalToU256(limbs) IN IF u >= U256Bound \div 2 THEN u - U256Bound ELSE u

(***************************************************************************)
(* The contract's side                                                     *)
(***************************************************************************)
I256AbsToU256(v) == IF v >= 0 THEN v ELSE 0 - v

\* Refused: the size of the amount is beyond the limit.
CalculatePublicAmount(ext) ==
    IF I256AbsToU256(ext) >= MaxExt THEN Refused
    ELSE IF ext >= 0 THEN FromBE(ToBE(ext, FieldSize))
    ELSE Modulus - FromBE(ToBE(0 - ext, FieldSize))

U256ToBytes(v) == ToBE(v, FieldSize)
\* Bn254Fr::from_bytes of the host reduces modulo the order.
FrFromBytes(bytes) == FromBE(bytes) % Modulus
IsCanonical(v) == v < Modulus
=============================================================================
