----------------------------- MODULE NoteLedger -----------------------------
(***************************************************************************)
(* What the pool promises, without proofs, roots or nullifiers: a ledger   *)
(* of notes of which some are consumed, and the tokens held for them.      *)
(* A payment consumes notes that carry value and were not consumed before, *)
(* creates two, and moves exactly the difference in tokens.                *)
(***************************************************************************)
EXTENDS Integers, Sequences, FiniteSets, Functions

CONSTANTS LedgerNotes, MaxInputs

VARIABLES
  minted,    \* every note created so far, in order
  consumed,  \* positions of the notes that were spent
  held       \* tokens of the pool

ledgerVars == <<minted, consumed, held>>

Unconsumed == {i \in DOMAIN minted : minted[i].amount # 0} \ consumed

ValueOf(positions) == SumFunction([i \in positions |-> minted[i].amount])

LedgerInit == minted = <<>> /\ consumed = {} /\ held = 0

\* A payment out of the pool may name the pool itself as the recipient: then
\* the tokens stay.
Pay(positions, note1, note2) ==
  LET moved == note1.amount + note2.amount - ValueOf(positions)
  IN  /\ Cardinality(positions) <= MaxInputs
      /\ minted' = minted \o <<note1, note2>>
      /\ consumed' = consumed \cup positions
      /\ \/ held' = held + moved
         \/ moved < 0 /\ held' = held

\* Tokens sent to the pool's address without a call belong to nobody.
Donate == held' > held /\ UNCHANGED <<minted, consumed>>

LedgerNext ==
  \/ \E positions \in SUBSET Unconsumed, note1, note2 \in LedgerNotes :
       Pay(positions, note1, note2)
  \/ Donate

LedgerSpec == LedgerInit /\ [][LedgerNext]_ledgerVars
=============================================================================
