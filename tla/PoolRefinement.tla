--------------------------- MODULE PoolRefinement ---------------------------
(* The pool contract implements the ledger of notes.                        *)
EXTENDS Pool

\* The notes are the leaves of the tree; a note with value is consumed when
\* its nullifier, made from the commitment and the position, is spent.
ConsumedPositions ==
  {i \in 1..nextIndex : /\ Leaves[i].amount # 0
                        /\ [note |-> Leaves[i], path |-> i - 1] \in nullifiers}

Ledger ==
  INSTANCE NoteLedger WITH
    LedgerNotes <- [owner : Users, amount : 0..(AmountBound - 1)],
    MaxInputs   <- NIns,
    minted      <- Leaves,
    consumed    <- ConsumedPositions,
    held        <- balance[PoolAddr]

\* Every step of the contract is a payment of the ledger, a donation or
\* nothing: proofs, ring of roots, nullifier set and dummy inputs together
\* never create value, spend a note twice, or move other tokens than the
\* difference between the notes consumed and created.
ImplementsLedger == Ledger!LedgerSpec
=============================================================================
