----------------------------- MODULE PoolProofs -----------------------------
(***************************************************************************)
(* Theorems about the pool contract, for every depth of the tree, size of  *)
(* the root history, number of inputs, users, accounts and amounts: types, *)
(* nullifiers, root history, events and policy; then the value of the      *)
(* notes, with the refinement of the ledger of notes.                      *)
(***************************************************************************)
EXTENDS PoolRefinement, Arithmetic, TLAPS

\* What a proof tried by TransactStep consists of.
WellFormed(proof) ==
  /\ proof.root \in Root
  /\ \A i \in 1..NIns : NullifierOf(proof.inputs[i]) \in Nullifier
  /\ proof.outputs[1] \in Commitment
  /\ proof.outputs[2] \in Commitment

\* A transaction of TransactStep.
Submits(sender, proof, ext) ==
  /\ sender \in Accounts \ {PoolAddr}
  /\ ext \in ExtTried
  /\ Transact(sender, proof, ext)
  /\ WellFormed(proof)

\* Appending keeps the elements of both sequences in place.
LEMMA Concatenation ==
  ASSUME NEW S, NEW s \in Seq(S), NEW t \in Seq(S)
  PROVE  /\ s \o t \in Seq(S)
         /\ Len(s \o t) = Len(s) + Len(t)
         /\ \A i \in 1..Len(s) : (s \o t)[i] = s[i]
         /\ \A i \in 1..Len(t) : (s \o t)[Len(s) + i] = t[i]
OBVIOUS

\* A prover's root is a sequence of commitments.
LEMMA RootsAreSequences ==
  ASSUME NEW root \in TreeStates \cup ForgedRoots, Leaves \in Root
  PROVE  root \in Root /\ Len(root) \in Nat
<1>1. CASE root \in ForgedRoots
  BY <1>1, ForgedAssumption DEF Root
<1>2. CASE root \in TreeStates
  <2>1. PICK k \in 0..(Len(Leaves) \div 2) : root = SubSeq(Leaves, 1, 2 * k)
    BY <1>2 DEF TreeStates
  <2>2. Len(Leaves) \in Nat /\ 2 * k <= Len(Leaves)
    BY <2>1 DEF Root
  <2>3. \A i \in 1..(2 * k) : Leaves[i] \in Commitment
    BY <2>2 DEF Root
  <2> QED BY <2>1, <2>2, <2>3 DEF Root
<1> QED BY <1>1, <1>2

\* Every transaction tried has a sender, external data and a proof.
LEMMA TransactShape ==
  ASSUME TransactStep, Leaves \in Root
  PROVE  \E sender, ext, proof : Submits(sender, proof, ext)
<1>1. PICK sender \in Accounts \ {PoolAddr}, ext \in ExtTried,
           m \in MemberRootsTried, n \in BlockedRootsTried,
           root \in TreeStates \cup ForgedRoots :
        \E inputs \in [1..NIns -> InputsTried(root)], outputs \in OutputsTried :
          Transact(sender, ProofOf(root, inputs, outputs, ext, m, n), ext)
  BY DEF TransactStep
<1>0. PICK inputs \in [1..NIns -> InputsTried(root)], outputs \in OutputsTried :
        Transact(sender, ProofOf(root, inputs, outputs, ext, m, n), ext)
  BY <1>1
<1> DEFINE proof == ProofOf(root, inputs, outputs, ext, m, n)
<1>2. root \in Root /\ Len(root) \in Nat
  BY RootsAreSequences
<1>3. ASSUME NEW i \in 1..NIns
      PROVE  NullifierOf(inputs[i]) \in Nullifier
  <2>1. inputs[i] \in InputsTried(root)
    BY <1>3
  <2>2. /\ inputs[i].note \in [owner : Users, amount : NoteAmounts]
        /\ inputs[i].path \in DummyPaths \cup 0..(Len(root) - 1)
    BY <2>1 DEF InputsTried
  <2>3. inputs[i].note \in Commitment
    BY <2>2, NotesAssumption DEF Commitment
  <2>4. \A l \in Nat : DummyPaths \cup 0..(l - 1) \subseteq Nat
    BY PathsAssumption
  <2>5. inputs[i].path \in Nat
    BY <2>2, <1>2, <2>4, Zenon
  <2> QED BY <2>3, <2>5 DEF NullifierOf, Nullifier
<1>4. outputs[1] \in Commitment /\ outputs[2] \in Commitment
  <2>1. outputs[1] \in [owner : Users, amount : NoteAmounts]
        /\ outputs[2] \in [owner : Users, amount : NoteAmounts]
    BY DEF OutputsTried
  <2> QED BY <2>1, NotesAssumption DEF Commitment
<1>5. WellFormed(proof)
  BY <1>2, <1>3, <1>4 DEF WellFormed, ProofOf
<1> HIDE DEF proof
<1>6. Transact(sender, proof, ext)
  BY <1>0 DEF proof
<1> QED BY <1>5, <1>6 DEF Submits

-----------------------------------------------------------------------------
(* Type correctness.                                                       *)

\* A covered transfer leaves natural balances.
LEMMA TransferType ==
  ASSUME NEW bal \in [Accounts -> Nat], NEW from \in Accounts,
         NEW to \in Accounts, NEW amount \in Nat, amount <= bal[from]
  PROVE  Transfer(bal, from, to, amount) \in [Accounts -> Nat]
<1>1. [bal EXCEPT ![from] = @ - amount] \in [Accounts -> Nat]
  OBVIOUS
<1> QED BY <1>1 DEF Transfer

\* A deposit and a withdrawal leave no account with a negative balance.
LEMMA SettledType ==
  ASSUME balance \in [Accounts -> Nat],
         NEW sender \in Accounts, NEW ext \in ExtTried,
         DepositAllowed(sender, ext), WithdrawalAllowed(ext)
  PROVE  Settled(sender, ext) \in [Accounts -> Nat]
<1>1. ext.ext_amount \in Int /\ ext.recipient \in Accounts
  BY ExtAssumption
<1>2. PoolAddr \in Accounts
  BY AddressAssumption
<1>3. CASE ext.ext_amount >= 0
  <2>1. ext.ext_amount \in Nat /\ ext.ext_amount <= balance[sender]
    BY <1>1, <1>3 DEF DepositAllowed
  <2>2. Transfer(balance, sender, PoolAddr, ext.ext_amount) \in [Accounts -> Nat]
    BY <2>1, <1>2, TransferType
  <2> QED BY <2>2, <1>3 DEF Settled
<1>4. CASE ~(ext.ext_amount >= 0)
  <2>1. Abs(ext.ext_amount) \in Nat /\ Abs(ext.ext_amount) <= balance[PoolAddr]
    BY <1>1, <1>4 DEF WithdrawalAllowed, Abs
  <2>2. Transfer(balance, PoolAddr, ext.recipient, Abs(ext.ext_amount))
          \in [Accounts -> Nat]
    BY <2>1, <1>1, <1>2, TransferType
  <2> QED BY <2>2, <1>4 DEF Settled
<1> QED BY <1>3, <1>4

\* The next slot of the ring.
LEMMA NextSlot ==
  ASSUME NEW i \in 0..(RootHistorySize - 1)
  PROVE  (i + 1) % RootHistorySize
           = IF i + 1 = RootHistorySize THEN 0 ELSE i + 1
  BY HistoryAssumption

\* insert_two_leaves writes the slot after the current one.
LEMMA InsertType ==
  ASSUME TypeOK, NEW a \in Commitment, NEW b \in Commitment,
         InsertTwoLeaves(a, b)
  PROVE  /\ roots' \in [0..(RootHistorySize - 1) -> Root \cup {NoRoot}]
         /\ currentRootIndex' \in 0..(RootHistorySize - 1)
         /\ Leaves' = Leaves \o <<a, b>>
         /\ Leaves' \in Root
         /\ nextIndex' = nextIndex + 2
<1> DEFINE i == (currentRootIndex + 1) % RootHistorySize
<1>1. i \in 0..(RootHistorySize - 1)
  BY NextSlot, HistoryAssumption DEF TypeOK
<1>2. Leaves \o <<a, b>> \in Root
  BY DEF TypeOK, Root
<1>3. /\ roots' = [roots EXCEPT ![i] = Leaves \o <<a, b>>]
      /\ currentRootIndex' = i
      /\ nextIndex' = nextIndex + 2
  BY DEF InsertTwoLeaves
<1> HIDE DEF i
<1>4. roots'[i] = Leaves \o <<a, b>>
  BY <1>1, <1>3 DEF TypeOK
<1>5. Leaves' = Leaves \o <<a, b>>
  BY <1>3, <1>4 DEF Leaves
<1>6. roots' \in [0..(RootHistorySize - 1) -> Root \cup {NoRoot}]
  BY <1>1, <1>2, <1>3 DEF TypeOK
<1> QED BY <1>1, <1>2, <1>3, <1>5, <1>6

\* The events of one transaction: NIns nullifiers, then two commitments.
LEMMA TransactEventsShape ==
  ASSUME NEW proof, WellFormed(proof), nextIndex \in Nat
  PROVE  LET E == TransactEvents(proof) IN
           /\ E \in Seq(Event)
           /\ Len(E) = NIns + 2
           /\ \A i \in 1..NIns :
                E[i] = NullifierEvent(NullifierOf(proof.inputs[i]))
           /\ E[NIns + 1] = CommitmentEvent(proof.outputs[1], nextIndex)
           /\ E[NIns + 2] = CommitmentEvent(proof.outputs[2], nextIndex + 1)
<1> DEFINE N == [i \in 1..NIns |-> NullifierEvent(NullifierOf(proof.inputs[i]))]
           C == << CommitmentEvent(proof.outputs[1], nextIndex),
                   CommitmentEvent(proof.outputs[2], nextIndex + 1) >>
<1>1. \A i \in 1..NIns : N[i] \in Event
  BY DEF WellFormed, NullifierEvent, Event
<1>2. N \in Seq(Event) /\ Len(N) = NIns
  <2>1. N \in [1..NIns -> Event]
    BY <1>1
  <2> HIDE DEF N
  <2> QED BY <2>1, InputsAssumption
<1>3. /\ CommitmentEvent(proof.outputs[1], nextIndex) \in Event
      /\ CommitmentEvent(proof.outputs[2], nextIndex + 1) \in Event
  BY DEF WellFormed, CommitmentEvent, Event
<1>4. C \in Seq(Event) /\ Len(C) = 2
  BY <1>3
<1>5. \A i \in 1..NIns : N[i] = NullifierEvent(NullifierOf(proof.inputs[i]))
  OBVIOUS
<1>6. /\ C[1] = CommitmentEvent(proof.outputs[1], nextIndex)
      /\ C[2] = CommitmentEvent(proof.outputs[2], nextIndex + 1)
  OBVIOUS
<1>7. TransactEvents(proof) = N \o C
  BY DEF TransactEvents
<1> HIDE DEF N, C
<1>8. (N \o C) \in Seq(Event) /\ Len(N \o C) = NIns + 2
  <2>1. (N \o C) \in Seq(Event) /\ Len(N \o C) = Len(N) + Len(C)
    BY <1>2, <1>4, Concatenation, Zenon
  <2> QED BY <2>1, <1>2, <1>4
<1>9. /\ \A i \in 1..NIns : (N \o C)[i] = N[i]
      /\ (N \o C)[NIns + 1] = C[1]
      /\ (N \o C)[NIns + 2] = C[2]
  BY <1>2, <1>4, Concatenation
<1> QED BY <1>5, <1>6, <1>7, <1>8, <1>9

\* The constructor establishes the type invariant.
LEMMA TypeInit == Init => TypeOK
<1> SUFFICES ASSUME Init PROVE TypeOK
  OBVIOUS
<1>1. <<>> \in Root
  BY DEF Root
<1>2. 0 \in 0..(RootHistorySize - 1)
  BY HistoryAssumption
<1>3. Leaves \in Root
  BY <1>1, <1>2 DEF Init, Leaves
<1>4. balance \in [Accounts -> Nat]
  BY AmountAssumption DEF Init
<1>5. roots \in [0..(RootHistorySize - 1) -> Root \cup {NoRoot}]
  BY <1>1 DEF Init
<1>6. memberRoot \in [MembershipAsps -> SUBSET Users]
      /\ blockedRoot \in [NonMembershipAsps -> SUBSET Users]
  BY DEF Init
<1>7. nullifiers \subseteq Nullifier /\ events \in Seq(Event)
  BY DEF Init
<1> QED BY <1>2, <1>3, <1>4, <1>5, <1>6, <1>7 DEF Init, TypeOK

\* Every step of the pool preserves the type invariant.
LEMMA TypeStep == TypeOK /\ [Next]_vars => TypeOK'
<1> SUFFICES ASSUME TypeOK, [Next]_vars PROVE TypeOK'
  OBVIOUS
<1>1. CASE TransactStep
  <2>1. PICK sender, ext, proof : Submits(sender, proof, ext)
    BY <1>1, TransactShape DEF TypeOK
  <2>2. balance' \in [Accounts -> Nat]
    BY <2>1, SettledType DEF Submits, Transact, Accepts, TypeOK
  <2>3. InsertTwoLeaves(proof.outputs[1], proof.outputs[2])
    BY <2>1 DEF Submits, Transact
  <2>4. /\ roots' \in [0..(RootHistorySize - 1) -> Root \cup {NoRoot}]
        /\ currentRootIndex' \in 0..(RootHistorySize - 1)
        /\ Leaves' \in Root
        /\ nextIndex' = nextIndex + 2
    BY <2>1, <2>3, InsertType DEF Submits, WellFormed
  <2>5. nullifiers' \subseteq Nullifier
    BY <2>1 DEF Submits, Transact, MarkSpent, WellFormed, TypeOK
  <2>6. events' \in Seq(Event)
    <3>1. TransactEvents(proof) \in Seq(Event)
      BY <2>1, TransactEventsShape DEF Submits, TypeOK
    <3> QED BY <2>1, <3>1 DEF Submits, Transact, TypeOK
  <2>7. UNCHANGED <<admin, aspMembership, aspNonMembership, memberRoot, blockedRoot>>
    BY <2>1 DEF Submits, Transact, configVars, aspVars
  <2> QED BY <2>2, <2>4, <2>5, <2>6, <2>7 DEF TypeOK
<1>2. CASE AdminStep
  BY <1>2 DEF AdminStep, UpdateAdmin, UpdateAspMembership,
     UpdateAspNonMembership, TypeOK, treeVars, aspVars, Leaves
<1>3. CASE EnvironmentStep
  <2>1. CASE \E a, b \in Accounts, x \in 1..MaxDeposit : TokenTransfer(a, b, x)
    <3>1. PICK a \in Accounts, b \in Accounts, x \in 1..MaxDeposit :
            TokenTransfer(a, b, x)
      BY <2>1
    <3>2. balance' \in [Accounts -> Nat]
      BY <3>1, TransferType, AmountAssumption DEF TokenTransfer, TypeOK
    <3> QED BY <3>1, <3>2 DEF TokenTransfer, TypeOK, treeVars, configVars,
            aspVars, Leaves
  <2>2. CASE ~\E a, b \in Accounts, x \in 1..MaxDeposit : TokenTransfer(a, b, x)
    <3>1. UNCHANGED <<roots, currentRootIndex, nextIndex, nullifiers, admin,
                      aspMembership, aspNonMembership, balance, events>>
      BY <1>3, <2>2 DEF EnvironmentStep, AspApprove, AspBlock, AspUnblock,
         treeVars, configVars
    <3>2. memberRoot' \in [MembershipAsps -> SUBSET Users]
          /\ blockedRoot' \in [NonMembershipAsps -> SUBSET Users]
      BY <1>3, <2>2 DEF EnvironmentStep, AspApprove, AspBlock, AspUnblock, TypeOK
    <3> QED BY <3>1, <3>2 DEF TypeOK, Leaves
  <2> QED BY <2>1, <2>2
<1>4. CASE UNCHANGED vars
  BY <1>4 DEF vars, TypeOK, Leaves
<1> QED BY <1>1, <1>2, <1>3, <1>4 DEF Next

\* Type correctness of the contract, for every configuration: in particular
\* no token balance ever becomes negative.
THEOREM TypeCorrect == Spec => []TypeOK
<1>1. QED BY TypeInit, TypeStep, PTL DEF Spec

-----------------------------------------------------------------------------
(* No nullifier is published twice.                                        *)

\* Every published nullifier is in the contract's map of spent nullifiers.
PublishedIsSpent ==
  \A i \in 1..Len(events) :
    events[i].type = "NewNullifier" => events[i].nullifier \in nullifiers

NullifierInv == TypeOK /\ PublishedIsSpent /\ NullifierPublishedOnce

\* Where an event of the longer log comes from: the old log, one of the
\* nullifiers of the transaction, or one of its two commitments.
LEMMA EventOrigin ==
  ASSUME TypeOK, NEW proof, WellFormed(proof),
         events' = events \o TransactEvents(proof),
         NEW i \in 1..Len(events')
  PROVE  \/ i \in 1..Len(events) /\ events'[i] = events[i]
         \/ \E k \in 1..NIns :
              /\ i = Len(events) + k
              /\ events'[i] = NullifierEvent(NullifierOf(proof.inputs[k]))
         \/ /\ i = Len(events) + NIns + 1
            /\ events'[i] = CommitmentEvent(proof.outputs[1], nextIndex)
         \/ /\ i = Len(events) + NIns + 2
            /\ events'[i] = CommitmentEvent(proof.outputs[2], nextIndex + 1)
<1> DEFINE E == TransactEvents(proof)
<1>1. /\ E \in Seq(Event) /\ Len(E) = NIns + 2
      /\ \A k \in 1..NIns : E[k] = NullifierEvent(NullifierOf(proof.inputs[k]))
      /\ E[NIns + 1] = CommitmentEvent(proof.outputs[1], nextIndex)
      /\ E[NIns + 2] = CommitmentEvent(proof.outputs[2], nextIndex + 1)
  BY TransactEventsShape DEF Submits, TypeOK
<1> HIDE DEF E
<1>2. events' = events \o E /\ events \in Seq(Event)
  BY DEF E, TypeOK
<1>3. /\ Len(events') = Len(events) + Len(E)
      /\ \A j \in 1..Len(events) : events'[j] = events[j]
      /\ \A j \in 1..Len(E) : events'[Len(events) + j] = E[j]
  <2>1. /\ Len(events \o E) = Len(events) + Len(E)
        /\ \A j \in 1..Len(events) : (events \o E)[j] = events[j]
        /\ \A j \in 1..Len(E) : (events \o E)[Len(events) + j] = E[j]
    <3>1. E \in Seq(Event) /\ events \in Seq(Event)
      BY <1>1, <1>2
    <3> QED BY <3>1, Concatenation
  <2> QED BY <1>2, <2>1
<1>4. Len(events) \in Nat /\ NIns \in Nat
  BY <1>2, InputsAssumption
<1>5. CASE i \in 1..Len(events)
  BY <1>3, <1>5
<1>6. CASE i \notin 1..Len(events)
  <2>1. PICK k \in 1..(NIns + 2) : i = Len(events) + k
    <3>1. i \in 1..(Len(events) + NIns + 2)
      BY <1>1, <1>3, <1>4
    <3>2. (i - Len(events)) \in 1..(NIns + 2) /\ i = Len(events) + (i - Len(events))
      BY <3>1, <1>4, <1>6
    <3> QED BY <3>2
  <2>2. events'[i] = E[k]
    BY <2>1, <1>1, <1>3
  <2>3. k \in 1..NIns \/ k = NIns + 1 \/ k = NIns + 2
    BY <1>4
  <2>4. CASE k \in 1..NIns
    BY <2>1, <2>2, <2>4, <1>1
  <2>5. CASE k = NIns + 1
    BY <2>1, <2>2, <2>5, <1>1, <1>4
  <2>6. CASE k = NIns + 2
    BY <2>1, <2>2, <2>6, <1>1, <1>4
  <2> QED BY <2>3, <2>4, <2>5, <2>6
<1> QED BY <1>5, <1>6

\* Every step keeps published nullifiers spent, and published once.
LEMMA NullifierStep == NullifierInv /\ [Next]_vars => NullifierInv'
<1> SUFFICES ASSUME NullifierInv, [Next]_vars PROVE NullifierInv'
  OBVIOUS
<1>0. TypeOK /\ TypeOK'
  BY TypeStep DEF NullifierInv
<1>1. CASE TransactStep
  <2>1. PICK sender, ext, proof : Submits(sender, proof, ext)
    BY <1>0, <1>1, TransactShape DEF TypeOK
  <2>2. events' = events \o TransactEvents(proof)
    BY <2>1 DEF Submits, Transact
  <2>3. nullifiers' = nullifiers \cup {NullifierOf(proof.inputs[k]) : k \in 1..NIns}
    BY <2>1 DEF Submits, Transact, MarkSpent
  <2>4. \A k \in 1..NIns : NullifierOf(proof.inputs[k]) \notin nullifiers
    BY <2>1 DEF Submits, Transact, Accepts, InputsUnspent, IsSpent
  <2>5. \A k, l \in 1..NIns :
          k # l => NullifierOf(proof.inputs[k]) # NullifierOf(proof.inputs[l])
    BY <2>1 DEF Submits, Transact, Accepts, VerifyProof, CircuitAccepts, NullifiersDistinct
  <2>6. ASSUME NEW i \in 1..Len(events'), events'[i].type = "NewNullifier"
        PROVE  \/ /\ i \in 1..Len(events)
                  /\ events'[i] = events[i]
                  /\ events'[i].nullifier \in nullifiers
               \/ \E k \in 1..NIns :
                    /\ i = Len(events) + k
                    /\ i \notin 1..Len(events)
                    /\ events'[i].nullifier = NullifierOf(proof.inputs[k])
    <3>0. Len(events) \in Nat /\ NIns \in Nat
      BY <1>0, InputsAssumption DEF TypeOK
    <3>1. CASE i \in 1..Len(events) /\ events'[i] = events[i]
      BY <3>1, <2>6 DEF NullifierInv, PublishedIsSpent
    <3>2. CASE \E k \in 1..NIns :
                 /\ i = Len(events) + k
                 /\ events'[i] = NullifierEvent(NullifierOf(proof.inputs[k]))
      BY <3>0, <3>2 DEF NullifierEvent
    <3>3. CASE events'[i] = CommitmentEvent(proof.outputs[1], nextIndex)
      BY <3>3, <2>6 DEF CommitmentEvent
    <3>4. CASE events'[i] = CommitmentEvent(proof.outputs[2], nextIndex + 1)
      BY <3>4, <2>6 DEF CommitmentEvent
    <3>5. WellFormed(proof)
      BY <2>1 DEF Submits
    <3> QED BY <1>0, <2>2, <3>1, <3>2, <3>3, <3>4, <3>5, EventOrigin
  <2>7. PublishedIsSpent'
    BY <2>3, <2>6 DEF PublishedIsSpent
  <2>8. NullifierPublishedOnce'
    <3> SUFFICES ASSUME NEW i \in 1..Len(events'), NEW j \in 1..Len(events'),
                        events'[i].type = "NewNullifier",
                        events'[j].type = "NewNullifier",
                        events'[i].nullifier = events'[j].nullifier
                 PROVE  i = j
      BY DEF NullifierPublishedOnce
    <3>1. CASE i \in 1..Len(events) /\ j \in 1..Len(events)
      <4>1. events'[i] = events[i] /\ events'[j] = events[j]
        BY <3>1, <1>0, <2>2, TransactEventsShape, Concatenation, <2>1 DEF TypeOK
      <4> QED BY <4>1, <3>1 DEF NullifierInv, NullifierPublishedOnce
    <3>2. CASE i \in 1..Len(events) /\ j \notin 1..Len(events)
      BY <3>2, <2>4, <2>6
    <3>3. CASE i \notin 1..Len(events) /\ j \in 1..Len(events)
      <4>1. events'[j].nullifier \in nullifiers
        BY <3>3, <2>6
      <4>2. PICK k \in 1..NIns : events'[i].nullifier = NullifierOf(proof.inputs[k])
        BY <3>3, <2>6
      <4> QED BY <4>1, <4>2, <2>4
    <3>4. CASE i \notin 1..Len(events) /\ j \notin 1..Len(events)
      <4>1. PICK k \in 1..NIns :
              /\ i = Len(events) + k
              /\ events'[i].nullifier = NullifierOf(proof.inputs[k])
        BY <3>4, <2>6
      <4>2. PICK l \in 1..NIns :
              /\ j = Len(events) + l
              /\ events'[j].nullifier = NullifierOf(proof.inputs[l])
        BY <3>4, <2>6
      <4>3. k = l
        BY <4>1, <4>2, <2>5
      <4> QED BY <4>1, <4>2, <4>3
    <3> QED BY <3>1, <3>2, <3>3, <3>4
  <2> QED BY <1>0, <2>7, <2>8 DEF NullifierInv
<1>2. CASE AdminStep \/ EnvironmentStep \/ UNCHANGED vars
  <2>1. UNCHANGED <<nullifiers, events>>
    BY <1>2 DEF AdminStep, UpdateAdmin, UpdateAspMembership,
       UpdateAspNonMembership, EnvironmentStep, AspApprove, AspBlock,
       AspUnblock, TokenTransfer, vars
  <2> QED BY <1>0, <2>1 DEF NullifierInv, PublishedIsSpent, NullifierPublishedOnce
<1> QED BY <1>1, <1>2 DEF Next

\* No double spend: whatever proofs are tried, no nullifier is published
\* twice, neither by two transactions nor inside one.
THEOREM NoDoubleSpend == Spec => []NullifierPublishedOnce
<1>1. Init => NullifierInv
  BY TypeInit DEF Init, NullifierInv, PublishedIsSpent, NullifierPublishedOnce
<1>2. NullifierInv => NullifierPublishedOnce
  BY DEF NullifierInv
<1> QED BY <1>1, <1>2, NullifierStep, PTL DEF Spec

-----------------------------------------------------------------------------
(* The root history is a sliding window over the states of the tree.       *)

\* The slot that was written d insertions ago.
RingSlot(d) ==
  IF d <= currentRootIndex THEN currentRootIndex - d
                           ELSE currentRootIndex - d + RootHistorySize

\* After t insertions, going back d slots gives the tree d insertions ago.
RingAt(t) ==
  /\ nextIndex = 2 * t
  /\ Len(Leaves) = nextIndex
  /\ \A d \in 0..(RootHistorySize - 1) :
       roots[RingSlot(d)] = IF d <= t THEN TreeAfter(t - d) ELSE NoRoot

RingInv == TypeOK /\ \E t \in Nat : RingAt(t)

\* A prefix of a sequence is a prefix of every extension of it.
LEMMA PrefixOfConcat ==
  ASSUME NEW S, NEW s \in Seq(S), NEW a \in S, NEW b \in S,
         NEW m \in 0..Len(s)
  PROVE  SubSeq(s \o <<a, b>>, 1, m) = SubSeq(s, 1, m)
OBVIOUS

\* A sequence is its own longest prefix.
LEMMA PrefixAll ==
  ASSUME NEW S, NEW s \in Seq(S)
  PROVE  SubSeq(s, 1, Len(s)) = s
OBVIOUS

\* An insertion turns the window after t insertions into the one after t + 1.
LEMMA RingInsert ==
  ASSUME TypeOK, NEW t \in Nat, RingAt(t), NEW a \in Commitment,
         NEW b \in Commitment, InsertTwoLeaves(a, b)
  PROVE  RingAt(t + 1)'
<1> DEFINE H == RootHistorySize
           next == (currentRootIndex + 1) % H
<1>0. H \in Nat \ {0} /\ currentRootIndex \in 0..(H - 1)
  BY HistoryAssumption DEF TypeOK
<1>1. next = IF currentRootIndex + 1 = H THEN 0 ELSE currentRootIndex + 1
  BY NextSlot DEF TypeOK
<1>2. /\ roots' = [roots EXCEPT ![next] = Leaves \o <<a, b>>]
      /\ currentRootIndex' = next
      /\ nextIndex' = nextIndex + 2
  BY DEF InsertTwoLeaves
<1>3. Leaves' = Leaves \o <<a, b>> /\ Leaves \in Seq(Commitment)
  BY InsertType DEF TypeOK, Root
<1>4. Len(Leaves) = 2 * t /\ nextIndex = 2 * t
  BY DEF RingAt
<1>5. Len(Leaves') = 2 * (t + 1) /\ nextIndex' = 2 * (t + 1)
  BY <1>2, <1>3, <1>4
<1> HIDE DEF next, H
<1>6. ASSUME NEW d \in 0..(H - 1)
      PROVE  roots'[RingSlot(d)'] = IF d <= t + 1 THEN TreeAfter(t + 1 - d)' ELSE NoRoot
  <2>1. CASE d = 0
    <3>1. RingSlot(d)' = next
      BY <2>1, <1>0, <1>1, <1>2 DEF RingSlot
    <3>2. roots'[next] = Leaves'
      BY <1>0, <1>1, <1>2, <1>3 DEF TypeOK, H
    <3>3. Leaves' \in Seq(Commitment)
      BY InsertType DEF Root
    <3>4. TreeAfter(t + 1 - d)' = Leaves'
      <4>1. 2 * (t + 1 - d) = Len(Leaves')
        BY <2>1, <1>5
      <4> QED BY <4>1, <3>3, PrefixAll DEF TreeAfter
    <3> QED BY <3>1, <3>2, <3>4, <2>1
  <2>2. CASE d # 0
    <3>1. (d - 1) \in 0..(H - 1) /\ RingSlot(d)' = RingSlot(d - 1)
      BY <2>2, <1>0, <1>1, <1>2 DEF RingSlot, H
    <3>2. RingSlot(d - 1) \in 0..(H - 1) /\ RingSlot(d - 1) # next
      BY <2>2, <1>0, <1>1 DEF RingSlot, H
    <3>3. roots'[RingSlot(d)'] = roots[RingSlot(d - 1)]
      BY <3>1, <3>2, <1>2 DEF TypeOK, H
    <3>4. roots[RingSlot(d - 1)] = IF d - 1 <= t THEN TreeAfter(t - (d - 1)) ELSE NoRoot
      BY <3>1 DEF RingAt, H
    <3>5. CASE d <= t + 1
      <4>1. 2 * (t + 1 - d) \in 0..Len(Leaves) /\ t - (d - 1) = t + 1 - d
        BY <3>5, <2>2, <1>0, <1>4
      <4>2. TreeAfter(t + 1 - d)' = SubSeq(Leaves, 1, 2 * (t + 1 - d))
        BY <4>1, <1>3, PrefixOfConcat DEF TreeAfter
      <4>3. TreeAfter(t - (d - 1)) = SubSeq(Leaves, 1, 2 * (t + 1 - d))
        BY <4>1 DEF TreeAfter
      <4>4. d - 1 <= t
        BY <3>5, <1>0
      <4> QED BY <3>3, <3>4, <3>5, <4>2, <4>3, <4>4
    <3>6. CASE ~(d <= t + 1)
      BY <3>3, <3>4, <3>6, <1>0
    <3> QED BY <3>5, <3>6
  <2> QED BY <2>1, <2>2
<1> QED BY <1>5, <1>6 DEF RingAt, H

\* The constructor establishes the ring invariant.
LEMMA RingInit == Init => RingInv
<1> SUFFICES ASSUME Init PROVE RingInv
  OBVIOUS
<1>1. TypeOK
  BY TypeInit
<1>2. Leaves = <<>> /\ nextIndex = 0 /\ currentRootIndex = 0
  BY HistoryAssumption DEF Init, Leaves
<1>3. TreeAfter(0) = <<>>
  BY <1>2 DEF TreeAfter
<1>4. RingAt(0)
  BY <1>2, <1>3, HistoryAssumption DEF RingAt, RingSlot, Init
<1> QED BY <1>1, <1>4 DEF RingInv

\* Every step of the pool preserves the ring invariant.
LEMMA RingStep == RingInv /\ [Next]_vars => RingInv'
<1> SUFFICES ASSUME RingInv, [Next]_vars PROVE RingInv'
  OBVIOUS
<1>0. TypeOK /\ TypeOK'
  BY TypeStep DEF RingInv
<1>1. PICK t \in Nat : RingAt(t)
  BY DEF RingInv
<1>2. CASE TransactStep
  <2>1. PICK sender, ext, proof : Submits(sender, proof, ext)
    BY <1>0, <1>2, TransactShape DEF TypeOK
  <2>2. RingAt(t + 1)'
    BY <1>0, <1>1, <2>1, RingInsert DEF Submits, Transact, WellFormed
  <2> QED BY <1>0, <2>2 DEF RingInv
<1>3. CASE AdminStep \/ EnvironmentStep \/ UNCHANGED vars
  <2>1. UNCHANGED <<roots, currentRootIndex, nextIndex>>
    BY <1>3 DEF AdminStep, UpdateAdmin, UpdateAspMembership,
       UpdateAspNonMembership, EnvironmentStep, AspApprove, AspBlock,
       AspUnblock, TokenTransfer, vars, treeVars
  <2>2. RingAt(t)'
    BY <1>1, <2>1 DEF RingAt, RingSlot, TreeAfter, Leaves
  <2> QED BY <1>0, <2>2 DEF RingInv
<1> QED BY <1>2, <1>3 DEF Next

\* The ring invariant implies that the ring holds exactly the window.
LEMMA RingGivesWindow == RingInv => HistoryWindow
<1> SUFFICES ASSUME RingInv PROVE HistoryWindow
  OBVIOUS
<1>0. TypeOK /\ RootHistorySize \in Nat \ {0}
  BY HistoryAssumption DEF RingInv
<1>1. PICK t \in Nat : RingAt(t)
  BY DEF RingInv
<1>2. Transactions = t /\ Len(Leaves) = nextIndex /\ nextIndex = 2 * t
  BY <1>1 DEF RingAt, Transactions
<1>3. ASSUME NEW k \in 0..t PROVE TreeAfter(k) \in Root
  <2>1. 2 * k <= Len(Leaves) /\ Leaves \in Seq(Commitment)
    BY <1>0, <1>2 DEF TypeOK, Root
  <2> QED BY <2>1 DEF TreeAfter, Root
<1>4. ASSUME NEW i \in 0..(RootHistorySize - 1), roots[i] # NoRoot
      PROVE  \E k \in 0..t : t - k < RootHistorySize /\ roots[i] = TreeAfter(k)
  <2> DEFINE d == IF i <= currentRootIndex THEN currentRootIndex - i
                                           ELSE currentRootIndex - i + RootHistorySize
  <2>1. d \in 0..(RootHistorySize - 1) /\ RingSlot(d) = i
    BY <1>0 DEF RingSlot, TypeOK
  <2> HIDE DEF d
  <2>2. roots[i] = IF d <= t THEN TreeAfter(t - d) ELSE NoRoot
    BY <1>1, <2>1 DEF RingAt
  <2>3. d <= t /\ roots[i] = TreeAfter(t - d)
    BY <2>2, <1>4
  <2>4. (t - d) \in 0..t /\ t - (t - d) < RootHistorySize
    BY <2>1, <2>3, <1>0
  <2> QED BY <2>3, <2>4
<1>5. ASSUME NEW k \in 0..t, t - k < RootHistorySize
      PROVE  \E i \in 0..(RootHistorySize - 1) :
               roots[i] = TreeAfter(k) /\ roots[i] # NoRoot
  <2>1. (t - k) \in 0..(RootHistorySize - 1) /\ t - k <= t /\ t - (t - k) = k
    BY <1>5, <1>0
  <2>2. roots[RingSlot(t - k)] = TreeAfter(k)
    BY <2>1, <1>1 DEF RingAt
  <2>3. RingSlot(t - k) \in 0..(RootHistorySize - 1)
    BY <2>1, <1>0 DEF RingSlot, TypeOK
  <2> QED BY <2>2, <2>3, <1>3, ForgedAssumption
<1> QED BY <1>2, <1>4, <1>5 DEF HistoryWindow

\* The root history knows exactly the last ROOT_HISTORY_SIZE states of the
\* tree, for every history size and after any number of wrap-arounds.
THEOREM HistoryIsWindow == Spec => []HistoryWindow
<1> QED BY RingInit, RingStep, RingGivesWindow, PTL DEF Spec

-----------------------------------------------------------------------------
(* The published commitments are the leaves of the tree.                   *)

EventsInv == RingInv /\ EventsRebuildTree

\* A transaction publishes exactly its two leaves, at their indices.
LEMMA EventsInsert ==
  ASSUME EventsInv, NEW sender, NEW ext, NEW proof, Submits(sender, proof, ext)
  PROVE  EventsRebuildTree'
<1> DEFINE L == Len(events)
           a == proof.outputs[1]
           b == proof.outputs[2]
<1>0. TypeOK /\ WellFormed(proof) /\ a \in Commitment /\ b \in Commitment
  BY DEF EventsInv, RingInv, Submits, WellFormed
<1>1. events' = events \o TransactEvents(proof)
  BY DEF Submits, Transact
<1>2. L \in Nat /\ Len(events') = L + (NIns + 2)
  <2>1. TransactEvents(proof) \in Seq(Event) /\ Len(TransactEvents(proof)) = NIns + 2
    BY <1>0, TransactEventsShape DEF TypeOK
  <2>2. events \in Seq(Event)
    BY <1>0 DEF TypeOK
  <2>3. Len(events \o TransactEvents(proof)) = Len(events) + Len(TransactEvents(proof))
    BY <2>1, <2>2, Concatenation
  <2>4. Len(events) \in Nat /\ NIns \in Nat
    BY <2>2, InputsAssumption
  <2> QED BY <1>1, <2>1, <2>3, <2>4
<1>3. nextIndex \in Nat /\ Len(Leaves) = nextIndex /\ Leaves \in Seq(Commitment)
  BY <1>0 DEF EventsInv, RingInv, RingAt, TypeOK, Root
<1>4. Leaves' = Leaves \o <<a, b>> /\ nextIndex' = nextIndex + 2
  <2>1. InsertTwoLeaves(a, b)
    BY DEF Submits, Transact
  <2> HIDE DEF a, b
  <2> QED BY <1>0, <2>1, InsertType
<1> HIDE DEF a, b
<1>5. /\ \A k \in 1..nextIndex : Leaves'[k] = Leaves[k]
      /\ Leaves'[nextIndex + 1] = a
      /\ Leaves'[nextIndex + 2] = b
  BY <1>0, <1>3, <1>4
<1>6. ASSUME NEW i \in 1..Len(events')
      PROVE  \/ i \in 1..L /\ events'[i] = events[i]
             \/ i > L /\ i < L + NIns + 1 /\ events'[i].type # "NewCommitment"
             \/ i = L + NIns + 1 /\ events'[i] = CommitmentEvent(a, nextIndex)
             \/ i = L + NIns + 2 /\ events'[i] = CommitmentEvent(b, nextIndex + 1)
  <2>1. \A n : NullifierEvent(n).type # "NewCommitment"
    BY DEF NullifierEvent
  <2>2. \/ i \in 1..L /\ events'[i] = events[i]
        \/ \E k \in 1..NIns :
             /\ i = L + k
             /\ events'[i] = NullifierEvent(NullifierOf(proof.inputs[k]))
        \/ i = L + NIns + 1 /\ events'[i] = CommitmentEvent(a, nextIndex)
        \/ i = L + NIns + 2 /\ events'[i] = CommitmentEvent(b, nextIndex + 1)
    BY <1>0, <1>1, EventOrigin DEF a, b
  <2>3. ASSUME NEW k \in 1..NIns, i = L + k
        PROVE  i > L /\ i < L + NIns + 1
    BY <1>2, <2>3, InputsAssumption
  <2> QED BY <2>1, <2>2, <2>3
<1>7. \A c, k : /\ CommitmentEvent(c, k).type = "NewCommitment"
                /\ CommitmentEvent(c, k).commitment = c
                /\ CommitmentEvent(c, k).index = k
  BY DEF CommitmentEvent
<1>8. NIns \in Nat
  BY InputsAssumption
<1>9. ASSUME NEW i \in 1..L, IsCommitment(i)
      PROVE  events[i].index \in 0..(nextIndex - 1)
  <2>1. events[i].index < nextIndex
    BY <1>9 DEF EventsInv, EventsRebuildTree
  <2>2. events[i] \in Event
    BY <1>0 DEF TypeOK
  <2>3. events[i].index \in Nat
    BY <1>9, <2>2 DEF Event, IsCommitment
  <2> QED BY <1>3, <2>1, <2>3
<1>10. ASSUME NEW i \in 1..Len(events'), IsCommitment(i)'
       PROVE  /\ events'[i].index < nextIndex'
              /\ events'[i].commitment = Leaves'[events'[i].index + 1]
  <2>1. CASE i \in 1..L /\ events'[i] = events[i]
    <3>1. IsCommitment(i)
      BY <1>10, <2>1 DEF IsCommitment
    <3>2. events[i].index \in 0..(nextIndex - 1)
          /\ events[i].commitment = Leaves[events[i].index + 1]
      BY <1>9, <2>1, <3>1 DEF EventsInv, EventsRebuildTree
    <3>3. events[i].index + 1 \in 1..nextIndex
      BY <1>3, <3>2
    <3> QED BY <1>3, <1>4, <1>5, <2>1, <3>2, <3>3
  <2>2. CASE events'[i] = CommitmentEvent(a, nextIndex)
    BY <1>3, <1>4, <1>5, <1>7, <2>2
  <2>3. CASE events'[i] = CommitmentEvent(b, nextIndex + 1)
    BY <1>3, <1>4, <1>5, <1>7, <2>3
  <2> QED BY <1>6, <1>10, <2>1, <2>2, <2>3 DEF IsCommitment
<1>11. ASSUME NEW k \in 0..(nextIndex' - 1)
       PROVE  \E i \in 1..Len(events') : IsCommitment(i)' /\ events'[i].index = k
  <2>1. CASE k \in 0..(nextIndex - 1)
    <3>1. PICK i \in 1..L : IsCommitment(i) /\ events[i].index = k
      BY <2>1 DEF EventsInv, EventsRebuildTree
    <3>2. i \in 1..Len(events') /\ events'[i] = events[i]
      BY <1>2, <1>6, <1>8
    <3> QED BY <3>1, <3>2 DEF IsCommitment
  <2>2. CASE k = nextIndex
    <3>1. (L + NIns + 1) \in 1..Len(events')
      BY <1>2, <1>8
    <3>2. events'[L + NIns + 1] = CommitmentEvent(a, nextIndex)
      BY <1>2, <1>6, <1>8, <3>1
    <3> QED BY <1>7, <2>2, <3>1, <3>2 DEF IsCommitment
  <2>3. CASE k = nextIndex + 1
    <3>1. (L + NIns + 2) \in 1..Len(events')
      BY <1>2, <1>8
    <3>2. events'[L + NIns + 2] = CommitmentEvent(b, nextIndex + 1)
      BY <1>2, <1>6, <1>8, <3>1
    <3> QED BY <1>7, <2>3, <3>1, <3>2 DEF IsCommitment
  <2> QED BY <1>3, <1>4, <2>1, <2>2, <2>3
<1>12. ASSUME NEW i \in 1..Len(events'), NEW j \in 1..Len(events'),
              i < j, IsCommitment(i)', IsCommitment(j)'
       PROVE  events'[i].index < events'[j].index
  <2>1. CASE i \in 1..L /\ j \in 1..L
    <3>1. events'[i] = events[i] /\ events'[j] = events[j]
      BY <1>2, <1>6, <1>8, <2>1
    <3>2. IsCommitment(i) /\ IsCommitment(j)
      BY <1>12, <3>1 DEF IsCommitment
    <3> QED BY <1>12, <2>1, <3>1, <3>2 DEF EventsInv, EventsRebuildTree
  <2>2. CASE i \in 1..L /\ j \notin 1..L
    <3>1. events'[i] = events[i]
      BY <1>2, <1>6, <1>8, <2>2
    <3>2. events[i].index \in 0..(nextIndex - 1)
      BY <1>9, <1>12, <2>2, <3>1 DEF IsCommitment
    <3>3. events'[j].index \in {nextIndex, nextIndex + 1}
      BY <1>6, <1>7, <1>12, <2>2 DEF IsCommitment
    <3> QED BY <1>3, <3>1, <3>2, <3>3
  <2>3. CASE i \notin 1..L
    <3>1. i = L + NIns + 1 \/ i = L + NIns + 2
      BY <1>6, <1>12, <2>3 DEF IsCommitment
    <3>2. i = L + NIns + 1 /\ j = L + NIns + 2
      BY <1>2, <1>8, <1>12, <3>1
    <3>3. events'[i].index = nextIndex /\ events'[j].index = nextIndex + 1
      BY <1>2, <1>6, <1>7, <1>8, <3>2
    <3> QED BY <1>3, <3>3
  <2> QED BY <2>1, <2>2, <2>3
<1> QED BY <1>10, <1>11, <1>12 DEF EventsRebuildTree

\* Every step of the pool keeps the events and the tree together.
LEMMA EventsStep == EventsInv /\ [Next]_vars => EventsInv'
<1> SUFFICES ASSUME EventsInv, [Next]_vars PROVE EventsInv'
  OBVIOUS
<1>1. RingInv' /\ TypeOK
  BY RingStep DEF EventsInv, RingInv
<1>2. CASE TransactStep
  <2>1. PICK sender, ext, proof : Submits(sender, proof, ext)
    BY <1>1, <1>2, TransactShape DEF TypeOK
  <2> QED BY <1>1, <2>1, EventsInsert DEF EventsInv
<1>3. CASE AdminStep \/ EnvironmentStep \/ UNCHANGED vars
  <2>1. UNCHANGED <<roots, currentRootIndex, nextIndex, events>>
    BY <1>3 DEF AdminStep, UpdateAdmin, UpdateAspMembership,
       UpdateAspNonMembership, EnvironmentStep, AspApprove, AspBlock,
       AspUnblock, TokenTransfer, vars, treeVars
  <2> QED BY <1>1, <2>1 DEF EventsInv, EventsRebuildTree, IsCommitment, Leaves
<1> QED BY <1>2, <1>3 DEF Next

\* A reader of the events rebuilds the tree: the commitments are published
\* with the leaf's own index, in order and without a gap, for every depth.
THEOREM EventsAreTheTree == Spec => []EventsRebuildTree
<1>1. Init => EventsInv
  BY RingInit DEF Init, EventsInv, EventsRebuildTree, IsCommitment
<1>2. EventsInv => EventsRebuildTree
  BY DEF EventsInv
<1> QED BY <1>1, <1>2, EventsStep, PTL DEF Spec

-----------------------------------------------------------------------------
(* Action properties.                                                      *)

\* A key spends only while both configured association sets accept it.
THEOREM PolicyEnforced == Spec => SpendsFollowPolicy
<1> DEFINE Policy ==
      \A n \in nullifiers' \ nullifiers :
        n.note.owner \in memberRoot[aspMembership] \ blockedRoot[aspNonMembership]
<1>1. ASSUME TypeOK, [Next]_vars PROVE [Policy]_vars
  <2>1. CASE TransactStep
    <3>1. PICK sender, ext, proof : Submits(sender, proof, ext)
      BY <1>1, <2>1, TransactShape DEF TypeOK
    <3>2. nullifiers' = nullifiers \cup {NullifierOf(proof.inputs[k]) : k \in 1..NIns}
      BY <3>1 DEF Submits, Transact, MarkSpent
    <3>3. \A k \in 1..NIns :
            proof.inputs[k].note.owner
              \in memberRoot[aspMembership] \ blockedRoot[aspNonMembership]
      BY <3>1 DEF Submits, Transact, Accepts, VerifyProof, CircuitAccepts, InputsOK,
         AspRootsMatch
    <3> QED BY <3>2, <3>3 DEF NullifierOf
  <2>2. CASE AdminStep \/ EnvironmentStep \/ UNCHANGED vars
    <3>1. nullifiers' = nullifiers
      BY <2>2 DEF AdminStep, UpdateAdmin, UpdateAspMembership,
         UpdateAspNonMembership, EnvironmentStep, AspApprove, AspBlock,
         AspUnblock, TokenTransfer, vars
    <3> QED BY <3>1
  <2> QED BY <1>1, <2>1, <2>2 DEF Next
<1> QED BY <1>1, TypeCorrect, PTL DEF Spec, SpendsFollowPolicy

-----------------------------------------------------------------------------
(* The value of the notes.                                                 *)

\* Amounts of the leaves, by position.
Amounts == [k \in 1..nextIndex |-> Leaves[k].amount]

NullifierAt(k) == [note |-> Leaves[k], path |-> k - 1]

\* Positions of the notes nobody has spent, whatever their amount.
Unspent == {k \in 1..nextIndex : NullifierAt(k) \notin nullifiers}

\* The amount of a leaf passed the circuit's range check.
LeavesBounded == \A k \in 1..nextIndex : Leaves[k].amount \in 0..(AmountBound - 1)

\* A nullifier made from value names a position the tree has reached: no
\* nullifier is spent before the leaf it would belong to is inserted.
SpentInTree == \A n \in nullifiers : n.note.amount # 0 => n.path < nextIndex

ValueInv == RingInv /\ LeavesBounded /\ SpentInTree

\* Inputs of a transaction that carry value, and their leaves.
Valued(inputs) == {i \in 1..NIns : inputs[i].note.amount # 0}
Positions(inputs) == {inputs[i].path + 1 : i \in Valued(inputs)}
InputSum(inputs) == Sum([i \in 1..NIns |-> inputs[i].note.amount])

\* The inputs with value are distinct leaves of the tree.
SpendLeaves(inputs) ==
  /\ \A i \in 1..NIns : inputs[i].note.amount \in Nat /\ inputs[i].path \in Nat
  /\ \A i \in Valued(inputs) : /\ inputs[i].path < nextIndex
                               /\ inputs[i].note = Leaves[inputs[i].path + 1]
  /\ \A i, j \in Valued(inputs) : inputs[i].path = inputs[j].path => i = j

\* The tree in a state of the ring invariant.
LEMMA TreeFacts ==
  ASSUME RingInv
  PROVE  /\ TypeOK /\ nextIndex \in Nat
         /\ Leaves \in Seq(Commitment) /\ Len(Leaves) = nextIndex
         /\ nextIndex % 2 = 0
         /\ \A k \in 1..nextIndex : Leaves[k] \in Commitment
                                    /\ Leaves[k].amount \in Nat
<1>1. PICK t \in Nat : RingAt(t)
  BY DEF RingInv
<1>2. /\ TypeOK /\ nextIndex = 2 * t /\ Len(Leaves) = nextIndex
      /\ Leaves \in Seq(Commitment)
  BY <1>1 DEF RingInv, RingAt, TypeOK, Root
<1>3. nextIndex % 2 = 0 /\ nextIndex \in Nat
  BY <1>2
<1>4. ASSUME NEW k \in 1..nextIndex
      PROVE  Leaves[k] \in Commitment /\ Leaves[k].amount \in Nat
  <2>1. Leaves[k] \in Commitment
    BY <1>2
  <2>2. \A c \in Commitment : c.amount \in Nat
    BY AmountAssumption DEF Commitment
  <2> QED BY <2>1, <2>2
<1> QED BY <1>2, <1>3, <1>4

\* A root the contract knows is a prefix of the leaves.
LEMMA KnownRootIsPrefix ==
  ASSUME RingInv, NEW root \in Root, IsKnownRoot(root)
  PROVE  \E k \in 0..Transactions :
           /\ root = TreeAfter(k) /\ Len(root) = 2 * k /\ 2 * k <= nextIndex
           /\ \A i \in 1..Len(root) : root[i] = Leaves[i]
<1>1. root \in {roots[i] : i \in 0..(RootHistorySize - 1)} \ {NoRoot}
  BY ForgedAssumption DEF IsKnownRoot
<1>2. PICK k \in 0..Transactions : root = TreeAfter(k)
  BY <1>1, RingGivesWindow DEF HistoryWindow
<1>3. 2 * k <= nextIndex /\ Leaves \in Seq(Commitment) /\ Len(Leaves) = nextIndex
  BY TreeFacts DEF Transactions
<1>4. root = SubSeq(Leaves, 1, 2 * k)
  BY <1>2 DEF TreeAfter
<1>5. Len(root) = 2 * k /\ \A i \in 1..(2 * k) : root[i] = Leaves[i]
  BY <1>3, <1>4
<1> QED BY <1>2, <1>3, <1>5

\* What the inputs are worth is what their leaves are worth.
LEMMA PositionsValue ==
  ASSUME RingInv, NEW inputs, SpendLeaves(inputs)
  PROVE  /\ Positions(inputs) \subseteq 1..nextIndex
         /\ IsFiniteSet(Positions(inputs))
         /\ Cardinality(Positions(inputs)) <= NIns
         /\ InputSum(inputs) = SumOver(Amounts, Positions(inputs))
<1> DEFINE V == Valued(inputs)
           P == Positions(inputs)
           S == 1..NIns
           f == [i \in S |-> inputs[i].note.amount]
           h == [i \in V |-> inputs[i].path + 1]
<1>1. NIns \in Nat /\ IsFiniteSet(S) /\ Cardinality(S) = NIns
  BY InputsAssumption, FS_Interval
<1>2. V \in SUBSET S /\ IsFiniteSet(V) /\ Cardinality(V) <= NIns
  BY <1>1, FS_Subset DEF Valued
<1>3. P = {h[i] : i \in V}
  BY DEF Positions
<1>4. P \subseteq 1..nextIndex
  <2>1. \A i \in V : inputs[i].path \in Nat /\ inputs[i].path < nextIndex
    BY DEF SpendLeaves, Valued
  <2> QED BY <2>1, TreeFacts DEF Positions
<1>5. IsFiniteSet(P) /\ Cardinality(P) <= Cardinality(V)
  <2>1. h \in Surjection(V, P)
    BY DEF Positions, Surjection
  <2> HIDE DEF h, P, V
  <2> QED BY <1>2, <2>1, FS_Surjection
<1>6. \A i \in S : f[i] \in Int
  BY DEF SpendLeaves
<1>7. SumOver(f, S) = SumOver(f, V)
  <2>1. \A i \in S \ V : f[i] = 0
    BY DEF Valued
  <2> HIDE DEF f, S, V
  <2> QED BY <1>1, <1>2, <1>6, <2>1, SumOverSupport
<1>8. SumOver(Amounts, P) = SumOver(f, V)
  <2>1. \A i, j \in V : h[i] = h[j] => i = j
    <3>1. \A i, j \in V : inputs[i].path = inputs[j].path => i = j
      BY DEF SpendLeaves
    <3>2. \A i \in V : inputs[i].path \in Nat
      BY DEF SpendLeaves, Valued
    <3> QED BY <3>1, <3>2
  <2>2. \A i \in V : Amounts[h[i]] = f[i]
    <3>1. ASSUME NEW i \in V PROVE Amounts[h[i]] = f[i]
      <4>1. h[i] \in 1..nextIndex /\ h[i] = inputs[i].path + 1
        BY <1>3, <1>4
      <4>2. inputs[i].note = Leaves[inputs[i].path + 1]
        BY DEF SpendLeaves
      <4>3. f[i] = inputs[i].note.amount
        BY <1>2
      <4> QED BY <4>1, <4>2, <4>3 DEF Amounts
    <3> QED BY <3>1
  <2>3. \A i \in V : f[i] \in Int
    BY <1>2, <1>6
  <2> HIDE DEF f, h, P, V
  <2>4. IsFiniteSet(V)
    BY <1>2
  <2> QED BY <1>3, <2>1, <2>2, <2>3, <2>4, SumOverReindex
<1>9. InputSum(inputs) = SumOver(f, S)
  BY SumFunctionIsSumOver DEF InputSum, Sum
<1>10. Cardinality(P) \in Nat /\ Cardinality(V) \in Nat
  BY <1>2, <1>5, FS_CardinalityType
<1>11. Cardinality(P) <= NIns
  BY <1>1, <1>2, <1>5, <1>10
<1> QED BY <1>4, <1>5, <1>7, <1>8, <1>9, <1>11
\* The proofs tried by a transaction spend leaves, or nothing.
LEMMA TransactSpendsLeaves ==
  ASSUME RingInv, NEW sender, NEW ext, NEW proof, Submits(sender, proof, ext)
  PROVE  SpendLeaves(proof.inputs)
<1> DEFINE inputs == proof.inputs
<1>1. /\ InputsOK(proof) /\ NullifiersDistinct(proof)
      /\ IsKnownRoot(proof.root) /\ proof.root \in Root
  BY DEF Submits, Transact, Accepts, VerifyProof, CircuitAccepts, WellFormed
<1>2. PICK k \in 0..Transactions :
        /\ Len(proof.root) = 2 * k /\ 2 * k <= nextIndex
        /\ \A i \in 1..Len(proof.root) : proof.root[i] = Leaves[i]
  BY <1>1, KnownRootIsPrefix
<1>3. ASSUME NEW i \in 1..NIns
      PROVE  inputs[i].note.amount \in Nat /\ inputs[i].path \in Nat
  <2>1. NullifierOf(inputs[i]) \in Nullifier
    BY DEF Submits, WellFormed
  <2>2. inputs[i].note \in Commitment /\ inputs[i].path \in Nat
    BY <2>1 DEF NullifierOf, Nullifier
  <2> QED BY <2>2, AmountAssumption DEF Commitment
<1>4. ASSUME NEW i \in Valued(inputs)
      PROVE  inputs[i].path < nextIndex /\ inputs[i].note = Leaves[inputs[i].path + 1]
  <2>1. i \in 1..NIns /\ inputs[i].note.amount # 0
    BY DEF Valued
  <2>2. /\ inputs[i].path < Len(proof.root)
        /\ proof.root[inputs[i].path + 1] = inputs[i].note
    BY <1>1, <2>1 DEF InputsOK, InTree
  <2>3. inputs[i].path \in Nat
    BY <1>3, <2>1
  <2>4. nextIndex \in Nat /\ Transactions \in Nat
    BY TreeFacts DEF Transactions
  <2> HIDE DEF inputs
  <2>5. inputs[i].path + 1 \in 1..Len(proof.root) /\ inputs[i].path < nextIndex
    BY <1>2, <2>2, <2>3, <2>4
  <2> QED BY <1>2, <2>2, <2>5
<1>5. ASSUME NEW i \in Valued(inputs), NEW j \in Valued(inputs),
             inputs[i].path = inputs[j].path
      PROVE  i = j
  <2>1. inputs[i].note = inputs[j].note
    BY <1>4, <1>5
  <2>2. i \in 1..NIns /\ j \in 1..NIns
    BY DEF Valued
  <2> QED BY <1>1, <1>5, <2>1, <2>2 DEF NullifiersDistinct, NullifierOf
<1> QED BY <1>3, <1>4, <1>5 DEF SpendLeaves

\* Conservation in the field is conservation in the integers: no sum of the
\* inputs, the outputs and the public amount wraps around the modulus.
LEMMA Conservation ==
  ASSUME ValueInv, NEW sender, NEW ext, NEW proof, Submits(sender, proof, ext)
  PROVE  proof.outputs[1].amount + proof.outputs[2].amount - InputSum(proof.inputs)
           = ext.ext_amount
<1> DEFINE s == InputSum(proof.inputs)
           o1 == proof.outputs[1].amount
           o2 == proof.outputs[2].amount
           x == ext.ext_amount
           B == AmountBound
           F == Field
<1>1. /\ B \in Nat \ {0} /\ F \in Nat /\ F > (NIns + 3) * B /\ NIns \in Nat
  BY AmountAssumption, InputsAssumption
<1>2. (NIns + 3) * B = NIns * B + 3 * B /\ NIns * B \in Nat
  BY <1>1
<1>3. o1 \in 0..(B - 1) /\ o2 \in 0..(B - 1)
  <2>1. proof.outputs[1] \in Commitment /\ proof.outputs[2] \in Commitment
    BY DEF Submits, WellFormed
  <2>2. o1 < B /\ o2 < B
    BY DEF Submits, Transact, Accepts, VerifyProof, CircuitAccepts
  <2>3. o1 \in Nat /\ o2 \in Nat
    BY <2>1, <1>1 DEF Commitment
  <2> QED BY <2>2, <2>3, <1>1
<1>4. s \in 0..(NIns * B)
  <2> DEFINE P == Positions(proof.inputs)
  <2>1. /\ P \subseteq 1..nextIndex /\ IsFiniteSet(P) /\ Cardinality(P) <= NIns
        /\ s = SumOver(Amounts, P)
    BY TransactSpendsLeaves, PositionsValue DEF ValueInv
  <2>2. \A k \in P : Amounts[k] \in 0..B
    <3>1. \A k \in P : Amounts[k] = Leaves[k].amount
      BY <2>1 DEF Amounts
    <3>2. \A k \in P : Leaves[k].amount \in 0..(B - 1)
      BY <2>1 DEF ValueInv, LeavesBounded
    <3> QED BY <1>1, <3>1, <3>2
  <2> HIDE DEF P
  <2>3. Cardinality(P) \in Nat
    BY <2>1, FS_CardinalityType
  <2>4. SumOver(Amounts, P) \in 0..(Cardinality(P) * B)
    BY <1>1, <2>1, <2>2, SumOverBound
  <2>5. Cardinality(P) * B <= NIns * B /\ Cardinality(P) * B \in Nat
    BY <1>1, <2>1, <2>3
  <2> QED BY <2>1, <2>4, <2>5, <1>2
<1>5. (s + proof.public_amount) % F = (o1 + o2) % F
  BY DEF Submits, Transact, Accepts, VerifyProof, CircuitAccepts, Balanced, InputSum
<1>6. /\ x \in Int /\ Abs(x) < B
      /\ proof.public_amount = CalculatePublicAmount(x)
  BY ExtAssumption DEF Submits, Transact, Accepts, PublicAmountMatches
<1>7. (s + x) % F = (o1 + o2) % F
  <2>1. CASE x >= 0
    BY <1>5, <1>6, <2>1 DEF CalculatePublicAmount
  <2>2. CASE x < 0
    <3>1. proof.public_amount = F + x
      BY <1>1, <1>6, <2>2 DEF CalculatePublicAmount, Abs
    <3> DEFINE a == s + x
    <3> HIDE DEF s, x, F
    <3>2. s + proof.public_amount = (s + x) + F
      BY <1>1, <1>2, <1>4, <1>6, <3>1
    <3>3. a \in Int /\ F > 0
      BY <1>1, <1>2, <1>4, <1>6
    <3> HIDE DEF a
    <3>4. (a + F) % F = a % F
      BY <1>1, <3>3, RemainderPlus
    <3> USE DEF a
    <3> QED BY <1>5, <3>2, <3>4
  <2> QED BY <1>6, <2>1, <2>2
<1>8. x < B /\ -x < B
  BY <1>1, <1>6 DEF Abs
<1> HIDE DEF s, o1, o2, x, B, F
<1> DEFINE a == s + x
           b == o1 + o2
<1>9. a \in Int /\ b \in Int /\ a - b < F /\ b - a < F /\ F > 0
  BY <1>1, <1>2, <1>3, <1>4, <1>6, <1>8
<1>10. a = b
  <2>1. a % F = b % F
    BY <1>7
  <2> HIDE DEF a, b
  <2> QED BY <1>1, <1>9, <2>1, SameRemainder
<1>11. o1 + o2 - s = x
  BY <1>2, <1>3, <1>4, <1>6, <1>10
<1> QED BY <1>11 DEF s, o1, o2, x
-----------------------------------------------------------------------------
(* The inductive invariant.                                                *)

\* What a transaction does to the tree, in the terms of the invariant.
LEMMA TransactTree ==
  ASSUME ValueInv, NEW sender, NEW ext, NEW proof, Submits(sender, proof, ext)
  PROVE  /\ nextIndex' = nextIndex + 2
         /\ Leaves' = Leaves \o <<proof.outputs[1], proof.outputs[2]>>
         /\ \A k \in 1..nextIndex : Leaves'[k] = Leaves[k]
         /\ Leaves'[nextIndex + 1] = proof.outputs[1]
         /\ Leaves'[nextIndex + 2] = proof.outputs[2]
         /\ proof.outputs[1].amount \in 0..(AmountBound - 1)
         /\ proof.outputs[2].amount \in 0..(AmountBound - 1)
<1> DEFINE a == proof.outputs[1]
           b == proof.outputs[2]
<1>1. a \in Commitment /\ b \in Commitment /\ InsertTwoLeaves(a, b)
  BY DEF Submits, WellFormed, Transact
<1>2. TypeOK /\ nextIndex \in Nat /\ Len(Leaves) = nextIndex
      /\ Leaves \in Seq(Commitment)
  BY TreeFacts DEF ValueInv
<1>3. a.amount \in 0..(AmountBound - 1) /\ b.amount \in 0..(AmountBound - 1)
  <2>1. a.amount < AmountBound /\ b.amount < AmountBound
    BY DEF Submits, Transact, Accepts, VerifyProof, CircuitAccepts
  <2> QED BY <1>1, <2>1, AmountAssumption DEF Commitment
<1> HIDE DEF a, b
<1>5. Leaves' = Leaves \o <<a, b>> /\ nextIndex' = nextIndex + 2
  BY <1>1, <1>2, InsertType
<1>6. /\ \A k \in 1..nextIndex : Leaves'[k] = Leaves[k]
      /\ Leaves'[nextIndex + 1] = a
      /\ Leaves'[nextIndex + 2] = b
  BY <1>1, <1>2, <1>5
<1> QED BY <1>3, <1>5, <1>6 DEF a, b

\* Steps that are not transactions leave the notes alone.
LEMMA OtherSteps ==
  ASSUME AdminStep \/ EnvironmentStep \/ UNCHANGED vars
  PROVE  UNCHANGED <<roots, currentRootIndex, nextIndex, nullifiers, Leaves>>
BY DEF AdminStep, UpdateAdmin, UpdateAspMembership, UpdateAspNonMembership,
       EnvironmentStep, AspApprove, AspBlock, AspUnblock, TokenTransfer, vars,
       treeVars, Leaves

\* The constructor establishes the invariant.
LEMMA ValueInit == Init => ValueInv
<1> SUFFICES ASSUME Init PROVE ValueInv
  OBVIOUS
<1>1. RingInv
  BY RingInit
<1>2. nextIndex = 0 /\ nullifiers = {}
  BY DEF Init
<1> QED BY <1>1, <1>2 DEF ValueInv, LeavesBounded, SpentInTree

\* No nullifier that carries value is ahead of the tree a transaction found.
LEMMA SpentBehind ==
  ASSUME ValueInv, NEW sender, NEW ext, NEW proof, Submits(sender, proof, ext),
         NEW n \in nullifiers', n.note.amount # 0
  PROVE  n.path < nextIndex
<1>1. CASE n \in nullifiers
  BY <1>1 DEF ValueInv, SpentInTree
<1>2. CASE n \notin nullifiers
  <2>1. nullifiers' = nullifiers \cup {NullifierOf(proof.inputs[i]) : i \in 1..NIns}
    BY DEF Submits, Transact, MarkSpent
  <2>2. PICK i \in 1..NIns : n = NullifierOf(proof.inputs[i])
    BY <1>2, <2>1
  <2>3. i \in Valued(proof.inputs) /\ n.path = proof.inputs[i].path
    BY <2>2 DEF Valued, NullifierOf
  <2> QED BY <2>3, TransactSpendsLeaves DEF SpendLeaves, ValueInv
<1> QED BY <1>1, <1>2

\* Every step preserves the invariant.
LEMMA ValueStep == ValueInv /\ [Next]_vars => ValueInv'
<1> SUFFICES ASSUME ValueInv, [Next]_vars PROVE ValueInv'
  OBVIOUS
<1>1. RingInv'
  BY RingStep DEF ValueInv
<1>2. CASE TransactStep
  <2>0. TypeOK /\ nextIndex \in Nat /\ nextIndex' \in Nat
    BY <1>1, TreeFacts DEF ValueInv, RingInv, TypeOK
  <2>1. PICK sender, ext, proof : Submits(sender, proof, ext)
    BY <1>2, <2>0, TransactShape DEF TypeOK
  <2>next. nextIndex' = nextIndex + 2
    BY <2>1, TransactTree
  <2>2. LeavesBounded'
    <3>1. ASSUME NEW k \in 1..nextIndex'
          PROVE  Leaves'[k].amount \in 0..(AmountBound - 1)
      <4>1. k \in 1..nextIndex \/ k = nextIndex + 1 \/ k = nextIndex + 2
        BY <2>0, <2>next
      <4> QED BY <2>1, <4>1, TransactTree DEF ValueInv, LeavesBounded
    <3> QED BY <3>1 DEF LeavesBounded
  <2>3. SpentInTree'
    <3> SUFFICES ASSUME NEW n \in nullifiers', n.note.amount # 0
                 PROVE  n.path < nextIndex'
      BY DEF SpentInTree
    <3>1. n.path \in Nat
      BY <1>1 DEF RingInv, TypeOK, Nullifier
    <3>2. n.path < nextIndex
      BY <2>1, SpentBehind
    <3> QED BY <2>0, <2>next, <3>1, <3>2
  <2> QED BY <1>1, <2>2, <2>3 DEF ValueInv
<1>3. CASE AdminStep \/ EnvironmentStep \/ UNCHANGED vars
  <2>1. UNCHANGED <<nextIndex, nullifiers, Leaves>>
    BY <1>3, OtherSteps
  <2> QED BY <1>1, <2>1 DEF ValueInv, LeavesBounded, SpentInTree
<1> QED BY <1>2, <1>3 DEF Next

\* What a transaction does to the pool's tokens: a withdrawal whose recipient
\* is the pool itself leaves them where they are.
LEMMA TransactTokens ==
  ASSUME TypeOK, NEW sender, NEW ext, NEW proof, Submits(sender, proof, ext)
  PROVE  \/ balance'[PoolAddr] = balance[PoolAddr] + ext.ext_amount
         \/ ext.ext_amount < 0 /\ balance'[PoolAddr] = balance[PoolAddr]
<1>1. /\ balance' = Settled(sender, ext) /\ sender \in Accounts \ {PoolAddr}
      /\ ext.ext_amount \in Int /\ ext.recipient \in Accounts
      /\ PoolAddr \in Accounts /\ balance \in [Accounts -> Nat]
  BY ExtAssumption, AddressAssumption DEF Submits, Transact, TypeOK
<1>2. CASE ext.ext_amount >= 0
  BY <1>1, <1>2 DEF Settled, Transfer
<1>3. CASE ext.ext_amount < 0
  <2>1. balance' = Transfer(balance, PoolAddr, ext.recipient, -ext.ext_amount)
    BY <1>1, <1>3 DEF Settled, Abs
  <2>2. CASE ext.recipient = PoolAddr
    BY <1>1, <1>3, <2>1, <2>2 DEF Transfer
  <2>3. CASE ext.recipient # PoolAddr
    BY <1>1, <1>3, <2>1, <2>3 DEF Transfer
  <2> QED BY <2>2, <2>3
<1> QED BY <1>1, <1>2, <1>3

\* Anybody else's transfer only adds to the pool's tokens.
LEMMA OtherTokens ==
  ASSUME TypeOK, AdminStep \/ EnvironmentStep \/ UNCHANGED vars
  PROVE  balance'[PoolAddr] >= balance[PoolAddr]
<1>0. balance \in [Accounts -> Nat] /\ PoolAddr \in Accounts
  BY AddressAssumption DEF TypeOK
<1>1. CASE \E a, b \in Accounts, x \in 1..MaxDeposit : TokenTransfer(a, b, x)
  <2>1. PICK a \in Accounts, b \in Accounts, x \in 1..MaxDeposit : TokenTransfer(a, b, x)
    BY <1>1
  <2>2. balance' = Transfer(balance, a, b, x) /\ a # PoolAddr /\ x \in Nat
    BY <2>1, AmountAssumption DEF TokenTransfer
  <2> QED BY <1>0, <2>2 DEF Transfer
<1>2. CASE ~\E a, b \in Accounts, x \in 1..MaxDeposit : TokenTransfer(a, b, x)
  <2>1. balance' = balance
    BY <1>2 DEF AdminStep, UpdateAdmin, UpdateAspMembership,
       UpdateAspNonMembership, EnvironmentStep, AspApprove, AspBlock, AspUnblock, vars
  <2> QED BY <1>0, <2>1
<1> QED BY <1>1, <1>2
-----------------------------------------------------------------------------
(* The contract implements the ledger of notes.                            *)

\* The ledger's own copies of the library operators are the library's.
LEMMA LedgerOperators ==
  /\ \A f : Ledger!SumFunction(f) = SumFunction(f)
  /\ \A S : Ledger!Cardinality(S) = Cardinality(S)
<1>1. \A f : Ledger!SumFunction(f) = SumFunction(f)
  BY DEF Ledger!SumFunction, Ledger!SumFunctionOnSet, Ledger!FoldFunctionOnSet,
         Ledger!MapThenFoldSet, SumFunction, SumFunctionOnSet, FoldFunctionOnSet,
         MapThenFoldSet
<1>2. \A S : Ledger!Cardinality(S) = Cardinality(S)
  BY DEF Ledger!Cardinality, Cardinality
<1> QED BY <1>1, <1>2

\* The inputs with value were not consumed, and are consumed by the step.
LEMMA TransactConsumes ==
  ASSUME ValueInv, NEW sender, NEW ext, NEW proof, Submits(sender, proof, ext)
  PROVE  LET P == Positions(proof.inputs) IN
           /\ \A k \in P : k \in Unspent /\ Leaves[k].amount # 0
           /\ \A k \in 1..nextIndex :
                k \in P <=> /\ Leaves[k].amount # 0
                            /\ NullifierAt(k) \in nullifiers' \ nullifiers
<1> DEFINE P == Positions(proof.inputs)
           V == Valued(proof.inputs)
<1>1. SpendLeaves(proof.inputs) /\ P \subseteq 1..nextIndex
  BY TransactSpendsLeaves, PositionsValue DEF ValueInv
<1>2. nullifiers' = nullifiers \cup {NullifierOf(proof.inputs[i]) : i \in 1..NIns}
  BY DEF Submits, Transact, MarkSpent
<1>3. \A i \in 1..NIns : NullifierOf(proof.inputs[i]) \notin nullifiers
  BY DEF Submits, Transact, Accepts, InputsUnspent, IsSpent
<1>4. ASSUME NEW i \in V
      PROVE  LET k == proof.inputs[i].path + 1 IN
               /\ k \in P
               /\ NullifierAt(k) = NullifierOf(proof.inputs[i])
               /\ Leaves[k].amount # 0
  <2>1. /\ proof.inputs[i].path \in Nat
        /\ proof.inputs[i].note = Leaves[proof.inputs[i].path + 1]
        /\ proof.inputs[i].note.amount # 0
    BY <1>1 DEF SpendLeaves, Valued
  <2> QED BY <2>1 DEF Positions, NullifierAt, NullifierOf
<1>5. ASSUME NEW k \in P
      PROVE  /\ k \in Unspent /\ Leaves[k].amount # 0
             /\ NullifierAt(k) \in nullifiers' \ nullifiers
  <2>1. PICK i \in V : k = proof.inputs[i].path + 1
    BY DEF Positions
  <2>2. i \in 1..NIns
    BY DEF Valued
  <2> QED BY <1>1, <1>2, <1>3, <1>4, <2>1, <2>2 DEF Unspent
<1>6. ASSUME NEW k \in 1..nextIndex, Leaves[k].amount # 0,
             NullifierAt(k) \in nullifiers' \ nullifiers
      PROVE  k \in P
  <2>1. PICK i \in 1..NIns : NullifierAt(k) = NullifierOf(proof.inputs[i])
    BY <1>2, <1>6
  <2>2. proof.inputs[i].note = Leaves[k] /\ proof.inputs[i].path = k - 1
    BY <2>1 DEF NullifierAt, NullifierOf
  <2>3. i \in V /\ proof.inputs[i].path + 1 = k
    BY <1>6, <2>2 DEF Valued
  <2> QED BY <2>3 DEF Positions
<1> QED BY <1>5, <1>6

\* A transaction is a payment of the ledger.
LEMMA TransactPays ==
  ASSUME ValueInv, NEW sender, NEW ext, NEW proof, Submits(sender, proof, ext)
  PROVE  \E positions \in SUBSET Ledger!Unconsumed,
            note1, note2 \in [owner : Users, amount : 0..(AmountBound - 1)] :
           Ledger!Pay(positions, note1, note2)
<1> DEFINE P == Positions(proof.inputs)
           a == proof.outputs[1]
           b == proof.outputs[2]
<1>0. /\ nextIndex \in Nat /\ Leaves \in Seq(Commitment) /\ Len(Leaves) = nextIndex
      /\ TypeOK
      /\ \A k \in 1..nextIndex : Leaves[k].amount \in Nat
  BY TreeFacts DEF ValueInv
<1>1. a \in [owner : Users, amount : 0..(AmountBound - 1)]
      /\ b \in [owner : Users, amount : 0..(AmountBound - 1)]
  <2>1. a \in Commitment /\ b \in Commitment
    BY DEF Submits, WellFormed
  <2>2. a.amount \in 0..(AmountBound - 1) /\ b.amount \in 0..(AmountBound - 1)
    BY TransactTree
  <2> QED BY <2>1, <2>2 DEF Commitment
<1>2. /\ P \subseteq 1..nextIndex /\ IsFiniteSet(P) /\ Cardinality(P) <= NIns
      /\ InputSum(proof.inputs) = SumOver(Amounts, P)
  BY TransactSpendsLeaves, PositionsValue DEF ValueInv
<1>3. P \subseteq Ledger!Unconsumed
  BY <1>0, <1>2, TransactConsumes
     DEF Ledger!Unconsumed, ConsumedPositions, Unspent, NullifierAt
<1>4. Leaves' = Leaves \o <<a, b>>
  BY TransactTree
<1>5. ConsumedPositions' = ConsumedPositions \cup P
  <2>1. /\ nextIndex' = nextIndex + 2
        /\ \A k \in 1..nextIndex : Leaves'[k] = Leaves[k]
    BY TransactTree
  <2>2. nullifiers \subseteq nullifiers'
    BY DEF Submits, Transact, MarkSpent
  <2>3. ASSUME NEW k \in 1..nextIndex', Leaves'[k].amount # 0,
               [note |-> Leaves'[k], path |-> k - 1] \in nullifiers'
        PROVE  k \in 1..nextIndex
    <3>1. k - 1 < nextIndex
      BY <2>3, SpentBehind
    <3> QED BY <1>0, <3>1
  <2>4. ASSUME NEW k \in 1..nextIndex
        PROVE  k \in ConsumedPositions' <=> k \in ConsumedPositions \cup P
    <3>1. k \in P <=> Leaves[k].amount # 0 /\ NullifierAt(k) \in nullifiers' \ nullifiers
      BY TransactConsumes
    <3>2. k \in 1..nextIndex'
      BY <1>0, <2>1
    <3> QED BY <2>1, <2>2, <3>1, <3>2 DEF ConsumedPositions, NullifierAt
  <2>5. ConsumedPositions' \subseteq 1..nextIndex
    BY <2>3 DEF ConsumedPositions
  <2>6. ConsumedPositions \cup P \subseteq 1..nextIndex
    BY <1>2 DEF ConsumedPositions
  <2> QED BY <2>4, <2>5, <2>6
<1>6. Ledger!ValueOf(P) = InputSum(proof.inputs)
  <2> DEFINE f == [i \in P |-> Leaves[i].amount]
  <2>1. Ledger!ValueOf(P) = SumOver(f, P)
    BY SumFunctionIsSumOver, LedgerOperators DEF Ledger!ValueOf
  <2>2. \A k \in P : f[k] = Amounts[k]
    BY <1>2 DEF Amounts
  <2> HIDE DEF f, P
  <2> QED BY <1>2, <2>1, <2>2, SumOverAgree
<1>7. a.amount + b.amount - Ledger!ValueOf(P) = ext.ext_amount
  BY <1>6, Conservation
<1>8. \/ balance'[PoolAddr] = balance[PoolAddr] + ext.ext_amount
      \/ ext.ext_amount < 0 /\ balance'[PoolAddr] = balance[PoolAddr]
  BY <1>0, TransactTokens
<1> HIDE DEF P, a, b
<1>9. Ledger!Pay(P, a, b)
  BY <1>2, <1>4, <1>5, <1>7, <1>8, LedgerOperators DEF Ledger!Pay
<1> QED BY <1>1, <1>3, <1>9
\* The contract starts as an empty ledger.
LEMMA LedgerStarts == Init => Ledger!LedgerInit
<1> SUFFICES ASSUME Init PROVE Ledger!LedgerInit
  OBVIOUS
<1>1. Leaves = <<>> /\ nextIndex = 0
  BY HistoryAssumption DEF Init, Leaves
<1>2. ConsumedPositions = {}
  BY <1>1 DEF ConsumedPositions
<1>3. balance[PoolAddr] = 0
  BY AddressAssumption DEF Init
<1> QED BY <1>1, <1>2, <1>3 DEF Ledger!LedgerInit

\* Every step of the contract is a payment, a donation or nothing.
LEMMA LedgerSteps ==
  ValueInv /\ [Next]_vars => [Ledger!LedgerNext]_<<Leaves, ConsumedPositions, balance[PoolAddr]>>
<1> SUFFICES ASSUME ValueInv, [Next]_vars
             PROVE  Ledger!LedgerNext \/ UNCHANGED <<Leaves, ConsumedPositions, balance[PoolAddr]>>
  OBVIOUS
<1>0. TypeOK /\ TypeOK'
  BY TypeStep DEF ValueInv, RingInv
<1>1. CASE TransactStep
  <2>1. PICK sender, ext, proof : Submits(sender, proof, ext)
    BY <1>0, <1>1, TransactShape DEF TypeOK
  <2> QED BY <2>1, TransactPays DEF Ledger!LedgerNext
<1>2. CASE AdminStep \/ EnvironmentStep \/ UNCHANGED vars
  <2>1. UNCHANGED <<nextIndex, nullifiers, Leaves>>
    BY <1>2, OtherSteps
  <2>2. UNCHANGED ConsumedPositions
    BY <2>1 DEF ConsumedPositions
  <2>3. balance'[PoolAddr] >= balance[PoolAddr]
    BY <1>0, <1>2, OtherTokens
  <2>4. balance[PoolAddr] \in Nat /\ balance'[PoolAddr] \in Nat
    BY <1>0, AddressAssumption DEF TypeOK
  <2>5. CASE balance'[PoolAddr] = balance[PoolAddr]
    BY <2>1, <2>2, <2>5
  <2>6. CASE balance'[PoolAddr] > balance[PoolAddr]
    BY <2>1, <2>2, <2>6 DEF Ledger!LedgerNext, Ledger!Donate
  <2> QED BY <2>3, <2>4, <2>5, <2>6
<1> QED BY <1>1, <1>2 DEF Next

\* The contract, with its proofs, ring of roots and nullifiers, implements
\* the ledger that only knows notes: no step creates value, consumes a note
\* twice, or moves other tokens than the difference of the notes.
THEOREM PoolImplementsLedger == Spec => ImplementsLedger
<1>1. Spec => Ledger!LedgerInit
  BY LedgerStarts DEF Spec
<1> QED BY <1>1, ValueInit, ValueStep, LedgerSteps, PTL
        DEF Spec, ImplementsLedger, Ledger!LedgerSpec, Ledger!ledgerVars

-----------------------------------------------------------------------------
(* Solvency.                                                               *)

SolventInv == ValueInv /\ Solvency

UnspentIsSum ==
  /\ UnspentValue = SumOver(Amounts, Unspent)
  /\ IsFiniteSet(Unspent)
  /\ \A k \in Unspent : Amounts[k] \in Nat

\* The value of the unspent notes is a sum over their positions.
LEMMA UnspentSum == RingInv => UnspentIsSum
<1> SUFFICES ASSUME RingInv PROVE UnspentIsSum
  OBVIOUS
<1> DEFINE f == [i \in Unspent |-> Leaves[i].amount]
<1>1. UnspentValue = SumOver(f, Unspent)
  BY SumFunctionIsSumOver DEF UnspentValue, Unspent, NullifierAt
<1>2. nextIndex \in Nat /\ \A k \in 1..nextIndex : Leaves[k].amount \in Nat
  BY TreeFacts
<1>3. Unspent \in SUBSET (1..nextIndex)
  BY DEF Unspent
<1>4. IsFiniteSet(Unspent)
  <2>1. IsFiniteSet(1..nextIndex)
    BY <1>2, FS_Interval
  <2> QED BY <1>3, <2>1, FS_Subset
<1>5. \A k \in Unspent : f[k] = Amounts[k] /\ Amounts[k] \in Nat
  BY <1>2, <1>3 DEF Amounts
<1> HIDE DEF f
<1>6. SumOver(f, Unspent) = SumOver(Amounts, Unspent)
  BY <1>4, <1>5, SumOverAgree
<1> QED BY <1>1, <1>4, <1>5, <1>6 DEF UnspentIsSum

\* The same in the next state.
LEMMA UnspentSumNext == RingInv' => UnspentIsSum'
<1> QED BY UnspentSum, PTL

\* A transaction changes the unspent value by the amount it moves.
LEMMA TransactValue ==
  ASSUME ValueInv, ValueInv', NEW sender, NEW ext, NEW proof,
         Submits(sender, proof, ext)
  PROVE  UnspentValue' = UnspentValue + ext.ext_amount
<1>tree. /\ nextIndex' = nextIndex + 2
         /\ \A k \in 1..nextIndex : Leaves'[k] = Leaves[k]
         /\ Leaves'[nextIndex + 1].amount = proof.outputs[1].amount
         /\ Leaves'[nextIndex + 2].amount = proof.outputs[2].amount
         /\ proof.outputs[1].amount \in 0..(AmountBound - 1)
         /\ proof.outputs[2].amount \in 0..(AmountBound - 1)
  <2>1. /\ nextIndex' = nextIndex + 2
        /\ Leaves' = Leaves \o <<proof.outputs[1], proof.outputs[2]>>
        /\ \A k \in 1..nextIndex : Leaves'[k] = Leaves[k]
        /\ Leaves'[nextIndex + 1] = proof.outputs[1]
        /\ Leaves'[nextIndex + 2] = proof.outputs[2]
        /\ proof.outputs[1].amount \in 0..(AmountBound - 1)
        /\ proof.outputs[2].amount \in 0..(AmountBound - 1)
    BY TransactTree, Zenon
  <2> QED BY <2>1, Zenon
<1> DEFINE P == Positions(proof.inputs)
           n == nextIndex
           o1 == proof.outputs[1].amount
           o2 == proof.outputs[2].amount
           f == Amounts'
           U == Unspent
           U2 == Unspent'
           Kept == U2 \cap 1..n
           Ends == {n + 1, n + 2}
           New == U2 \cap Ends
<1>0. RingInv /\ n \in Nat /\ \A k \in 1..n : Leaves[k].amount \in Nat
  BY TreeFacts DEF ValueInv
<1>1. /\ n' = n + 2
      /\ \A k \in 1..n : Leaves'[k] = Leaves[k]
      /\ Leaves'[n + 1].amount = o1 /\ Leaves'[n + 2].amount = o2
      /\ o1 \in Nat /\ o2 \in Nat
  <2>1. o1 \in 0..(AmountBound - 1) /\ o2 \in 0..(AmountBound - 1)
    BY <1>tree
  <2>2. o1 \in Nat /\ o2 \in Nat
    BY <2>1, AmountAssumption
  <2> QED BY <1>tree, <2>2
<1>2. f = [k \in 1..(n + 2) |-> Leaves'[k].amount]
  BY <1>1 DEF Amounts
<1>3. /\ \A k \in 1..n : f[k] = Amounts[k] /\ f[k] \in Nat
      /\ f[n + 1] = o1 /\ f[n + 2] = o2
  <2>1. \A k \in 1..n : k \in 1..(n + 2) /\ Leaves[k].amount \in Nat
    BY <1>0
  <2>2. (n + 1) \in 1..(n + 2) /\ (n + 2) \in 1..(n + 2)
    BY <1>0
  <2> QED BY <1>1, <1>2, <2>1, <2>2 DEF Amounts
<1>4. /\ UnspentValue = SumOver(Amounts, U) /\ IsFiniteSet(U)
      /\ \A k \in U : Amounts[k] \in Nat
  BY <1>0, UnspentSum DEF UnspentIsSum
<1>5. /\ UnspentValue' = SumOver(f, U2) /\ IsFiniteSet(U2)
      /\ \A k \in U2 : f[k] \in Nat
  <2>1. RingInv'
    BY DEF ValueInv
  <2> QED BY <2>1, UnspentSumNext DEF UnspentIsSum
<1>6. U \subseteq 1..n /\ U2 \subseteq 1..(n + 2)
  BY <1>1 DEF Unspent
<1>7. /\ P \subseteq U
      /\ \A k \in 1..n : k \in U2 <=> NullifierAt(k) \notin nullifiers'
      /\ \A k \in 1..n : k \in P <=> /\ Leaves[k].amount # 0
                                     /\ NullifierAt(k) \in nullifiers' \ nullifiers
  <2>1. \A k \in 1..n : k \in 1..n'
    BY <1>0, <1>1
  <2>2. \A k \in 1..n : NullifierAt(k)' = NullifierAt(k)
    BY <1>1 DEF NullifierAt
  <2> QED BY <2>1, <2>2, TransactConsumes DEF Unspent
<1>8. nullifiers \subseteq nullifiers'
  BY DEF Submits, Transact, MarkSpent
<1>9. /\ InputSum(proof.inputs) = SumOver(Amounts, P)
      /\ o1 + o2 - InputSum(proof.inputs) = ext.ext_amount
  BY TransactSpendsLeaves, PositionsValue, Conservation DEF ValueInv
<1>10. Kept \subseteq U \ P
  BY <1>7, <1>8 DEF Unspent
<1>11. ASSUME NEW k \in (U \ P) \ Kept PROVE Amounts[k] = 0
  <2>1. k \in 1..n /\ NullifierAt(k) \notin nullifiers /\ NullifierAt(k) \in nullifiers'
    BY <1>6, <1>7 DEF Unspent
  <2>2. Leaves[k].amount = 0
    BY <1>7, <2>1
  <2> QED BY <2>1, <2>2 DEF Amounts
<1>12. ASSUME NEW k \in Ends \ New PROVE f[k] = 0
  <2>1. k \in 1..n' /\ f[k] = Leaves'[k].amount /\ k > n
    BY <1>0, <1>1, <1>2
  <2>2. [note |-> Leaves'[k], path |-> k - 1] \in nullifiers'
    BY <2>1 DEF Unspent, NullifierAt
  <2>3. CASE f[k] # 0
    <3>1. k - 1 < n
      BY <2>1, <2>2, <2>3, SpentBehind
    <3> QED BY <1>0, <1>12, <3>1
  <2> QED BY <2>3
<1>13. U2 = Kept \cup New /\ Kept \cap New = {}
  <2>1. \A k \in 1..(n + 2) : k \in 1..n \/ k \in Ends
    BY <1>0
  <2>2. \A k \in 1..n : k \notin Ends
    BY <1>0
  <2> QED BY <1>6, <2>1, <2>2
<1> HIDE DEF f, U, U2, P
<1>ends. IsFiniteSet(Ends) /\ IsFiniteSet({n + 2})
  <2>1. IsFiniteSet({n + 1}) /\ IsFiniteSet({n + 2})
    BY FS_Singleton
  <2>2. IsFiniteSet({n + 1} \cup {n + 2})
    BY <2>1, FS_AddElement
  <2>3. Ends = {n + 1} \cup {n + 2}
    OBVIOUS
  <2> QED BY <2>1, <2>2, <2>3
<1>14. SumOver(Amounts, U) = SumOver(Amounts, P) + SumOver(Amounts, Kept)
  <2>1. SumOver(Amounts, U) = SumOver(Amounts, P) + SumOver(Amounts, U \ P)
    BY <1>4, <1>7, SumOverSplit
  <2>2. IsFiniteSet(U \ P) /\ \A k \in U \ P : Amounts[k] \in Int
    BY <1>4, FS_Subset
  <2>3. SumOver(Amounts, U \ P) = SumOver(Amounts, Kept)
    BY <2>2, <1>10, <1>11, SumOverSupport
  <2> QED BY <2>1, <2>3
<1>15. SumOver(f, Ends) = o1 + o2
  <2>1. IsFiniteSet(Ends) /\ IsFiniteSet({n + 2})
    BY <1>ends
  <2>2. \A k \in Ends : f[k] \in Int
    BY <1>1, <1>3
  <2>3. Ends \ {n + 1} = {n + 2} /\ {n + 2} \ {n + 2} = {}
    BY <1>0
  <2>4. SumOver(f, Ends) = f[n + 1] + SumOver(f, {n + 2})
    BY <2>1, <2>2, <2>3, SumOverRemove
  <2>5. SumOver(f, {n + 2}) = f[n + 2] + SumOver(f, {})
    BY <2>1, <2>2, <2>3, SumOverRemove
  <2>6. SumOver(f, {}) = 0
    BY <2>1, SumOverUnfold
  <2> QED BY <1>1, <1>3, <2>4, <2>5, <2>6
<1>16. SumOver(f, U2) = SumOver(f, Kept) + SumOver(f, New)
  <2>1. U2 \ Kept = New /\ Kept \in SUBSET U2
    BY <1>13
  <2>2. SumOver(f, U2) = SumOver(f, Kept) + SumOver(f, U2 \ Kept)
    BY <1>5, <2>1, SumOverSplit
  <2> QED BY <2>1, <2>2
<1>17. SumOver(f, New) = SumOver(f, Ends)
  <2>1. IsFiniteSet(Ends) /\ New \in SUBSET Ends
    BY <1>ends
  <2>2. \A k \in Ends : f[k] \in Int
    BY <1>1, <1>3
  <2> QED BY <2>1, <2>2, <1>12, SumOverSupport
<1>18. SumOver(f, Kept) = SumOver(Amounts, Kept)
  <2>1. IsFiniteSet(Kept)
    BY <1>5, FS_Subset
  <2>2. \A k \in Kept : f[k] = Amounts[k]
    BY <1>3
  <2> QED BY <2>1, <2>2, SumOverAgree
<1>19. SumOver(Amounts, Kept) \in Nat /\ SumOver(Amounts, P) \in Nat
  <2>1. Kept \in SUBSET U /\ P \in SUBSET U
    BY <1>7, <1>10
  <2>2. IsFiniteSet(Kept) /\ IsFiniteSet(P)
    BY <1>4, <2>1, FS_Subset
  <2> QED BY <1>4, <2>1, <2>2, SumOverNat
<1> HIDE DEF Kept, New, Ends
<1> QED BY <1>1, <1>4, <1>5, <1>9, <1>14, <1>15, <1>16, <1>17, <1>18, <1>19

\* Every step of the pool preserves solvency.
LEMMA SolventStep == SolventInv /\ [Next]_vars => SolventInv'
<1> SUFFICES ASSUME SolventInv, [Next]_vars PROVE SolventInv'
  OBVIOUS
<1>1. ValueInv /\ ValueInv' /\ RingInv /\ RingInv' /\ TypeOK /\ TypeOK'
  BY ValueStep DEF SolventInv, ValueInv, RingInv
<1>2. /\ balance[PoolAddr] \in Nat /\ balance'[PoolAddr] \in Nat
      /\ UnspentValue \in Int /\ balance[PoolAddr] >= UnspentValue
  <2>1. UnspentValue = SumOver(Amounts, Unspent) /\ IsFiniteSet(Unspent)
        /\ \A k \in Unspent : Amounts[k] \in Int
    BY <1>1, UnspentSum DEF UnspentIsSum
  <2>2. UnspentValue \in Int
    BY <2>1, SumOverType
  <2> QED BY <1>1, <2>2, AddressAssumption DEF TypeOK, SolventInv, Solvency
<1>3. CASE TransactStep
  <2>1. PICK sender, ext, proof : Submits(sender, proof, ext)
    BY <1>1, <1>3, TransactShape DEF TypeOK
  <2>2. UnspentValue' = UnspentValue + ext.ext_amount
    BY <1>1, <2>1, TransactValue
  <2>3. ext.ext_amount \in Int
    BY <2>1, ExtAssumption DEF Submits
  <2>4. \/ balance'[PoolAddr] = balance[PoolAddr] + ext.ext_amount
        \/ ext.ext_amount < 0 /\ balance'[PoolAddr] = balance[PoolAddr]
    BY <1>1, <2>1, TransactTokens
  <2>5. balance'[PoolAddr] >= UnspentValue'
    BY <1>2, <2>2, <2>3, <2>4
  <2> QED BY <1>1, <2>5 DEF SolventInv, Solvency
<1>4. CASE AdminStep \/ EnvironmentStep \/ UNCHANGED vars
  <2>1. UNCHANGED <<nextIndex, nullifiers, Leaves>>
    BY <1>4, OtherSteps
  <2>2. UnspentValue' = UnspentValue
    BY <2>1 DEF UnspentValue
  <2>3. balance'[PoolAddr] >= balance[PoolAddr]
    BY <1>1, <1>4, OtherTokens
  <2> QED BY <1>1, <1>2, <2>2, <2>3 DEF SolventInv, Solvency
<1> QED BY <1>3, <1>4 DEF Next

\* An empty pool is solvent.
LEMMA SolventInit == Init => SolventInv
<1> SUFFICES ASSUME Init PROVE SolventInv
  OBVIOUS
<1>1. ValueInv /\ RingInv
  BY ValueInit DEF ValueInv
<1>2. Unspent = {}
  BY DEF Init, Unspent
<1>3. UnspentValue = SumOver(Amounts, {})
  BY <1>1, <1>2, UnspentSum DEF UnspentIsSum
<1>4. UnspentValue = 0
  BY <1>3, FS_EmptySet, SumOverUnfold
<1>5. balance[PoolAddr] = 0
  BY AddressAssumption DEF Init
<1> QED BY <1>1, <1>4, <1>5 DEF SolventInv, Solvency

\* The pool is solvent: its tokens cover every unspent note, for any number
\* of inputs, any amounts, any roots made up by provers, any dummy inputs.
THEOREM PoolIsSolvent == Spec => []Solvency
<1>1. SolventInv => Solvency
  BY DEF SolventInv
<1> QED BY <1>1, SolventInit, SolventStep, PTL DEF Spec
-----------------------------------------------------------------------------
(* Every unspent note can be withdrawn.                                    *)

\* Distinct unspent notes are worth at most all the unspent notes.
LEMMA InputsBelowUnspent ==
  ASSUME SolventInv, NEW inputs, SpendLeaves(inputs),
         \A i \in 1..NIns : NullifierOf(inputs[i]) \notin nullifiers
  PROVE  InputSum(inputs) \in Nat /\ InputSum(inputs) <= balance[PoolAddr]
<1> DEFINE P == Positions(inputs)
<1>1. RingInv /\ balance[PoolAddr] \in Nat /\ balance[PoolAddr] >= UnspentValue
  BY AddressAssumption DEF SolventInv, ValueInv, RingInv, TypeOK, Solvency
<1>2. /\ P \subseteq 1..nextIndex
      /\ InputSum(inputs) = SumOver(Amounts, P)
  BY <1>1, PositionsValue
<1>3. P \subseteq Unspent
  <2>1. ASSUME NEW k \in P PROVE k \in Unspent
    <3>1. PICK i \in Valued(inputs) : k = inputs[i].path + 1
      BY DEF Positions
    <3>2. /\ i \in 1..NIns /\ inputs[i].path \in Nat
          /\ inputs[i].note = Leaves[inputs[i].path + 1]
      BY DEF SpendLeaves, Valued
    <3>3. NullifierAt(k) = NullifierOf(inputs[i])
      BY <3>1, <3>2 DEF NullifierAt, NullifierOf
    <3> QED BY <1>2, <3>2, <3>3 DEF Unspent
  <2> QED BY <2>1
<1>4. /\ UnspentValue = SumOver(Amounts, Unspent) /\ IsFiniteSet(Unspent)
      /\ \A k \in Unspent : Amounts[k] \in Nat
  BY <1>1, UnspentSum DEF UnspentIsSum
<1> HIDE DEF P
<1>5. SumOver(Amounts, Unspent) = SumOver(Amounts, P) + SumOver(Amounts, Unspent \ P)
  BY <1>3, <1>4, SumOverSplit
<1>6. IsFiniteSet(P) /\ IsFiniteSet(Unspent \ P)
  BY <1>3, <1>4, FS_Subset
<1>7. SumOver(Amounts, P) \in Nat /\ SumOver(Amounts, Unspent \ P) \in Nat
  BY <1>3, <1>4, <1>6, SumOverNat
<1> QED BY <1>1, <1>2, <1>4, <1>5, <1>7

\* The inputs an honest owner takes from a state of the tree are its leaves.
LEMMA HonestSpendLeaves ==
  ASSUME RingInv, NEW k \in 0..Transactions,
         NEW inputs \in [1..NIns -> HonestInputs(TreeAfter(k))],
         \A i, j \in 1..NIns : i # j => inputs[i] # inputs[j]
  PROVE  /\ SpendLeaves(inputs)
         /\ \A i, j \in 1..NIns :
              i # j => NullifierOf(inputs[i]) # NullifierOf(inputs[j])
         /\ \A i \in 1..NIns : InTree(TreeAfter(k), inputs[i])
<1> DEFINE root == TreeAfter(k)
<1>1. /\ 2 * k <= nextIndex /\ nextIndex \in Nat
      /\ Leaves \in Seq(Commitment) /\ Len(Leaves) = nextIndex
  BY TreeFacts DEF Transactions
<1>2. Len(root) = 2 * k /\ \A i \in 1..(2 * k) : root[i] = Leaves[i]
  BY <1>1 DEF TreeAfter
<1> HIDE DEF root
<1>3. ASSUME NEW i \in 1..NIns
      PROVE  /\ inputs[i] \in InputsTried(root)
             /\ inputs[i].note.amount \in Nat /\ inputs[i].path \in Nat
             /\ InTree(root, inputs[i])
             /\ inputs[i] = [note |-> inputs[i].note, path |-> inputs[i].path]
  <2>1. inputs[i] \in InputsTried(root)
    BY DEF HonestInputs, root
  <2>2. /\ inputs[i].note \in [owner : Users, amount : NoteAmounts]
        /\ inputs[i].path \in DummyPaths \cup 0..(Len(root) - 1)
        /\ inputs[i] = [note |-> inputs[i].note, path |-> inputs[i].path]
    BY <2>1 DEF InputsTried
  <2>3. inputs[i].note.amount \in Nat
    BY <2>2, NotesAssumption, AmountAssumption
  <2>4. inputs[i].path \in Nat
    BY <2>2, <1>2, PathsAssumption
  <2>5. InTree(root, inputs[i])
    BY <2>1 DEF InputsTried, InTree
  <2> QED BY <2>1, <2>2, <2>3, <2>4, <2>5
<1>4. ASSUME NEW i \in 1..NIns, NEW j \in 1..NIns, i # j
      PROVE  NullifierOf(inputs[i]) # NullifierOf(inputs[j])
  BY <1>3, <1>4 DEF NullifierOf
<1>5. ASSUME NEW i \in Valued(inputs)
      PROVE  inputs[i].path < nextIndex /\ inputs[i].note = Leaves[inputs[i].path + 1]
  <2>1. i \in 1..NIns /\ inputs[i].note.amount # 0
    BY DEF Valued
  <2>2. /\ inputs[i].path < Len(root) /\ root[inputs[i].path + 1] = inputs[i].note
        /\ inputs[i].path \in Nat
    BY <1>3, <2>1 DEF InTree
  <2>3. inputs[i].path + 1 \in 1..(2 * k) /\ inputs[i].path < nextIndex
    BY <1>1, <1>2, <2>2
  <2> QED BY <1>2, <2>2, <2>3
<1>6. ASSUME NEW i \in Valued(inputs), NEW j \in Valued(inputs),
             inputs[i].path = inputs[j].path
      PROVE  i = j
  <2>1. inputs[i].note = inputs[j].note
    BY <1>5, <1>6
  <2>2. i \in 1..NIns /\ j \in 1..NIns
    BY DEF Valued
  <2> QED BY <1>4, <1>6, <2>1, <2>2 DEF NullifierOf
<1> QED BY <1>3, <1>4, <1>5, <1>6 DEF SpendLeaves, root

\* The checks of transact all pass for such a withdrawal.
LEMMA WithdrawalPasses ==
  ASSUME SolventInv, nextIndex < 2^Levels,
         NEW k \in 0..Transactions, Transactions - k < RootHistorySize,
         NEW inputs \in [1..NIns -> HonestInputs(TreeAfter(k))],
         \A i, j \in 1..NIns : i # j => inputs[i] # inputs[j],
         NEW recipient \in Accounts
  PROVE  WithdrawalAccepted(TreeAfter(k), inputs, recipient)
<1> DEFINE root == TreeAfter(k)
           amount == InputSum(inputs)
           ext == [ext_amount |-> -amount, recipient |-> recipient]
           zero == [owner |-> inputs[1].note.owner, amount |-> 0]
           m == memberRoot[aspMembership]
           b == blockedRoot[aspNonMembership]
           proof == ProofOf(root, inputs, <<zero, zero>>, ext, m, b)
<1> SUFFICES ASSUME amount < AmountBound, amount <= I128Max,
                    NEW sender \in Accounts \ {PoolAddr}
             PROVE  Accepts(sender, proof, ext)
  BY DEF WithdrawalAccepted, InputSum
<1>0. RingInv /\ TypeOK
  BY DEF SolventInv, ValueInv, RingInv
<1>1. /\ SpendLeaves(inputs)
      /\ \A i, j \in 1..NIns :
           i # j => NullifierOf(inputs[i]) # NullifierOf(inputs[j])
      /\ \A i \in 1..NIns : InTree(root, inputs[i])
  BY <1>0, HonestSpendLeaves
<1>2. \A i \in 1..NIns :
        /\ NullifierOf(inputs[i]) \notin nullifiers
        /\ inputs[i].path < 2^Levels
        /\ inputs[i].note.owner \in m \ b
  BY DEF HonestInputs
<1>3. amount \in Nat /\ amount <= balance[PoolAddr]
  BY <1>1, <1>2, InputsBelowUnspent
<1>4. Field \in Nat /\ Field > 0 /\ amount < Field
  <2> DEFINE B == AmountBound
  <2>1. B \in Nat \ {0} /\ Field \in Nat /\ Field > (NIns + 3) * B /\ NIns \in Nat
    BY AmountAssumption, InputsAssumption
  <2>2. (NIns + 3) * B = NIns * B + 3 * B /\ NIns * B \in Nat
    BY <2>1
  <2>3. amount < B
    OBVIOUS
  <2> HIDE DEF B, amount
  <2> QED BY <1>3, <2>1, <2>2, <2>3
<1>5. /\ proof.root = root /\ proof.inputs = inputs
      /\ proof.outputs[1] = zero /\ proof.outputs[2] = zero
      /\ proof.ext_data_hash = ext
      /\ proof.asp_membership_root = m /\ proof.asp_non_membership_root = b
      /\ proof.public_amount = (-amount) % Field
  <2>1. PublicAmountOf(inputs, <<zero, zero>>) = (0 + 0 - amount) % Field
    BY DEF PublicAmountOf, InputSum
  <2>2. 0 + 0 - amount = -amount
    <3> HIDE DEF amount
    <3> QED BY <1>3
  <2>3. PublicAmountOf(inputs, <<zero, zero>>) = (-amount) % Field
    BY <2>1, <2>2
  <2> QED BY <2>3 DEF ProofOf
<1>6. /\ (-amount) % Field = IF amount = 0 THEN 0 ELSE Field - amount
      /\ (amount + ((-amount) % Field)) % Field = 0
  <2> HIDE DEF amount
  <2> QED BY <1>3, <1>4, Complement
<1>7. ext.ext_amount = -amount /\ zero.amount = 0
  OBVIOUS
<1>8. InputSum(proof.inputs) = amount
  BY <1>5
<1> HIDE DEF root, amount, ext, zero, m, b, proof
<1>9. DepositAllowed(sender, ext) /\ WithdrawalAllowed(ext)
  BY <1>3, <1>7 DEF DepositAllowed, WithdrawalAllowed
<1>10. IsKnownRoot(proof.root)
  <2>1. HistoryWindow
    BY <1>0, RingGivesWindow
  <2> QED BY <1>5, <2>1 DEF HistoryWindow, IsKnownRoot, root
<1>11. InputsUnspent(proof)
  BY <1>2, <1>5 DEF InputsUnspent, IsSpent
<1>12. PublicAmountMatches(proof, ext)
  <2>1. Abs(-amount) = amount
    BY <1>3 DEF Abs
  <2>2. CalculatePublicAmount(-amount) = IF amount = 0 THEN 0 ELSE Field - amount
    BY <1>3, <2>1 DEF CalculatePublicAmount
  <2> QED BY <1>5, <1>6, <1>7, <2>1, <2>2 DEF PublicAmountMatches
<1>13. AspRootsMatch(proof)
  BY <1>5 DEF AspRootsMatch, m, b
<1>14. InputsOK(proof) /\ NullifiersDistinct(proof)
  BY <1>1, <1>2, <1>5 DEF InputsOK, NullifiersDistinct
<1>15. Balanced(proof)
  <2>1. proof.outputs[1].amount + proof.outputs[2].amount = 0
    BY <1>5, <1>7
  <2>2. 0 % Field = 0
    BY <1>4
  <2> QED BY <1>5, <1>6, <1>8, <2>1, <2>2 DEF Balanced, InputSum
<1>16. VerifyProof(proof)
  <2>1. proof.public_amount < Field
    BY <1>3, <1>4, <1>5, <1>6
  <2>2. \A l \in 1..2 : proof.outputs[l].amount < AmountBound
    BY <1>3, <1>5, <1>7, AmountAssumption
  <2> QED BY <1>14, <1>15, <2>1, <2>2 DEF VerifyProof, CircuitAccepts
<1>17. HasRoom
  <2>1. nextIndex \in Nat /\ nextIndex % 2 = 0
    BY <1>0, TreeFacts
  <2>2. 2^Levels \in Nat /\ (2^Levels) % 2 = 0
    BY CapacityAssumption
  <2> DEFINE c == 2^Levels
  <2>3. c \in Nat /\ c % 2 = 0 /\ nextIndex < c
    BY <2>2
  <2> HIDE DEF c
  <2>4. nextIndex + 2 <= c
    BY <2>1, <2>3
  <2> QED BY <2>1, <2>4 DEF HasRoom, c
<1>18. proof.ext_data_hash = ext
  BY <1>5
<1> QED BY <1>9, <1>10, <1>11, <1>12, <1>13, <1>16, <1>17, <1>18 DEF Accepts

\* The owner of unspent notes can always take them out: while the tree has
\* room, no order of transactions, administration, policy updates for others
\* or transfers makes transact refuse an accepted owner's full withdrawal.
THEOREM WithdrawalsSucceed == Spec => []WithdrawalWhileRoom
<1>1. SolventInv => WithdrawalWhileRoom
  BY WithdrawalPasses DEF WithdrawalWhileRoom, FullWithdrawalAccepted
<1> QED BY <1>1, SolventInit, SolventStep, PTL DEF Spec
=============================================================================
