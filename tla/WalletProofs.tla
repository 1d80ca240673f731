---------------------------- MODULE WalletProofs ----------------------------
(***************************************************************************)
(* Proofs about what a wallet relies on.                                   *)
(*                                                                         *)
(* Disclosure, for every set of pools, purposes, root history and number   *)
(* of transactions and receipts: a receipt is issued for a note that was   *)
(* unspent as far as the store had processed notes, verifies only as it    *)
(* was issued and for a note of the pool it names, and an honest one fails *)
(* only by age.                                                            *)
(*                                                                         *)
(* Flows, for every finite set of accounts, range of amounts and field     *)
(* that exceeds the sums of a transaction: the prover's flows build        *)
(* exactly the well formed requests, the circuit and the pool accept       *)
(* exactly those of them against which nothing stands (a note used before, *)
(* a root out of date, a deposit above the cap), and the notes that        *)
(* wallets find are worth the pool's balance.                              *)
(***************************************************************************)
EXTENDS Flows, Disclosure, Arithmetic, SequenceTheorems, TLAPS

-----------------------------------------------------------------------------
(* Receipts as values.                                                     *)

\* What a receipt of this build holds, in terms of what varies.
PublicPart(root, c, hash) ==
    [roots |-> <<root>>, noteCommitments |-> <<c>>, extContextHash |-> hash]
Made(context, root, c) ==
    [version |-> Version, name |-> CircuitName, vk_hash |-> Vk, context |-> context,
     public |-> PublicPart(root, c, DeriveExtContextHash(context)),
     proof |-> [vk |-> Vk, inputs |-> <<root, c, DeriveExtContextHash(context)>>]]

\* Every receipt in circulation has this form, under a context of this network.
IsMade(r) ==
    \E p, purpose, root, c : r = Made(Context(p, purpose), root, c)

LEMMA ThreeInputs ==
    ASSUME NEW a, NEW b, NEW h PROVE <<a>> \o <<b>> \o <<h>> = <<a, b, h>>
<1> DEFINE S == {a, b, h}
           l == <<h>>
           ab == <<a>> \o <<b>>
           t == <<a, b, h>>
<1>1. /\ <<a>> \in Seq(S) /\ <<b>> \in Seq(S)
      /\ l \in Seq(S) /\ Len(l) = 1 /\ l[1] = h
      /\ t \in Seq(S) /\ Len(t) = 3 /\ t[1] = a /\ t[2] = b /\ t[3] = h
  OBVIOUS
<1>2. ab \in Seq(S) /\ Len(ab) = 2 /\ ab[1] = a /\ ab[2] = b
  BY <1>1
<1> HIDE DEF S, l, ab, t
<1>3. /\ ab \o l \in Seq(S) /\ Len(ab \o l) = 3
      /\ \A i \in 1 .. 3 : (ab \o l)[i] = IF i <= 2 THEN ab[i] ELSE l[i - 2]
  BY <1>1, <1>2, ConcatProperties
<1>4. (ab \o l)[1] = a /\ (ab \o l)[2] = b /\ (ab \o l)[3] = h
  BY <1>1, <1>2, <1>3
<1>5. \A i \in 1 .. 3 : i = 1 \/ i = 2 \/ i = 3
  OBVIOUS
<1>6. \A i \in 1 .. Len(ab \o l) : (ab \o l)[i] = t[i]
  BY <1>1, <1>3, <1>4, <1>5
<1>7. ab \o l = t
  BY <1>1, <1>3, <1>6, SeqEqual
<1> QED BY <1>7 DEF ab, l, t

LEMMA PublicFields ==
    ASSUME NEW root, NEW c, NEW h
    PROVE  /\ PublicPart(root, c, h).roots = <<root>>
           /\ PublicPart(root, c, h).noteCommitments = <<c>>
           /\ PublicPart(root, c, h).extContextHash = h
  BY DEF PublicPart

LEMMA MadeFields ==
    ASSUME NEW x, NEW root, NEW c
    PROVE  /\ Made(x, root, c).version = Version
           /\ Made(x, root, c).name = CircuitName
           /\ Made(x, root, c).vk_hash = Vk
           /\ Made(x, root, c).context = x
           /\ Made(x, root, c).public = PublicPart(root, c, DeriveExtContextHash(x))
           /\ Made(x, root, c).proof =
                [vk |-> Vk, inputs |-> <<root, c, DeriveExtContextHash(x)>>]
  BY DEF Made

\* A receipt is made of its parts.
LEMMA ReceiptIsMade ==
    ASSUME NEW p, NEW purpose, NEW in
    PROVE  Receipt(p, purpose, in, Vk) = Made(Context(p, purpose), in.root, in.commitment)
<1> DEFINE h == DeriveExtContextHash(Context(p, purpose))
           pub == PublicPart(in.root, in.commitment, h)
<1>1. SelectiveDisclosure1(in, h) = pub
  BY DEF SelectiveDisclosure1, PublicPart
<1>2. ExtractPublicInputs(pub) = <<in.root, in.commitment, h>>
  <2>1. pub.roots = <<in.root>> /\ pub.noteCommitments = <<in.commitment>> /\ pub.extContextHash = h
    BY PublicFields
  <2> HIDE DEF pub, h
  <2>2. ExtractPublicInputs(pub) = <<in.root>> \o <<in.commitment>> \o <<h>>
    BY <2>1 DEF ExtractPublicInputs
  <2> QED BY <2>2, ThreeInputs
<1>3. ProofOf(Vk, pub) = [vk |-> Vk, inputs |-> <<in.root, in.commitment, h>>]
  BY <1>2 DEF ProofOf
<1> QED BY <1>1, <1>3 DEF Receipt, Made

\* The context hash takes in every field that a client can change.
LEMMA ContextFields ==
    ASSUME NEW p, NEW purpose
    PROVE  /\ Context(p, purpose).network = "testnet"
           /\ Context(p, purpose).pool_address = p
           /\ Context(p, purpose).purpose = purpose
           /\ Context(p, purpose).authority_label = "authority"
           /\ Context(p, purpose).authority_identity_payload_hex = "0x01"
           /\ Context(p, purpose).context_nonce = 7
  BY DEF Context

LEMMA HashBindsContext ==
    ASSUME NEW p, NEW purpose, NEW q, NEW other,
           DeriveExtContextHash(Context(p, purpose)) = DeriveExtContextHash(Context(q, other))
    PROVE  p = q /\ purpose = other
<1> DEFINE x == DeriveExtContextHash(Context(p, purpose))
           y == DeriveExtContextHash(Context(q, other))
<1>1. x[3] = p /\ x[6] = purpose
  BY ContextFields DEF DeriveExtContextHash
<1>2. y[3] = q /\ y[6] = other
  BY ContextFields DEF DeriveExtContextHash
<1> HIDE DEF x, y
<1>3. x = y
  BY DEF x, y
<1> QED BY <1>1, <1>2, <1>3

LEMMA MadeParts ==
    ASSUME NEW r, NEW p, NEW purpose, NEW root, NEW c, r = Made(Context(p, purpose), root, c)
    PROVE  /\ r.context = Context(p, purpose) /\ r.context.pool_address = p
           /\ r.public.roots = <<root>> /\ r.public.noteCommitments = <<c>>
<1> DEFINE x == Context(p, purpose)
           h == DeriveExtContextHash(x)
<1>0. r = Made(x, root, c)
  OBVIOUS
<1> HIDE DEF x
<1>a. r.context = x
  <2> HIDE DEF h
  <2> QED BY <1>0 DEF Made
<1>b. r.public = PublicPart(root, c, h)
  BY <1>0, MadeFields
<1>1. r.context = Context(p, purpose) /\ r.public = PublicPart(root, c, h)
  BY <1>a, <1>b DEF x
<1> HIDE DEF h
<1>2. r.public.roots = <<root>> /\ r.public.noteCommitments = <<c>>
  BY <1>1, PublicFields
<1>3. r.context.pool_address = p
  BY <1>1, ContextFields
<1> QED BY <1>1, <1>2, <1>3

LEMMA MadeInputs ==
    ASSUME NEW r, IsMade(r)
    PROVE  \E root, c : r.public.roots = <<root>> /\ r.public.noteCommitments = <<c>>
<1>1. PICK p, purpose, root, c : r = Made(Context(p, purpose), root, c)
  BY DEF IsMade
<1> QED BY <1>1, MadeParts

\* The checks of a receipt that do not depend on the chain.
PassesAlone(r) ==
    /\ ValidateRegisteredReceipt(r, Vk)
    /\ ProofVerifies(Vk, r.proof, PublicInputsBytes(r))
    /\ VerifyReceiptContext(r)

\* The proof and the context hash of a made receipt are the ones checked.
LEMMA MadePasses ==
    ASSUME NEW r, IsMade(r)
    PROVE  ProofVerifies(Vk, r.proof, PublicInputsBytes(r)) /\ VerifyReceiptContext(r)
<1>1. PICK p, purpose, root, c : r = Made(Context(p, purpose), root, c)
  BY DEF IsMade
<1> DEFINE x == Context(p, purpose)
           h == DeriveExtContextHash(x)
<1>2. /\ r.context = x /\ r.public = PublicPart(root, c, h)
      /\ r.proof = [vk |-> Vk, inputs |-> <<root, c, h>>]
  BY <1>1, MadeFields
<1> HIDE DEF x
<1>3. /\ r.public.roots = <<root>> /\ r.public.noteCommitments = <<c>>
      /\ r.public.extContextHash = h
  BY <1>2, PublicFields
<1>4. PublicInputsBytes(r) = <<root>> \o <<c>> \o <<h>>
  BY <1>3 DEF PublicInputsBytes
<1>5. PublicInputsBytes(r) = <<root, c, h>>
  BY <1>4, ThreeInputs
<1> QED BY <1>2, <1>3, <1>5 DEF ProofVerifies, VerifyReceiptContext

\* A proof is bound to each public input.
LEMMA ProofBindsInputs ==
    ASSUME NEW r, NEW a, NEW b, NEW h, NEW root, NEW c, NEW g,
           r.public = PublicPart(a, b, h),
           r.proof = [vk |-> Vk, inputs |-> <<root, c, g>>],
           ProofVerifies(Vk, r.proof, PublicInputsBytes(r))
    PROVE  a = root /\ b = c /\ h = g
<1>1. /\ r.public.roots = <<a>> /\ r.public.noteCommitments = <<b>>
      /\ r.public.extContextHash = h
  BY PublicFields
<1>2. PublicInputsBytes(r) = <<a>> \o <<b>> \o <<h>>
  BY <1>1 DEF PublicInputsBytes
<1>3. PublicInputsBytes(r) = <<a, b, h>>
  BY <1>2, ThreeInputs
<1>4. [vk |-> Vk, inputs |-> <<root, c, g>>] = [vk |-> Vk, inputs |-> <<a, b, h>>]
  BY <1>3 DEF ProofVerifies
<1>5. <<root, c, g>> = <<a, b, h>>
  BY <1>4
<1> QED BY <1>5

\* A made receipt with one part exchanged passes only if the part is the same.
LEMMA ContextExchange ==
    ASSUME NEW s, IsMade(s), NEW q, NEW other, NEW r,
           r = [s EXCEPT !.context = Context(q, other)], PassesAlone(r)
    PROVE  r = s
<1>1. PICK p, purpose, root, c : s = Made(Context(p, purpose), root, c)
  BY DEF IsMade
<1> DEFINE x == Context(p, purpose)
           y == Context(q, other)
           pub == PublicPart(root, c, DeriveExtContextHash(x))
           pr == [vk |-> Vk, inputs |-> <<root, c, DeriveExtContextHash(x)>>]
<1>2. s = [version |-> Version, name |-> CircuitName, vk_hash |-> Vk, context |-> x,
           public |-> pub, proof |-> pr]
  BY <1>1 DEF Made
<1>3. pub.extContextHash = DeriveExtContextHash(x)
  BY PublicFields
<1>4. r = [s EXCEPT !.context = y]
  OBVIOUS
<1> HIDE DEF pub, pr, x, y
<1>5. r = [version |-> Version, name |-> CircuitName, vk_hash |-> Vk, context |-> y,
           public |-> pub, proof |-> pr]
  BY <1>2, <1>4
<1>6. r.context = y /\ r.public = pub
  BY <1>5
<1>7. DeriveExtContextHash(y) = DeriveExtContextHash(x)
  BY <1>3, <1>6 DEF PassesAlone, VerifyReceiptContext
<1>8. x = y
  BY <1>7, HashBindsContext DEF x, y
<1> QED BY <1>2, <1>5, <1>8

LEMMA PublicExchange ==
    ASSUME NEW s, IsMade(s), NEW a, NEW b, NEW h, NEW r,
           r = [s EXCEPT !.public = PublicPart(a, b, h)], PassesAlone(r)
    PROVE  r = s
<1>1. PICK p, purpose, root, c : s = Made(Context(p, purpose), root, c)
  BY DEF IsMade
<1> DEFINE x == Context(p, purpose)
           g == DeriveExtContextHash(x)
           pub == PublicPart(root, c, g)
           new == PublicPart(a, b, h)
           pr == [vk |-> Vk, inputs |-> <<root, c, g>>]
<1>2. s = [version |-> Version, name |-> CircuitName, vk_hash |-> Vk, context |-> x,
           public |-> pub, proof |-> pr]
  BY <1>1 DEF Made
<1>3. r = [s EXCEPT !.public = new]
  OBVIOUS
<1> HIDE DEF pub, pr, x, new
<1>4. r = [version |-> Version, name |-> CircuitName, vk_hash |-> Vk, context |-> x,
           public |-> new, proof |-> pr]
  BY <1>2, <1>3
<1>5. r.public = new /\ r.proof = pr
  BY <1>4
<1>6. a = root /\ b = c /\ h = g
  <2>1. r.public = PublicPart(a, b, h)
    BY <1>5 DEF new
  <2>2. r.proof = [vk |-> Vk, inputs |-> <<root, c, g>>]
    BY <1>5 DEF pr
  <2>3. ProofVerifies(Vk, r.proof, PublicInputsBytes(r))
    BY DEF PassesAlone
  <2> HIDE DEF g
  <2> QED BY <2>1, <2>2, <2>3, ProofBindsInputs
<1>7. new = pub
  BY <1>6 DEF new, pub
<1> QED BY <1>2, <1>4, <1>7

LEMMA ProofExchange ==
    ASSUME NEW s, IsMade(s), NEW proof, NEW r,
           r = [s EXCEPT !.proof = proof], PassesAlone(r)
    PROVE  r = s
<1>1. PICK p, purpose, root, c : s = Made(Context(p, purpose), root, c)
  BY DEF IsMade
<1> DEFINE x == Context(p, purpose)
           pub == PublicPart(root, c, DeriveExtContextHash(x))
           pr == [vk |-> Vk, inputs |-> <<root, c, DeriveExtContextHash(x)>>]
<1>2. s = [version |-> Version, name |-> CircuitName, vk_hash |-> Vk, context |-> x,
           public |-> pub, proof |-> pr]
  BY <1>1 DEF Made
<1>3. ProofVerifies(Vk, s.proof, PublicInputsBytes(s))
  BY MadePasses
<1> HIDE DEF pub, pr, x
<1>4. r = [version |-> Version, name |-> CircuitName, vk_hash |-> Vk, context |-> x,
           public |-> pub, proof |-> proof]
  BY <1>2
<1>5. r.public = s.public /\ r.proof = proof /\ s.proof = pr
  BY <1>2, <1>4
<1>6. PublicInputsBytes(r) = PublicInputsBytes(s)
  BY <1>5 DEF PublicInputsBytes
<1>7. proof = pr
  BY <1>3, <1>5, <1>6 DEF PassesAlone, ProofVerifies
<1> QED BY <1>2, <1>4, <1>7

LEMMA ContextsOfPools ==
    ASSUME NEW y \in Contexts PROVE \E q, other : y = Context(q, other)
  BY DEF Contexts

\* Whatever is presented, only a receipt as it was issued passes.
LEMMA OnlyIssuedPass ==
    ASSUME \A q \in Issued : IsMade(q), NEW r \in Presentable, PassesAlone(r)
    PROVE  r \in Issued
<1>1. PICK s \in Issued :
        r \in {s, [s EXCEPT !.version = 2], [s EXCEPT !.name = "other"],
               [s EXCEPT !.vk_hash = "other"], [s EXCEPT !.public.roots = <<>>]}
              \union {[s EXCEPT !.context = c] : c \in Contexts}
              \union {[s EXCEPT !.context.network = "mainnet"], [s EXCEPT !.context.purpose = ""]}
              \union {[s EXCEPT !.public.roots = q.public.roots] : q \in Issued}
              \union {[s EXCEPT !.public.noteCommitments = q.public.noteCommitments] : q \in Issued}
              \union {[s EXCEPT !.public.extContextHash = q.public.extContextHash] : q \in Issued}
              \union {[s EXCEPT !.proof = q.proof] : q \in Issued}
  BY Zenon DEF Presentable
<1>2. PICK p, purpose, root, c : s = Made(Context(p, purpose), root, c)
  BY DEF IsMade
<1> DEFINE x == Context(p, purpose)
           h == DeriveExtContextHash(x)
           pub == PublicPart(root, c, h)
           pr == [vk |-> Vk, inputs |-> <<root, c, h>>]
<1>3. s = [version |-> Version, name |-> CircuitName, vk_hash |-> Vk, context |-> x,
           public |-> pub, proof |-> pr]
  BY <1>2 DEF Made
<1>4. IsMade(s)
  OBVIOUS
<1>5. pub = [roots |-> <<root>>, noteCommitments |-> <<c>>, extContextHash |-> h]
  BY DEF PublicPart
<1> HIDE DEF pub, pr, h, x
<1>6. ASSUME r = [s EXCEPT !.version = 2] PROVE FALSE
  <2>1. r.version = 2
    BY <1>3, <1>6
  <2> QED BY <2>1 DEF PassesAlone, ValidateRegisteredReceipt, ValidateReceipt, ReceiptValid, Version
<1>7. ASSUME r = [s EXCEPT !.name = "other"] PROVE FALSE
  <2>1. r.name = "other"
    BY <1>3, <1>7
  <2> QED BY <2>1 DEF PassesAlone, ValidateRegisteredReceipt, FindCircuit, CircuitName
<1>8. ASSUME r = [s EXCEPT !.vk_hash = "other"] PROVE FALSE
  <2>1. r.vk_hash = "other"
    BY <1>3, <1>8
  <2> QED BY <2>1 DEF PassesAlone, ValidateRegisteredReceipt, ValidateReceipt, Vk
<1>9. ASSUME NEW v, r = [s EXCEPT !.public.roots = v] PROVE r.public.roots = v
  BY <1>3, <1>5, <1>9
<1>10. ASSUME r = [s EXCEPT !.public.roots = <<>>] PROVE FALSE
  <2>1. r.public.roots = <<>>
    BY <1>9, <1>10
  <2> QED BY <2>1 DEF PassesAlone, ValidateRegisteredReceipt, ValidateReceipt, ReceiptValid
<1>11. ASSUME NEW y \in Contexts, r = [s EXCEPT !.context = y] PROVE r = s
  <2>1. PICK q, other : y = Context(q, other)
    BY <1>11, ContextsOfPools
  <2> QED BY <1>4, <1>11, <2>1, ContextExchange
<1>12. ASSUME r = [s EXCEPT !.context.network = "mainnet"] PROVE FALSE
  <2>1. r.context.network = "mainnet" /\ r.public = pub
    BY <1>3, <1>12 DEF x, Context
  <2>2. DeriveExtContextHash(r.context)[2] = "mainnet"
    BY <2>1 DEF DeriveExtContextHash
  <2>3. h[2] = "testnet"
    BY ContextFields DEF h, x, DeriveExtContextHash
  <2>4. DeriveExtContextHash(r.context) = h
    BY <1>5, <2>1 DEF PassesAlone, VerifyReceiptContext
  <2> QED BY <2>2, <2>3, <2>4
<1>13. ASSUME r = [s EXCEPT !.context.purpose = ""] PROVE FALSE
  <2>1. r.context.purpose = ""
    BY <1>3, <1>13 DEF x, Context
  <2>2. r.context["purpose"] = ""
    BY <2>1
  <2> QED BY <2>2 DEF PassesAlone, ValidateRegisteredReceipt, ValidateReceipt, ReceiptValid,
                      ContextValid, Fields
<1>14. ASSUME NEW q \in Issued, r = [s EXCEPT !.public.roots = q.public.roots] PROVE r = s
  <2>1. PICK a : q.public.roots = <<a>>
    BY MadeInputs
  <2>2. r = [s EXCEPT !.public = PublicPart(a, c, h)]
    BY <1>3, <1>5, <1>14, <2>1 DEF PublicPart
  <2> QED BY <1>4, <2>2, PublicExchange
<1>15. ASSUME NEW q \in Issued,
              r = [s EXCEPT !.public.noteCommitments = q.public.noteCommitments]
       PROVE  r = s
  <2>1. PICK b : q.public.noteCommitments = <<b>>
    BY MadeInputs
  <2>2. r = [s EXCEPT !.public = PublicPart(root, b, h)]
    BY <1>3, <1>5, <1>15, <2>1 DEF PublicPart
  <2> QED BY <1>4, <2>2, PublicExchange
<1>16. ASSUME NEW q \in Issued,
              r = [s EXCEPT !.public.extContextHash = q.public.extContextHash]
       PROVE  r = s
  <2>1. PICK g : q.public.extContextHash = g
    OBVIOUS
  <2>2. r = [s EXCEPT !.public = PublicPart(root, c, g)]
    BY <1>3, <1>5, <1>16, <2>1 DEF PublicPart
  <2> QED BY <1>4, <2>2, PublicExchange
<1>17. ASSUME NEW q \in Issued, r = [s EXCEPT !.proof = q.proof] PROVE r = s
  <2>1. PICK proof : q.proof = proof
    OBVIOUS
  <2> QED BY <1>4, <1>17, <2>1, ProofExchange
<1> QED
  BY <1>1, <1>6, <1>7, <1>8, <1>10, <1>11, <1>12, <1>13, <1>14, <1>15, <1>16, <1>17, Zenon

-----------------------------------------------------------------------------
(* The inductive invariant.                                                *)

Transactions == [owner : {Account, Other}, spends : Nat]

\* The leaves of a pool, and a note of the account in the tree of the first n
\* transactions, unspent as far as the first k of them tell, as functions of the
\* pool's transactions.
Leaf(txs, p, i) == ComputeCommitment(1, Keys(txs[i].owner).notePublic, <<p, i>>)
Leaves(txs, p, n) == [i \in 1..n |-> Leaf(txs, p, i)]
Issuable(txs, p, root, c, n, k) ==
    /\ n \in 0 .. Len(txs) /\ k \in 0 .. n
    /\ root = Leaves(txs, p, n)
    /\ \E i \in 1 .. k : /\ c = Leaf(txs, p, i)
                         /\ txs[i].owner = Account
                         /\ \A j \in 1 .. k : txs[j].spends # i

ChainTypes ==
    /\ chain \in [Pools -> Seq(Transactions)]
    /\ mirror \in [Pools -> Nat] /\ marked \in [Pools -> Nat]
    /\ \A p \in Pools : marked[p] <= mirror[p] /\ mirror[p] <= Len(chain[p])

\* The inputs of a proof are of a tree the pool had, with the note unspent in it.
GenInv ==
    /\ gen.phase \in {"fetch", "root", "load", "prove"} => gen.pool \in Pools
    /\ gen.phase = "prove" =>
         Issuable(chain[gen.pool], gen.pool, gen.inputs.root, gen.inputs.commitment, gen.next,
                  gen.known)

\* A note of another client, in no pool.
Elsewhere(p, root, c) ==
    root = <<c>> /\ c = ComputeCommitment(1, Keys(Other).notePublic, <<p, 0>>)

ReceiptInv ==
    \A x \in receipts : \E p \in Pools : \E purpose, root, c :
        /\ x.r = Made(Context(p, purpose), root, c)
        /\ x.honest => Issuable(chain[p], p, root, c, x.at, x.known)
        /\ ~x.honest => Elsewhere(p, root, c)

\* What the worker answered is still true when the roots are looked up.
VerInv ==
    ver.phase = "roots" =>
        /\ ver.proof_verified <=> ProofVerifies(Vk, ver.r.proof, PublicInputsBytes(ver.r))
        /\ ver.proof_verified /\ VerifyReceiptContext(ver.r) => ver.r \in Issued

ReportInv == VerifiedAsIssued /\ VerifiedNoteInPool /\ HonestFailsOnlyByAge

DisclosureInv == ChainTypes /\ GenInv /\ ReceiptInv /\ VerInv /\ ReportInv

-----------------------------------------------------------------------------
(* What the invariant says of receipts.                                    *)

LEMMA IssuedAreMade == ReceiptInv => \A q \in Issued : IsMade(q)
  BY DEF ReceiptInv, Issued, IsMade

\* The root of a note that is in no pool is no root of a pool.
LEMMA ElsewhereUnknown ==
    ASSUME ChainTypes, NEW p \in Pools, NEW root, NEW c, Elsewhere(p, root, c)
    PROVE  ~IsKnownRoot(p, root)
<1> SUFFICES ASSUME IsKnownRoot(p, root) PROVE FALSE
  OBVIOUS
<1> DEFINE n == Len(chain[p])
           first == IF n < RootHistory THEN 0 ELSE n - RootHistory + 1
<1>1. PICK k \in first .. n : root = LeavesUpTo(p, k)
  BY DEF IsKnownRoot
<1>2. n \in Nat /\ first \in Nat /\ k \in Nat
  BY <1>1, DisclosureAssumption DEF ChainTypes
<1>3. <<c>> = [i \in 1..k |-> Commitment(p, i)]
  BY <1>1 DEF Elsewhere, LeavesUpTo
<1>4. k = 1
  <2>1. DOMAIN <<c>> = 1..1
    OBVIOUS
  <2>2. 1..1 = 1..k
    BY <1>3, <2>1
  <2> QED BY <1>2, <2>2
<1>5. c = Commitment(p, 1)
  <2>1. <<c>>[1] = c
    OBVIOUS
  <2>2. [i \in 1..k |-> Commitment(p, i)][1] = Commitment(p, 1)
    BY <1>4
  <2> QED BY <1>3, <2>1, <2>2
<1>6. c[4] = <<p, 0>>
  BY DEF Elsewhere, ComputeCommitment, Poseidon2Hash3
<1>7. Commitment(p, 1)[4] = <<p, 1>>
  BY DEF Commitment, ComputeCommitment, Poseidon2Hash3
<1>8. <<p, 0>> = <<p, 1>>
  BY <1>5, <1>6, <1>7
<1> QED BY <1>8

LEMMA IssuedWhileUnspentHolds == ChainTypes /\ ReceiptInv => IssuedWhileUnspent
<1> SUFFICES ASSUME ChainTypes, ReceiptInv, NEW x \in receipts, x.honest
             PROVE  LET p == x.r.context.pool_address
                    IN  /\ x.r.public.roots = <<LeavesUpTo(p, x.at)>>
                        /\ \E i \in 1..x.known :
                              /\ x.r.public.noteCommitments = <<Commitment(p, i)>>
                              /\ chain[p][i].owner = Account
                              /\ i \notin SpentBy(p, x.known)
                        /\ x.known <= x.at
  BY DEF IssuedWhileUnspent
<1>1. PICK p \in Pools : \E purpose, root, c :
        x.r = Made(Context(p, purpose), root, c) /\ Issuable(chain[p], p, root, c, x.at, x.known)
  BY DEF ReceiptInv
<1>2. PICK purpose, root, c :
        x.r = Made(Context(p, purpose), root, c) /\ Issuable(chain[p], p, root, c, x.at, x.known)
  BY <1>1
<1> DEFINE r == x.r
<1>3. r = Made(Context(p, purpose), root, c)
  BY <1>2
<1>4. /\ r.context.pool_address = p
      /\ r.public.roots = <<root>> /\ r.public.noteCommitments = <<c>>
  <2> HIDE DEF r
  <2> QED BY <1>3, MadeParts
<1>5. root = LeavesUpTo(p, x.at)
  BY <1>2 DEF Issuable, Leaves, Leaf, LeavesUpTo, Commitment
<1>6. PICK i \in 1 .. x.known : /\ c = Leaf(chain[p], p, i)
                                /\ chain[p][i].owner = Account
                                /\ \A j \in 1 .. x.known : chain[p][j].spends # i
  BY <1>2 DEF Issuable
<1>7. c = Commitment(p, i) /\ i \notin SpentBy(p, x.known)
  BY <1>6 DEF Leaf, Commitment, SpentBy
<1>8. x.known <= x.at
  <2>1. x.at \in 0 .. Len(chain[p]) /\ x.known \in 0 .. x.at
    BY <1>2 DEF Issuable
  <2> QED BY <2>1
<1> QED BY <1>4, <1>5, <1>6, <1>7, <1>8

\* A pool that grows keeps what was issuable.
LEMMA IssuableGrows ==
    ASSUME NEW txs \in Seq(Transactions), NEW t \in Transactions,
           NEW p, NEW root, NEW c, NEW n, NEW k, Issuable(txs, p, root, c, n, k)
    PROVE  Issuable(Append(txs, t), p, root, c, n, k)
<1> DEFINE new == Append(txs, t)
<1>1. n \in 0 .. Len(txs) /\ k \in 0 .. n
  BY DEF Issuable
<1>2. Len(new) = Len(txs) + 1 /\ Len(txs) \in Nat /\ \A i \in 1 .. Len(txs) : new[i] = txs[i]
  OBVIOUS
<1> HIDE DEF new
<1>3. /\ n \in 0 .. Len(new)
      /\ \A i \in 1 .. n : new[i] = txs[i]
      /\ \A i \in 1 .. k : i \in 1 .. n
  BY <1>1, <1>2
<1>4. \A i \in 1 .. n : Leaf(new, p, i) = Leaf(txs, p, i)
  BY <1>3 DEF Leaf
<1>5. Leaves(new, p, n) = Leaves(txs, p, n)
  BY <1>4 DEF Leaves
<1>6. PICK i \in 1 .. k : /\ c = Leaf(txs, p, i)
                          /\ txs[i].owner = Account
                          /\ \A j \in 1 .. k : txs[j].spends # i
  BY DEF Issuable
<1>7. /\ c = Leaf(new, p, i) /\ new[i].owner = Account
      /\ \A j \in 1 .. k : new[j].spends # i
  BY <1>3, <1>4, <1>6
<1>8. Issuable(new, p, root, c, n, k)
  <2>1. root = Leaves(new, p, n)
    BY <1>5 DEF Issuable
  <2> QED BY <1>1, <1>3, <1>7, <2>1 DEF Issuable
<1> QED BY <1>8 DEF new

-----------------------------------------------------------------------------
(* The invariant is kept.                                                  *)

LEMMA DisclosureStarts == DisclosureInit => DisclosureInv
<1> SUFFICES ASSUME DisclosureInit PROVE DisclosureInv
  OBVIOUS
<1>1. ChainTypes
  <2>1. chain \in [Pools -> Seq(Transactions)]
    BY DisclosureAssumption DEF DisclosureInit, Pools, Transactions
  <2>2. \A p \in Pools : Len(chain[p]) \in Nat
    BY <2>1
  <2> QED BY <2>1, <2>2 DEF DisclosureInit, ChainTypes
<1>2. gen.phase = "idle" /\ ver.phase = "idle" /\ report.kind = "none"
  BY DEF DisclosureInit, Idle
<1>3. GenInv /\ VerInv /\ ReceiptInv
  BY <1>2 DEF DisclosureInit, GenInv, VerInv, ReceiptInv
<1>4. ReportInv
  BY <1>2 DEF ReportInv, VerifiedAsIssued, VerifiedNoteInPool, HonestFailsOnlyByAge, Full
<1> QED BY <1>1, <1>3, <1>4 DEF DisclosureInv

LEMMA NothingReported ==
    ASSUME report'.kind # "report" PROVE ReportInv'
  BY DEF ReportInv, VerifiedAsIssued, VerifiedNoteInPool, HonestFailsOnlyByAge, Full

LEMMA NoReportKind == NoReport => report'.kind # "report"
  BY DEF NoReport

\* An answer about an issued receipt stays true when more are issued.
LEMMA VerKept ==
    ASSUME VerInv, ver' = ver, receipts \subseteq receipts' PROVE VerInv'
<1>1. Issued \subseteq Issued'
  BY DEF Issued
<1> QED BY <1>1 DEF VerInv, VerifyReceiptContext, ProofVerifies, PublicInputsBytes

LEMMA GenOnly ==
    ASSUME DisclosureInv, UNCHANGED <<chain, storeVars, receipts, ver>>, NoReport, GenInv'
    PROVE  DisclosureInv'
<1>1. ChainTypes' /\ ReceiptInv'
  BY DEF DisclosureInv, ChainTypes, ReceiptInv, storeVars
<1>2. VerInv'
  BY VerKept DEF DisclosureInv
<1>3. ReportInv'
  BY NothingReported, NoReportKind
<1> QED BY <1>1, <1>2, <1>3 DEF DisclosureInv

LEMMA PoolTransactKeeps ==
    ASSUME DisclosureInv, PoolTransact PROVE DisclosureInv'
<1>1. PICK p \in Pools, o \in {Account, Other} :
        \E s \in {0} \union (DOMAIN chain[p] \ SpentBy(p, Len(chain[p]))) :
          /\ chain' = [chain EXCEPT ![p] = Append(@, [owner |-> o, spends |-> s])]
          /\ UNCHANGED <<storeVars, worker, gen, receipts, ver>> /\ NoReport
  BY DEF PoolTransact
<1>2. PICK s \in {0} \union DOMAIN chain[p] :
          /\ chain' = [chain EXCEPT ![p] = Append(@, [owner |-> o, spends |-> s])]
          /\ UNCHANGED <<storeVars, worker, gen, receipts, ver>> /\ NoReport
  BY <1>1
<1> DEFINE t == [owner |-> o, spends |-> s]
<1>3. /\ chain \in [Pools -> Seq(Transactions)]
      /\ chain' = [chain EXCEPT ![p] = Append(chain[p], t)]
  BY <1>2 DEF DisclosureInv, ChainTypes
<1>4. t \in Transactions
  <2>1. s \in Nat
    BY <1>2, <1>3
  <2> QED BY <2>1 DEF Transactions
<1> HIDE DEF t
<1>5. \A q \in Pools : q # p => chain'[q] = chain[q]
  BY <1>3
<1>6. chain'[p] = Append(chain[p], t) /\ chain[p] \in Seq(Transactions)
  BY <1>3
<1>7. ChainTypes'
  <2>1. chain' \in [Pools -> Seq(Transactions)]
    BY <1>3, <1>4, <1>6
  <2>2. Len(chain'[p]) = Len(chain[p]) + 1 /\ Len(chain[p]) \in Nat
    BY <1>6
  <2> QED BY <1>2, <1>5, <2>1, <2>2 DEF DisclosureInv, ChainTypes, storeVars
<1>8. ASSUME NEW q \in Pools, NEW root, NEW c, NEW n, NEW k, Issuable(chain[q], q, root, c, n, k)
      PROVE  Issuable(chain'[q], q, root, c, n, k)
  <2>1. CASE q # p
    BY <1>5, <1>8, <2>1
  <2>2. CASE q = p
    BY <1>4, <1>6, <1>8, <2>2, IssuableGrows
  <2> QED BY <2>1, <2>2
<1>9. GenInv'
  BY <1>2, <1>8 DEF DisclosureInv, GenInv
<1>10. ReceiptInv'
  BY <1>2, <1>8 DEF DisclosureInv, ReceiptInv
<1>11. VerInv' /\ ReportInv'
  BY <1>2, VerKept, NothingReported, NoReportKind DEF DisclosureInv
<1> QED BY <1>7, <1>9, <1>10, <1>11 DEF DisclosureInv

LEMMA StoreKeeps ==
    ASSUME DisclosureInv, SaveRows \/ ProcessNotes PROVE DisclosureInv'
<1>1. UNCHANGED <<chain, worker, gen, receipts, ver>> /\ NoReport
  BY DEF SaveRows, ProcessNotes
<1>2. ChainTypes'
  <2>1. \A q \in Pools : Len(chain[q]) \in Nat
    BY DEF DisclosureInv, ChainTypes
  <2>2. CASE SaveRows
    <3>1. PICK p \in Pools : /\ mirror[p] < Len(chain[p]) /\ marked' = marked
                             /\ mirror' = [mirror EXCEPT ![p] = @ + 1]
      BY <2>2 DEF SaveRows
    <3> QED BY <1>1, <2>1, <3>1 DEF DisclosureInv, ChainTypes
  <2>3. CASE ProcessNotes
    <3>1. PICK p \in Pools : /\ marked[p] < mirror[p] /\ mirror' = mirror
                             /\ marked' = [marked EXCEPT ![p] = @ + 1]
      BY <2>3 DEF ProcessNotes
    <3> QED BY <1>1, <2>1, <3>1 DEF DisclosureInv, ChainTypes
  <2> QED BY <2>2, <2>3
<1>3. GenInv' /\ ReceiptInv'
  BY <1>1 DEF DisclosureInv, GenInv, ReceiptInv
<1>4. VerInv' /\ ReportInv'
  BY <1>1, VerKept, NothingReported, NoReportKind DEF DisclosureInv
<1> QED BY <1>2, <1>3, <1>4 DEF DisclosureInv

\* The note is chosen from the store and the root from the chain, but the store
\* is used only when it has the leaves of that root.
LEMMA DisclosureInputsKeeps ==
    ASSUME DisclosureInv, DisclosureInputs PROVE DisclosureInv'
<1> DEFINE p == gen.pool
           path == LeavesUpTo(p, mirror[p])
<1>1. gen.phase = "load" /\ UNCHANGED <<chain, storeVars, worker, receipts, ver>> /\ NoReport
  BY DEF DisclosureInputs
<1>2. p \in Pools
  BY <1>1 DEF DisclosureInv, GenInv
<1>3. CASE gen' = Refetch
  <2>1. gen'.phase = "fetch" /\ gen'.pool = p
    BY <1>3 DEF Refetch
  <2> QED BY <1>1, <1>2, <2>1, GenOnly DEF GenInv
<1>4. CASE gen' = Idle
  <2>1. gen'.phase = "idle"
    BY <1>4 DEF Idle
  <2> QED BY <1>1, <2>1, GenOnly DEF GenInv
<1>5. ASSUME gen.user = Account, BuildValidatedPoolTree(p, gen.next, gen.root) = "tree",
             NEW i \in UnspentUserNote(gen.user, p, gen.commitment),
             gen' = [phase |-> "prove", pool |-> p, purpose |-> gen.purpose, next |-> gen.next,
                     known |-> marked[p],
                     inputs |-> [root |-> MerkleRoot(gen.commitment, i - 1, path),
                                 commitment |-> gen.commitment, amount |-> 1,
                                 privateKey |-> Keys(gen.user).notePrivate,
                                 blinding |-> <<p, i>>, index |-> i - 1, path |-> path]]
      PROVE  DisclosureInv'
  <2> DEFINE root == MerkleRoot(gen.commitment, i - 1, path)
             n == mirror[p]
             k == marked[p]
  <2>1. /\ gen'.phase = "prove" /\ gen'.pool = p /\ gen'.next = gen.next /\ gen'.known = k
        /\ gen'.inputs.root = root /\ gen'.inputs.commitment = gen.commitment
    BY <1>5
  <2>2. gen.next = n
    BY <1>5 DEF BuildValidatedPoolTree
  <2>3. /\ n \in 0 .. Len(chain[p]) /\ k \in 0 .. n /\ i \in 1 .. k /\ i \in 1 .. n
        /\ Commitment(p, i) = gen.commitment
        /\ chain[p][i].owner = Account /\ i \notin SpentBy(p, k)
    <3>1. Len(chain[p]) \in Nat /\ n \in Nat /\ k \in Nat /\ k <= n /\ n <= Len(chain[p])
      BY <1>2 DEF DisclosureInv, ChainTypes
    <3> QED BY <1>5, <3>1 DEF UnspentUserNote
  <2>4. path = [j \in 1 .. n |-> Commitment(p, j)]
    BY DEF LeavesUpTo
  <2>5. root = path
    <3>1. i - 1 + 1 = i /\ i \in DOMAIN path
      BY <2>3, <2>4
    <3>2. root = [path EXCEPT ![i] = gen.commitment]
      BY <3>1 DEF MerkleRoot
    <3>3. path[i] = gen.commitment
      BY <2>3, <2>4
    <3> QED BY <2>4, <3>2, <3>3
  <2>6. root = Leaves(chain[p], p, n)
    BY <2>4, <2>5 DEF Leaves, Leaf, Commitment
  <2>7. gen.commitment = Leaf(chain[p], p, i) /\ \A j \in 1 .. k : chain[p][j].spends # i
    BY <2>3 DEF Leaf, Commitment, SpentBy
  <2> HIDE DEF root, n, k
  <2>8. Issuable(chain[p], p, root, gen.commitment, n, k)
    BY <2>3, <2>6, <2>7 DEF Issuable
  <2>9. GenInv'
    BY <1>1, <1>2, <2>1, <2>2, <2>8 DEF GenInv
  <2> QED BY <1>1, <2>9, GenOnly
<1> QED BY <1>3, <1>4, <1>5 DEF DisclosureInputs

\* A further receipt in circulation.
LEMMA ReceiptAdded ==
    ASSUME DisclosureInv, UNCHANGED <<chain, storeVars, ver>>, NoReport, GenInv',
           NEW p \in Pools, NEW purpose, NEW root, NEW c, NEW at, NEW known,
           NEW honest \in BOOLEAN,
           receipts' = receipts \union
             {[r |-> Made(Context(p, purpose), root, c), at |-> at, known |-> known,
               honest |-> honest]},
           honest => Issuable(chain[p], p, root, c, at, known),
           ~honest => Elsewhere(p, root, c)
    PROVE  DisclosureInv'
<1> DEFINE m == Made(Context(p, purpose), root, c)
           y == [r |-> m, at |-> at, known |-> known, honest |-> honest]
<1>1. y.r = m /\ y.at = at /\ y.known = known /\ y.honest = honest
  <2> HIDE DEF m
  <2> QED OBVIOUS
<1>2. receipts' = receipts \union {y}
  OBVIOUS
<1> HIDE DEF y
<1>3. /\ y.r = Made(Context(p, purpose), root, c)
      /\ y.honest => Issuable(chain[p], p, root, c, y.at, y.known)
      /\ ~y.honest => Elsewhere(p, root, c)
  BY <1>1
<1>4. ReceiptInv'
  BY <1>2, <1>3 DEF DisclosureInv, ReceiptInv
<1>5. VerInv' /\ ReportInv'
  BY <1>2, VerKept, NothingReported, NoReportKind DEF DisclosureInv
<1>6. ChainTypes'
  BY DEF DisclosureInv, ChainTypes, storeVars
<1> QED BY <1>4, <1>5, <1>6 DEF DisclosureInv

LEMMA ProveDisclosureKeeps ==
    ASSUME DisclosureInv, ProveDisclosure PROVE DisclosureInv'
<1> DEFINE r == Receipt(gen.pool, gen.purpose, gen.inputs, Vk)
           root == gen.inputs.root
           c == gen.inputs.commitment
<1>1. /\ gen.phase = "prove" /\ gen' = Idle
      /\ \/ receipts' = receipts
         \/ receipts' = receipts \union {[r |-> r, at |-> gen.next, known |-> gen.known, honest |-> TRUE]}
      /\ UNCHANGED <<chain, storeVars, worker, ver>> /\ NoReport
  BY DEF ProveDisclosure
<1>2. gen.pool \in Pools /\ Issuable(chain[gen.pool], gen.pool, root, c, gen.next, gen.known)
  BY <1>1 DEF DisclosureInv, GenInv
<1>3. r = Made(Context(gen.pool, gen.purpose), root, c)
  BY ReceiptIsMade
<1>4. GenInv'
  <2>1. gen'.phase = "idle"
    BY <1>1 DEF Idle
  <2> QED BY <2>1 DEF GenInv
<1> HIDE DEF r, root, c
<1>5. CASE receipts' = receipts
  BY <1>1, <1>4, <1>5, GenOnly
<1>6. CASE receipts' = receipts \union {[r |-> r, at |-> gen.next, known |-> gen.known, honest |-> TRUE]}
  <2>1. receipts' = receipts \union {[r |-> Made(Context(gen.pool, gen.purpose), root, c),
                                      at |-> gen.next, known |-> gen.known, honest |-> TRUE]}
    BY <1>3, <1>6
  <2> QED BY <1>1, <1>2, <1>4, <2>1, ReceiptAdded
<1> QED BY <1>1, <1>5, <1>6

LEMMA ProveElsewhereKeeps ==
    ASSUME DisclosureInv, ProveElsewhere PROVE DisclosureInv'
<1> DEFINE purpose == CHOOSE x \in Purposes : TRUE
<1>1. PICK p \in Pools :
        LET c  == ComputeCommitment(1, Keys(Other).notePublic, <<p, 0>>)
            in == [root |-> <<c>>, commitment |-> c]
        IN  /\ receipts' = receipts \union
                 {[r |-> Receipt(p, purpose, in, Vk), at |-> 0, known |-> 0, honest |-> FALSE]}
            /\ UNCHANGED <<chain, storeVars, worker, gen, ver>> /\ NoReport
  BY DEF ProveElsewhere
<1> DEFINE c  == ComputeCommitment(1, Keys(Other).notePublic, <<p, 0>>)
           in == [root |-> <<c>>, commitment |-> c]
<1>2. /\ receipts' = receipts \union
           {[r |-> Receipt(p, purpose, in, Vk), at |-> 0, known |-> 0, honest |-> FALSE]}
      /\ UNCHANGED <<chain, storeVars, worker, gen, ver>> /\ NoReport
  BY <1>1
<1>3. Elsewhere(p, <<c>>, c)
  BY DEF Elsewhere
<1>4. in.root = <<c>> /\ in.commitment = c
  <2> HIDE DEF c
  <2> QED OBVIOUS
<1> HIDE DEF c, in, purpose
<1>5. Receipt(p, purpose, in, Vk) = Made(Context(p, purpose), <<c>>, c)
  BY <1>4, ReceiptIsMade
<1>6. receipts' = receipts \union
        {[r |-> Made(Context(p, purpose), <<c>>, c), at |-> 0, known |-> 0, honest |-> FALSE]}
  BY <1>2, <1>5
<1>7. GenInv'
  BY <1>2 DEF DisclosureInv, GenInv
<1> QED BY <1>2, <1>3, <1>6, <1>7, ReceiptAdded

LEMMA VerifyKeeps ==
    ASSUME DisclosureInv, VerifySelectiveDisclosure PROVE DisclosureInv'
<1>1. PICK r \in Presentable, expected \in {Vk, "other"} :
        /\ IF ValidateVerifyingKeyHash(expected) /\ ValidateRegisteredReceipt(r, expected)
           THEN /\ ver' = [phase |-> "roots", r |-> r,
                           proof_verified |-> ProofVerifies(Vk, r.proof, PublicInputsBytes(r))]
                /\ NoReport
           ELSE report' = [kind |-> "error"] /\ UNCHANGED ver
        /\ UNCHANGED <<chain, storeVars, worker, gen, receipts>>
  BY DEF VerifySelectiveDisclosure
<1>2. ChainTypes' /\ GenInv' /\ ReceiptInv'
  BY <1>1 DEF DisclosureInv, ChainTypes, GenInv, ReceiptInv, storeVars
<1>3. CASE ~(ValidateVerifyingKeyHash(expected) /\ ValidateRegisteredReceipt(r, expected))
  <2>1. report'.kind # "report" /\ ver' = ver
    BY <1>1, <1>3
  <2>2. VerInv' /\ ReportInv'
    BY <1>1, <2>1, VerKept, NothingReported DEF DisclosureInv
  <2> QED BY <1>2, <2>2 DEF DisclosureInv
<1>4. CASE ValidateVerifyingKeyHash(expected) /\ ValidateRegisteredReceipt(r, expected)
  <2> DEFINE ok == ProofVerifies(Vk, r.proof, PublicInputsBytes(r))
  <2>1. ValidateRegisteredReceipt(r, Vk)
    BY <1>4 DEF ValidateVerifyingKeyHash
  <2>2. ok /\ VerifyReceiptContext(r) => r \in Issued
    BY <2>1, OnlyIssuedPass, IssuedAreMade DEF DisclosureInv, PassesAlone
  <2>3. ver' = [phase |-> "roots", r |-> r, proof_verified |-> ok] /\ NoReport
    BY <1>1, <1>4
  <2>4. ok <=> ProofVerifies(Vk, r.proof, PublicInputsBytes(r))
    OBVIOUS
  <2> HIDE DEF ok
  <2>5. ver'.r = r /\ ver'.proof_verified = ok
    BY <2>3
  <2>6. Issued' = Issued
    BY <1>1 DEF Issued
  <2>7. VerInv'
    BY <2>2, <2>4, <2>5, <2>6, Zenon DEF VerInv
  <2>8. ReportInv'
    BY <2>3, NothingReported, NoReportKind
  <2> QED BY <1>2, <2>7, <2>8 DEF DisclosureInv
<1> QED BY <1>3, <1>4

\* A report that is fully verified, or that is of an honest receipt.
LEMMA ReportKeeps ==
    ASSUME DisclosureInv, ver.phase = "roots", ver.r.context.pool_address \in Pools,
           report' = ReportOf(ver.r, ver.proof_verified), UNCHANGED <<chain, receipts>>
    PROVE  ReportInv'
<1> DEFINE r == ver.r
           known == KnownRootStatus(r)
           bound == VerifyReceiptContext(r)
           ok == ver.proof_verified
<1>1. report' = [kind |-> "report", r |-> r, proof_verified |-> ok,
                 known_root_status |-> known, context_verified |-> bound]
  BY DEF ReportOf
<1>2. /\ known <=> KnownRootStatus(r)
      /\ bound <=> VerifyReceiptContext(r)
      /\ ok <=> ProofVerifies(Vk, r.proof, PublicInputsBytes(r))
      /\ ok /\ bound => r \in Issued
  BY DEF DisclosureInv, VerInv
<1> HIDE DEF r, known, bound, ok
<1>3. /\ report'.kind = "report" /\ report'.r = r /\ report'.proof_verified = ok
      /\ report'.known_root_status = known /\ report'.context_verified = bound
  BY <1>1
<1>4. Issued' = Issued
  BY DEF Issued
<1>5. VerifiedAsIssued'
  BY <1>2, <1>3, <1>4, Zenon DEF VerifiedAsIssued, Full
<1>6. ASSUME NEW p, NEW purpose, NEW root, NEW c, r = Made(Context(p, purpose), root, c)
      PROVE  /\ r.context.pool_address = p /\ r.public.noteCommitments = <<c>>
             /\ r.public.roots[1] = root
             /\ known <=> IsKnownRoot(p, root)
  <2>1. /\ r.context.pool_address = p
        /\ r.public.roots = <<root>> /\ r.public.noteCommitments = <<c>>
    BY <1>6, MadeParts
  <2>2. DOMAIN <<root>> = {1} /\ <<root>>[1] = root
    OBVIOUS
  <2>3. KnownRootStatus(r) <=> IsKnownRoot(p, root)
    BY <2>1, <2>2 DEF KnownRootStatus
  <2> QED BY <1>2, <2>1, <2>2, <2>3
<1>7. VerifiedNoteInPool'
  <2> SUFFICES ASSUME ok, bound, known
               PROVE  \E i \in DOMAIN chain[r.context.pool_address] :
                        r.public.noteCommitments = <<Commitment(r.context.pool_address, i)>>
    <3>1. CASE ~(ok /\ bound /\ known)
      BY <1>3, <3>1, Zenon DEF VerifiedNoteInPool, Full
    <3>2. ASSUME \E i \in DOMAIN chain[r.context.pool_address] :
                   r.public.noteCommitments = <<Commitment(r.context.pool_address, i)>>
          PROVE  VerifiedNoteInPool'
      BY <1>3, <3>2 DEF VerifiedNoteInPool, Commitment
    <3> QED BY <3>1, <3>2
  <2>1. PICK x \in receipts : x.r = r
    BY <1>2 DEF Issued
  <2>2. PICK p \in Pools : \E purpose, root, c :
          /\ r = Made(Context(p, purpose), root, c)
          /\ x.honest => Issuable(chain[p], p, root, c, x.at, x.known)
          /\ ~x.honest => Elsewhere(p, root, c)
    BY <2>1 DEF DisclosureInv, ReceiptInv
  <2>3. PICK purpose, root, c :
          /\ r = Made(Context(p, purpose), root, c)
          /\ x.honest => Issuable(chain[p], p, root, c, x.at, x.known)
          /\ ~x.honest => Elsewhere(p, root, c)
    BY <2>2
  <2>4. /\ r.context.pool_address = p /\ r.public.noteCommitments = <<c>>
        /\ IsKnownRoot(p, root)
    BY <1>6, <2>3
  <2>5. Issuable(chain[p], p, root, c, x.at, x.known)
    BY <2>3, <2>4, ElsewhereUnknown DEF DisclosureInv
  <2>6. PICK i \in 1 .. x.known : c = Leaf(chain[p], p, i)
    BY <2>5 DEF Issuable
  <2>7. i \in DOMAIN chain[p]
    <3>1. chain[p] \in Seq(Transactions) /\ x.at \in 0 .. Len(chain[p]) /\ x.known \in 0 .. x.at
      BY <2>5 DEF DisclosureInv, ChainTypes, Issuable
    <3> QED BY <2>6, <3>1
  <2>8. c = Commitment(p, i)
    BY <2>6 DEF Leaf, Commitment
  <2> QED BY <2>4, <2>7, <2>8
<1>8. HonestFailsOnlyByAge'
  <2> DEFINE Honest == {x.r : x \in {y \in receipts : y.honest}}
  <2> SUFFICES ASSUME r \in Honest
               PROVE  /\ ok /\ bound
                      /\ ~known => ~IsKnownRoot(r.context.pool_address, r.public.roots[1])
    <3>1. Honest' = Honest
      OBVIOUS
    <3>2. \A p, root : IsKnownRoot(p, root)' <=> IsKnownRoot(p, root)
      BY DEF IsKnownRoot, LeavesUpTo, Commitment
    <3>3. CASE r \notin Honest
      BY <1>3, <3>1, <3>3 DEF HonestFailsOnlyByAge
    <3>4. ASSUME /\ ok /\ bound
                 /\ ~known => ~IsKnownRoot(r.context.pool_address, r.public.roots[1])
          PROVE  HonestFailsOnlyByAge'
      BY <1>3, <3>2, <3>4 DEF HonestFailsOnlyByAge, IsKnownRoot, LeavesUpTo, Commitment
    <3> QED BY <3>3, <3>4
  <2>1. PICK x \in receipts : x.r = r
    OBVIOUS
  <2>2. PICK p, purpose, root, c : r = Made(Context(p, purpose), root, c)
    BY <2>1 DEF DisclosureInv, ReceiptInv
  <2>3. ok /\ bound
    BY <1>2, <2>2, MadePasses DEF IsMade
  <2>4. known <=> IsKnownRoot(r.context.pool_address, r.public.roots[1])
    BY <1>6, <2>2
  <2> QED BY <2>3, <2>4
<1> QED BY <1>5, <1>7, <1>8 DEF ReportInv

LEMMA VerifyRootsAndContextKeeps ==
    ASSUME DisclosureInv, VerifyRootsAndContext PROVE DisclosureInv'
<1>1. /\ ver.phase = "roots" /\ ver' = Idle
      /\ UNCHANGED <<chain, storeVars, worker, gen, receipts>>
  BY DEF VerifyRootsAndContext
<1>2. ChainTypes' /\ GenInv' /\ ReceiptInv'
  BY <1>1 DEF DisclosureInv, ChainTypes, GenInv, ReceiptInv, storeVars
<1>3. VerInv'
  <2>1. ver'.phase = "idle"
    BY <1>1 DEF Idle
  <2> QED BY <2>1 DEF VerInv
<1>4. CASE ver.r.context.pool_address \in Pools
  <2>1. report' = ReportOf(ver.r, ver.proof_verified)
    BY <1>4 DEF VerifyRootsAndContext
  <2>2. ReportInv'
    BY <1>1, <1>4, <2>1, ReportKeeps
  <2> QED BY <1>2, <1>3, <2>2 DEF DisclosureInv
<1>5. CASE ver.r.context.pool_address \notin Pools
  <2>1. report'.kind # "report"
    BY <1>5 DEF VerifyRootsAndContext
  <2> QED BY <1>2, <1>3, <2>1, NothingReported DEF DisclosureInv
<1> QED BY <1>4, <1>5

LEMMA DisclosureStep ==
    DisclosureInv /\ [DisclosureNext]_disclosureVars => DisclosureInv'
<1> SUFFICES ASSUME DisclosureInv, [DisclosureNext]_disclosureVars PROVE DisclosureInv'
  OBVIOUS
<1>1. CASE UNCHANGED disclosureVars
  <2>1. UNCHANGED <<chain, storeVars, gen, receipts, ver, report>>
    BY <1>1 DEF disclosureVars
  <2>2. ChainTypes' /\ GenInv' /\ ReceiptInv'
    BY <2>1 DEF DisclosureInv, ChainTypes, GenInv, ReceiptInv, storeVars
  <2>3. VerInv'
    BY <2>1, VerKept DEF DisclosureInv
  <2>4. ReportInv'
    <3>1. VerifiedAsIssued'
      BY <2>1 DEF DisclosureInv, ReportInv, VerifiedAsIssued, Full, Issued
    <3>2. VerifiedNoteInPool'
      BY <2>1 DEF DisclosureInv, ReportInv, VerifiedNoteInPool, Full, Commitment
    <3>3. HonestFailsOnlyByAge'
      BY <2>1 DEF DisclosureInv, ReportInv, HonestFailsOnlyByAge, IsKnownRoot, LeavesUpTo,
                  Commitment
    <3> QED BY <3>1, <3>2, <3>3 DEF ReportInv
  <2> QED BY <2>2, <2>3, <2>4 DEF DisclosureInv
<1>2. CASE LoadCircuitArtifacts
  <2>1. UNCHANGED <<chain, storeVars, gen, receipts, ver>> /\ NoReport
    BY <1>2 DEF LoadCircuitArtifacts
  <2>2. GenInv'
    BY <2>1 DEF DisclosureInv, GenInv
  <2> QED BY <2>1, <2>2, GenOnly
<1>3. ASSUME gen' = Idle, UNCHANGED <<chain, storeVars, receipts, ver>>, NoReport
      PROVE  DisclosureInv'
  <2>1. gen'.phase = "idle"
    BY <1>3 DEF Idle
  <2>2. GenInv'
    BY <2>1 DEF GenInv
  <2> QED BY <1>3, <2>2, GenOnly
<1>4. CASE Reload
  <2>1. /\ gen' = Idle /\ ver' = Idle /\ NoReport
        /\ UNCHANGED <<chain, storeVars, receipts>>
    BY <1>4 DEF Reload
  <2>2. gen'.phase = "idle" /\ ver'.phase = "idle"
    BY <2>1 DEF Idle
  <2>3. GenInv' /\ VerInv'
    BY <2>2 DEF GenInv, VerInv
  <2>4. ChainTypes' /\ ReceiptInv' /\ ReportInv'
    BY <2>1, NothingReported, NoReportKind DEF DisclosureInv, ChainTypes, ReceiptInv, storeVars
  <2> QED BY <2>3, <2>4 DEF DisclosureInv
<1>5. CASE FetchFails \/ StorageTimesOut \/ ProverTimesOut
  BY <1>3, <1>5 DEF FetchFails, StorageTimesOut, ProverTimesOut, GenEnds
<1>6. CASE GenerateSelectiveDisclosure
  <2>1. PICK u \in {Account, Other}, p \in Pools, purpose \in Purposes \union {""} :
          \E i \in DOMAIN chain[p] :
            /\ gen' = [phase |-> "fetch", user |-> u, pool |-> p, purpose |-> purpose,
                       commitment |-> Commitment(p, i)]
            /\ UNCHANGED <<chain, storeVars, worker, receipts, ver>> /\ NoReport
    BY <1>6 DEF GenerateSelectiveDisclosure
  <2>2. \E purp, c : gen' = [phase |-> "fetch", user |-> u, pool |-> p, purpose |-> purp,
                             commitment |-> c]
    BY <2>1, Zenon
  <2>3. gen'.phase = "fetch" /\ gen'.pool = p /\ p \in Pools
    <3>1. PICK purp, c : gen' = [phase |-> "fetch", user |-> u, pool |-> p, purpose |-> purp,
                                 commitment |-> c]
      BY <2>2
    <3> QED BY <3>1
  <2>4. GenInv'
    BY <2>3 DEF GenInv
  <2>5. UNCHANGED <<chain, storeVars, receipts, ver>> /\ NoReport
    BY <2>1
  <2> QED BY <2>4, <2>5, GenOnly
<1>7. CASE FetchNextIndex \/ FetchRoot
  <2>1. /\ gen.phase \in {"fetch", "root"} /\ gen'.phase \in {"fetch", "root", "load"}
        /\ gen'.pool = gen.pool
        /\ UNCHANGED <<chain, storeVars, worker, receipts, ver>> /\ NoReport
    BY <1>7 DEF FetchNextIndex, FetchRoot, Refetch
  <2>2. GenInv'
    BY <2>1 DEF DisclosureInv, GenInv
  <2> QED BY <2>1, <2>2, GenOnly
<1> QED
  BY <1>1, <1>2, <1>4, <1>5, <1>6, <1>7, PoolTransactKeeps, StoreKeeps,
     DisclosureInputsKeeps, ProveDisclosureKeeps, ProveElsewhereKeeps, VerifyKeeps,
     VerifyRootsAndContextKeeps DEF DisclosureNext

\* A receipt means what it says, for every set of pools, purposes and root
\* history and however the pool, the store and the worker move between the
\* awaits of the client: it is issued only for a note of the account that was
\* unspent as far as the store had processed notes, it verifies only as it was
\* issued and for a note of the pool it names, and an honest one fails only by
\* its age.
THEOREM ReceiptsAreSound == DisclosureSpec => []ReceiptsSound
<1>1. DisclosureSpec => []DisclosureInv
  BY DisclosureStarts, DisclosureStep, PTL DEF DisclosureSpec
<1>2. DisclosureInv => ReceiptsSound
  BY IssuedWhileUnspentHolds DEF DisclosureInv, ReportInv, ReceiptsSound
<1> QED
  BY <1>1, <1>2, PTL

-----------------------------------------------------------------------------
(* Amounts of a list of notes.                                             *)

\* The amounts of a list of notes.
Amount(notes) == [i \in DOMAIN notes |-> notes[i].amount]

\* A list of n notes whose amounts are natural numbers.
IsNotes(notes, n) == n \in Nat /\ DOMAIN notes = 1..n /\ \A i \in 1..n : notes[i].amount \in Nat

\* The recursion behind TotalOf and SumNoteAmounts.
AddsUp(notes, g) ==
  g = [s \in SUBSET DOMAIN notes |->
         IF s = {} THEN 0 ELSE g[s \ {Max(s)}] + notes[Max(s)].amount]
AddsChecked(notes, g) ==
  g = [s \in SUBSET DOMAIN notes |->
         IF s = {} THEN Some(0)
         ELSE UNION {CheckedAdd(x, notes[Max(s)].amount) : x \in g[s \ {Max(s)}]}]

\* The fold of TotalOf is the recursion AddsUp, at all positions.
LEMMA TotalUnfold ==
  ASSUME NEW notes
  PROVE  TotalOf(notes) = (CHOOSE g : AddsUp(notes, g))[DOMAIN notes]
BY DEF TotalOf, FoldLeft, MapThenFoldSet, AddsUp

\* The fold of SumNoteAmounts is the recursion AddsChecked, at all positions.
LEMMA SumUnfold ==
  ASSUME NEW notes
  PROVE  SumNoteAmounts(notes) = (CHOOSE g : AddsChecked(notes, g))[DOMAIN notes]
BY DEF SumNoteAmounts, FoldLeft, MapThenFoldSet, AddsChecked

\* A set of positions holds its largest.
LEMMA MaxIn ==
  ASSUME NEW n \in Nat, NEW s \in SUBSET (1..n), s # {}
  PROVE  Max(s) \in s
<1>1. s \subseteq 0..n
  OBVIOUS
<1>2. PICK x \in s : \A y \in s : y <= x
  BY <1>1, GreatestNumber
<1>3. \E y \in s : \A z \in s : y >= z
  BY <1>2
<1> QED BY <1>3 DEF Max

\* Sums of amounts are natural numbers, and one position can be split off.
LEMMA AmountSums ==
  ASSUME NEW notes, NEW n, IsNotes(notes, n)
  PROVE  /\ SumOver(Amount(notes), {}) = 0
         /\ \A s \in SUBSET DOMAIN notes :
              /\ SumOver(Amount(notes), s) \in Nat
              /\ \A i \in s : SumOver(Amount(notes), s)
                              = SumOver(Amount(notes), s \ {i}) + notes[i].amount
<1> DEFINE f == Amount(notes)
<1>1. SumOver(f, {}) = 0
  BY SumOverUnfold, FS_EmptySet
<1>2. ASSUME NEW s \in SUBSET DOMAIN notes
      PROVE  /\ SumOver(f, s) \in Nat
             /\ \A i \in s : SumOver(f, s) = SumOver(f, s \ {i}) + notes[i].amount
  <2>1. IsFiniteSet(s)
    <3>1. n \in Nat /\ s \in SUBSET (1..n)
      BY DEF IsNotes
    <3>2. IsFiniteSet(1..n)
      BY <3>1, FS_Interval
    <3> QED BY <3>1, <3>2, FS_Subset
  <2>2. \A i \in s : f[i] = notes[i].amount /\ f[i] \in Nat
    BY DEF IsNotes, Amount
  <2> HIDE DEF f
  <2>3. SumOver(f, s) \in Nat
    BY <2>1, <2>2, SumOverNat
  <2>4. ASSUME NEW i \in s PROVE SumOver(f, s) = SumOver(f, s \ {i}) + notes[i].amount
    <3>1. \A x \in s : f[x] \in Int
      BY <2>2
    <3>2. SumOver(f, s) = f[i] + SumOver(f, s \ {i})
      BY <2>1, <3>1, SumOverRemove
    <3>3. SumOver(f, s \ {i}) \in Nat
      <4>1. IsFiniteSet(s \ {i})
        BY <2>1, FS_Subset
      <4> QED BY <2>2, <4>1, SumOverNat
    <3> QED BY <2>2, <3>2, <3>3
  <2> QED BY <2>3, <2>4
<1> HIDE DEF f
<1>3. QED BY <1>1, <1>2 DEF f

\* TotalOf is the sum of the amounts.
LEMMA TotalIsSum ==
  ASSUME NEW notes, NEW n, IsNotes(notes, n)
  PROVE  TotalOf(notes) = SumOver(Amount(notes), DOMAIN notes)
<1> DEFINE f == Amount(notes)
           w == [s \in SUBSET DOMAIN notes |-> SumOver(f, s)]
           g == CHOOSE h : AddsUp(notes, h)
           G == {s \in SUBSET DOMAIN notes : g[s] = SumOver(f, s)}
<1>0. n \in Nat /\ DOMAIN notes = 1..n /\ IsFiniteSet(DOMAIN notes)
  BY FS_Interval DEF IsNotes
<1>1. AddsUp(notes, w)
  <2>1. ASSUME NEW s \in SUBSET DOMAIN notes
        PROVE  w[s] = IF s = {} THEN 0 ELSE w[s \ {Max(s)}] + notes[Max(s)].amount
    <3>1. CASE s = {}
      BY <3>1, AmountSums
    <3>2. CASE s # {}
      <4>1. Max(s) \in s
        BY <1>0, <3>2, MaxIn
      <4> HIDE DEF f
      <4>2. w[s] = SumOver(f, s) /\ w[s \ {Max(s)}] = SumOver(f, s \ {Max(s)})
        OBVIOUS
      <4>3. SumOver(f, s) = SumOver(f, s \ {Max(s)}) + notes[Max(s)].amount
        BY <4>1, AmountSums DEF f
      <4> QED BY <3>2, <4>2, <4>3
    <3> QED BY <3>1, <3>2
  <2>2. w = [s \in SUBSET DOMAIN notes |-> w[s]]
    OBVIOUS
  <2> HIDE DEF w
  <2> QED BY <2>1, <2>2 DEF AddsUp
<1> HIDE DEF w
<1>2. AddsUp(notes, g)
  BY <1>1
<1> HIDE DEF g, f
<1>3. {} \in G
  BY <1>2, AmountSums DEF AddsUp, f
<1>4. ASSUME NEW s \in SUBSET DOMAIN notes, s # {}, \A i \in s : s \ {i} \in G
      PROVE  s \in G
  <2>1. Max(s) \in s
    BY <1>0, <1>4, MaxIn
  <2>2. g[s] = g[s \ {Max(s)}] + notes[Max(s)].amount
    BY <1>2, <1>4 DEF AddsUp
  <2>3. g[s \ {Max(s)}] = SumOver(f, s \ {Max(s)})
    BY <1>4, <2>1
  <2>4. SumOver(f, s) = SumOver(f, s \ {Max(s)}) + notes[Max(s)].amount
    BY <2>1, AmountSums DEF f
  <2> QED BY <2>2, <2>3, <2>4
<1> HIDE DEF G
<1>5. \A s \in SUBSET DOMAIN notes : s \in G
  BY <1>0, <1>3, <1>4, InductSubsets
<1>6. g[DOMAIN notes] = SumOver(f, DOMAIN notes)
  BY <1>5 DEF G
<1> QED BY <1>6, TotalUnfold DEF g, f

\* The checked sum is the total, unless that is no u128.
LEMMA SumIsChecked ==
  ASSUME NEW notes, NEW n, IsNotes(notes, n)
  PROVE  /\ TotalOf(notes) \in Nat
         /\ SumNoteAmounts(notes) = IF TotalOf(notes) <= NoteMax THEN Some(TotalOf(notes)) ELSE None
<1> DEFINE f == Amount(notes)
           v(s) == IF SumOver(f, s) <= NoteMax THEN Some(SumOver(f, s)) ELSE None
           w == [s \in SUBSET DOMAIN notes |-> v(s)]
           g == CHOOSE h : AddsChecked(notes, h)
           G == {s \in SUBSET DOMAIN notes : g[s] = v(s)}
<1>0. n \in Nat /\ DOMAIN notes = 1..n /\ IsFiniteSet(DOMAIN notes)
  BY FS_Interval DEF IsNotes
<1>1. v({}) = Some(0)
  BY AmountSums, FlowsAssumption
<1>2. ASSUME NEW s \in SUBSET DOMAIN notes, s # {}
      PROVE  /\ Max(s) \in s
             /\ v(s) = UNION {CheckedAdd(x, notes[Max(s)].amount) : x \in v(s \ {Max(s)})}
  <2>1. Max(s) \in s
    BY <1>0, <1>2, MaxIn
  <2> DEFINE a == SumOver(f, s \ {Max(s)})
             b == notes[Max(s)].amount
  <2>2. SumOver(f, s) = a + b /\ a \in Nat /\ b \in Nat
    <3>1. SumOver(f, s) = a + b
      BY <2>1, AmountSums
    <3>2. a \in Nat
      BY AmountSums
    <3>3. b \in Nat
      BY <2>1 DEF IsNotes
    <3> QED BY <3>1, <3>2, <3>3
  <2> HIDE DEF f, a, b
  <2>3. v(s) = (IF a + b <= NoteMax THEN {a + b} ELSE {})
    BY <2>2 DEF Some, None
  <2>4. v(s \ {Max(s)}) = (IF a <= NoteMax THEN {a} ELSE {})
    BY DEF Some, None, a
  <2>5. UNION {CheckedAdd(x, b) : x \in v(s \ {Max(s)})} = (IF a + b <= NoteMax THEN {a + b} ELSE {})
    <3> HIDE DEF v
    <3>1. CASE a <= NoteMax
      <4>1. {CheckedAdd(x, b) : x \in v(s \ {Max(s)})} = {CheckedAdd(a, b)}
        BY <2>4, <3>1
      <4> QED BY <4>1 DEF CheckedAdd, Some, None
    <3>2. CASE ~(a <= NoteMax)
      <4>1. {CheckedAdd(x, b) : x \in v(s \ {Max(s)})} = {}
        BY <2>4, <3>2
      <4>2. ~(a + b <= NoteMax)
        BY <2>2, <3>2, FlowsAssumption
      <4> QED BY <4>1, <4>2
    <3> QED BY <3>1, <3>2
  <2> HIDE DEF v
  <2> QED BY <2>1, <2>3, <2>5 DEF b
<1> HIDE DEF v, f
<1>3. AddsChecked(notes, w)
  <2>1. ASSUME NEW s \in SUBSET DOMAIN notes
        PROVE  w[s] = IF s = {} THEN Some(0)
                      ELSE UNION {CheckedAdd(x, notes[Max(s)].amount) : x \in w[s \ {Max(s)}]}
    BY <1>1, <1>2
  <2>2. w = [s \in SUBSET DOMAIN notes |-> w[s]]
    OBVIOUS
  <2> HIDE DEF w
  <2> QED BY <2>1, <2>2 DEF AddsChecked
<1> HIDE DEF w
<1>4. AddsChecked(notes, g)
  BY <1>3
<1> HIDE DEF g
<1>5. {} \in G
  BY <1>1, <1>4 DEF AddsChecked
<1>6. ASSUME NEW s \in SUBSET DOMAIN notes, s # {}, \A i \in s : s \ {i} \in G
      PROVE  s \in G
  <2>1. g[s] = UNION {CheckedAdd(x, notes[Max(s)].amount) : x \in g[s \ {Max(s)}]}
    BY <1>4, <1>6 DEF AddsChecked
  <2>2. g[s \ {Max(s)}] = v(s \ {Max(s)})
    BY <1>2, <1>6
  <2> QED BY <1>2, <1>6, <2>1, <2>2
<1> HIDE DEF G
<1>7. \A s \in SUBSET DOMAIN notes : s \in G
  BY <1>0, <1>5, <1>6, InductSubsets
<1>8. SumNoteAmounts(notes) = v(DOMAIN notes)
  BY <1>7, SumUnfold DEF G, g
<1>9. TotalOf(notes) = SumOver(f, DOMAIN notes) /\ TotalOf(notes) \in Nat
  BY TotalIsSum, AmountSums DEF f
<1> QED BY <1>8, <1>9 DEF v

\* The total of at most two notes.
LEMMA TotalOfFew ==
  ASSUME NEW notes, NEW n, IsNotes(notes, n)
  PROVE  /\ n = 0 => TotalOf(notes) = 0
         /\ n = 1 => TotalOf(notes) = notes[1].amount
         /\ n = 2 => TotalOf(notes) = notes[1].amount + notes[2].amount
<1> DEFINE f == Amount(notes)
<1>0. TotalOf(notes) = SumOver(f, 1..n) /\ DOMAIN notes = 1..n
  BY TotalIsSum DEF IsNotes
<1>1. CASE n = 0
  BY <1>0, <1>1, AmountSums
<1>2. CASE n = 1
  <2>1. 1..n = {1} /\ {1} \ {1} = {}
    BY <1>2
  <2>2. SumOver(f, {1}) = SumOver(f, {1} \ {1}) + notes[1].amount
    BY <1>0, <2>1, AmountSums
  <2>3. notes[1].amount \in Nat
    BY <1>2 DEF IsNotes
  <2> QED BY <1>0, <1>2, <2>1, <2>2, <2>3, AmountSums
<1>3. CASE n = 2
  <2>1. 1..n = {1, 2} /\ {1, 2} \ {2} = {1} /\ {1} \ {1} = {}
    BY <1>3
  <2>2. SumOver(f, {1, 2}) = SumOver(f, {1, 2} \ {2}) + notes[2].amount
    BY <1>0, <2>1, AmountSums
  <2>3. SumOver(f, {1}) = SumOver(f, {1} \ {1}) + notes[1].amount
    BY <1>0, <2>1, AmountSums
  <2>4. notes[1].amount \in Nat /\ notes[2].amount \in Nat
    BY <1>3 DEF IsNotes
  <2>5. SumOver(f, {}) = 0
    BY AmountSums
  <2>6. TotalOf(notes) = SumOver(f, {1, 2})
    BY <1>0, <2>1
  <2> HIDE DEF f
  <2>7. SumOver(f, {1}) = notes[1].amount
    BY <2>1, <2>3, <2>4, <2>5
  <2>8. SumOver(f, {1, 2}) = notes[1].amount + notes[2].amount
    BY <2>1, <2>2, <2>7
  <2> QED BY <1>3, <2>6, <2>8
<1> QED BY <1>1, <1>2, <1>3
-----------------------------------------------------------------------------
(* What the chain holds, and what wallets make of it.                      *)

\* The values that commitments and encrypted outputs may take.
ChainCommitment == {ComputeCommitment(a, KeysOf(u).notePublic, b) : a \in Nat, u \in Users, b \in Nat}
Box == {EncryptOutputNote(KeysOf(u).encPublic, a, b) : u \in Users, a \in Nat, b \in Nat}
Mint == [to : Users, amount : Nat]

\* The blinding inside the commitment at a position.
BlindingAt(i) == leaves[i][4]

\* ChainCommitment and encrypted output i are of one note, made for one account.
SealedAt(i) ==
  /\ leaves[i] = ComputeCommitment(minted[i].amount, KeysOf(minted[i].to).notePublic, BlindingAt(i))
  /\ boxes[i] = EncryptOutputNote(KeysOf(minted[i].to).encPublic, minted[i].amount, BlindingAt(i))
  /\ BlindingAt(i) \in Nat /\ BlindingAt(i) < fresh

\* The chain's three lists run in parallel and every row is sealed.
ChainInv ==
  /\ leaves \in Seq(ChainCommitment) /\ boxes \in Seq(Box) /\ minted \in Seq(Mint)
  /\ Len(boxes) = Len(leaves) /\ Len(minted) = Len(leaves)
  /\ \A i \in 1..Len(leaves) : SealedAt(i)

\* A nullifier is that of a dummy, or of a position of the tree; its blinding
\* was drawn.
SpentInv ==
  \A x \in spent : /\ x[2][4] \in Nat /\ x[2][4] < fresh
                   /\ x[2][2] = 0 \/ (x[3] \in Nat /\ x[3] < Len(leaves))

\* The nullifier and the note that the owner of a position derives, and the
\* positions of an account's notes of value.
NullifierAt(i) ==
  ComputeNullifier(leaves[i], i - 1,
                   ComputeSignature(KeysOf(minted[i].to).notePrivate, leaves[i], i - 1))
NoteAt(i) ==
  [amount |-> minted[i].amount, blinding |-> BlindingAt(i), index |-> i - 1,
   nullifier |-> NullifierAt(i)]
Held(u) == {i \in 1..Len(leaves) : minted[i].to = u /\ minted[i].amount # 0}

\* Two accounts share no key.
LEMMA KeysDiffer ==
  ASSUME NEW u, NEW v
  PROVE  /\ KeysOf(u).notePublic = KeysOf(v).notePublic => u = v
         /\ KeysOf(u).encPublic = KeysOf(v).encPublic => u = v
         /\ KeysOf(u).notePublic = DerivePublicKey(KeysOf(u).notePrivate)
         /\ KeysOf(u).encPublic = EncryptionPublicKey(KeysOf(u).encPrivate)
BY DEF KeysOf, Keys, NotePrivateKey, EncryptionPrivateKey, EncryptionPublicKey,
       HashSignatureWithDomain, DerivePublicKey, Poseidon2Hash2

\* A commitment determines amount, key and blinding.
LEMMA CommitmentInjective ==
  ASSUME NEW a, NEW k, NEW b, NEW c, NEW l, NEW d
  PROVE  /\ ComputeCommitment(a, k, b) = ComputeCommitment(c, l, d) => a = c /\ k = l /\ b = d
         /\ ComputeCommitment(a, k, b)[2] = a
         /\ ComputeCommitment(a, k, b)[4] = b
BY DEF ComputeCommitment, Poseidon2Hash3

\* A nullifier determines the commitment and the position.
LEMMA NullifierInjective ==
  ASSUME NEW a, NEW k, NEW b, NEW c, NEW l, NEW d
  PROVE  /\ ComputeNullifier(a, k, b) = ComputeNullifier(c, l, d) => a = c /\ k = l /\ b = d
         /\ ComputeNullifier(a, k, b)[2] = a
         /\ ComputeNullifier(a, k, b)[3] = k
BY DEF ComputeNullifier, Poseidon2Hash3

\* A row gives a note to its addressee, if it has value, and nothing to others.
LEMMA RowOpens ==
  ASSUME ChainInv, NEW u \in Users, NEW i \in 1..Len(leaves)
  PROVE  TryDecryptAndDerive(KeysOf(u), leaves[i], i - 1, boxes[i])
           = IF i \in Held(u) THEN {NoteAt(i)} ELSE {}
<1> DEFINE b == BlindingAt(i)
           m == minted[i]
           k == KeysOf(u)
           plain == [amount |-> m.amount, blinding |-> b]
<1>1. /\ leaves[i] = ComputeCommitment(m.amount, KeysOf(m.to).notePublic, b)
      /\ boxes[i] = EncryptOutputNote(KeysOf(m.to).encPublic, m.amount, b)
  BY DEF ChainInv, SealedAt
<1>2. DecryptOutputNote(k.encPrivate, boxes[i]) = IF m.to = u THEN {plain} ELSE {}
  <2> HIDE DEF m, b, k
  <2>1. DecryptNoteData(k.encPrivate, boxes[i]) = IF m.to = u THEN {<<m.amount, b>>} ELSE {}
    BY <1>1, KeysDiffer DEF DecryptNoteData, EncryptOutputNote, EncryptNoteData, Some, None, k
  <2>2. CASE m.to = u
    BY <2>1, <2>2 DEF DecryptOutputNote
  <2>3. CASE m.to # u
    BY <2>1, <2>3 DEF DecryptOutputNote
  <2> QED BY <2>2, <2>3
<1> DEFINE spendable(p) == /\ p.amount # 0
                           /\ ComputeCommitment(p.amount, k.notePublic, p.blinding) = leaves[i]
           D == DecryptOutputNote(k.encPrivate, boxes[i])
           expected == ComputeNullifier(leaves[i], i - 1,
                         ComputeSignature(k.notePrivate, leaves[i], i - 1))
<1>3. TryDecryptAndDerive(k, leaves[i], i - 1, boxes[i])
        = {[amount |-> p.amount, blinding |-> p.blinding, index |-> i - 1, nullifier |-> expected] :
             p \in {q \in D : spendable(q)}}
  BY DEF TryDecryptAndDerive
<1>4. {q \in D : spendable(q)} = IF i \in Held(u) THEN {plain} ELSE {}
  <2>1. CASE m.to = u
    <3>1. spendable(plain) <=> m.amount # 0
      BY <1>1, <2>1
    <3> HIDE DEF spendable, plain, D
    <3> QED BY <1>2, <2>1, <3>1 DEF Held, D
  <2>2. CASE m.to # u
    BY <1>2, <2>2 DEF Held
  <2> QED BY <2>1, <2>2
<1>5. m.to = u =>
      [amount |-> plain.amount, blinding |-> plain.blinding, index |-> i - 1, nullifier |-> expected]
         = NoteAt(i)
  BY DEF NoteAt, NullifierAt
<1>6. i \in Held(u) => m.to = u
  BY DEF Held
<1> HIDE DEF plain, expected, D, spendable
<1>7. CASE i \in Held(u)
  BY <1>3, <1>4, <1>5, <1>6, <1>7
<1>8. CASE i \notin Held(u)
  BY <1>3, <1>4, <1>8
<1> QED BY <1>7, <1>8

\* A wallet finds exactly the notes of value made for its account.
LEMMA DiscoveredNotes ==
  ASSUME ChainInv, NEW u \in Users
  PROVE  Discovered(u) = {NoteAt(i) : i \in Held(u)}
<1> DEFINE R(i) == TryDecryptAndDerive(KeysOf(u), leaves[i], i - 1, boxes[i])
<1>1. DOMAIN leaves = 1..Len(leaves) /\ Len(leaves) \in Nat
  BY DEF ChainInv
<1>2. \A i \in 1..Len(leaves) : R(i) = IF i \in Held(u) THEN {NoteAt(i)} ELSE {}
  BY RowOpens
<1>3. Discovered(u) = UNION {R(i) : i \in 1..Len(leaves)}
  BY <1>1 DEF Discovered
<1>4. Held(u) \subseteq 1..Len(leaves)
  BY DEF Held
<1> HIDE DEF R
<1> QED BY <1>2, <1>3, <1>4

\* The fields of the note at a position.
LEMMA NoteFields ==
  ASSUME NEW i
  PROVE  /\ NoteAt(i).amount = minted[i].amount /\ NoteAt(i).blinding = BlindingAt(i)
         /\ NoteAt(i).index = i - 1 /\ NoteAt(i).nullifier = NullifierAt(i)
BY DEF NoteAt

\* NotesRecoverable from the seals.
LEMMA SealsSuffice == ChainInv => NotesRecoverable
<1> SUFFICES ASSUME ChainInv, NEW i \in DOMAIN minted, minted[i].amount # 0, NEW u \in Users
             PROVE  (\E n \in Discovered(u) : n.index = i - 1 /\ n.amount = minted[i].amount)
                      <=> u = minted[i].to
  BY DEF NotesRecoverable
<1>1. i \in 1..Len(leaves) /\ Len(leaves) \in Nat
  BY DEF ChainInv
<1>2. i \in Held(u) <=> u = minted[i].to
  BY <1>1 DEF Held
<1>3. ASSUME NEW n \in Discovered(u), n.index = i - 1 PROVE i \in Held(u)
  <2>1. PICK j \in Held(u) : n = NoteAt(j)
    BY <1>3, DiscoveredNotes
  <2>2. j \in 1..Len(leaves) /\ j - 1 = i - 1
    BY <1>3, <2>1, NoteFields DEF Held
  <2>3. j = i
    BY <1>1, <2>2
  <2> QED BY <2>1, <2>3
<1>4. ASSUME i \in Held(u)
      PROVE  \E n \in Discovered(u) : n.index = i - 1 /\ n.amount = minted[i].amount
  <2>1. NoteAt(i) \in Discovered(u)
    BY <1>4, DiscoveredNotes
  <2> QED BY <2>1, NoteFields
<1> QED BY <1>2, <1>3, <1>4
-----------------------------------------------------------------------------
(* Requests.                                                               *)

\* The outputs that u may ask for.
OutputOf(u) == [amount : Nat, blinding : 0..(fresh + 3), keys : Recipients(u) \cup HalfKeys(u)]

\* The notes that an account finds in the tree it has read.
DiscoveredIn(u, seen) == {n \in Discovered(u) : n.index < seen.size}

\* What transact is called with: notes the wallet found, outputs with drawn
\* blindings, room for the blindings of the padding, and what the wallet read.
IsRequest(u, inputs, outputs, ext, next, seen) ==
  /\ u \in Users /\ seen \in Views
  /\ inputs \in Seq(DiscoveredIn(u, seen)) /\ outputs \in Seq(OutputOf(u))
  /\ ext \in (-ExtMax - 1)..ExtMax
  /\ next \in Nat /\ fresh <= next /\ next + 2 - Len(outputs) <= fresh + 2

\* The inputs as transact reads them.
NotesOf(inputs, seen) == [i \in DOMAIN inputs |-> InputNote(inputs[i], seen)]

\* The next blinding and the number of leaves are natural numbers.
LEMMA FreshType == ChainInv => fresh \in Nat /\ Len(leaves) \in Nat
BY DEF ChainInv, fresh

\* A view is of a tree of the past or of now.
LEMMA ViewType ==
  ASSUME ChainInv, NEW seen \in Views
  PROVE  /\ seen.size \in 0..Len(leaves)
         /\ ~Outdated(seen) => seen.size % 2 = 0
<1>0. Len(leaves) \in Nat
  BY FreshType
<1>1. ASSUME NEW k \in {n \in 0..Len(leaves) : n % 2 = 0}, seen = View(k, "current", "current")
      PROVE  seen.size \in 0..Len(leaves) /\ seen.size % 2 = 0
  BY <1>1 DEF View
<1>2. ASSUME seen \in {View(Len(leaves), "past", "current"), View(Len(leaves), "current", "past")}
      PROVE  seen.size \in 0..Len(leaves) /\ Outdated(seen)
  BY <1>0, <1>2 DEF View, Outdated
<1> QED BY <1>1, <1>2 DEF Views, N_OUTPUTS

\* The tree of a view is a prefix of the leaves.
LEMMA SeenTree ==
  ASSUME ChainInv, NEW seen, seen.size \in 0..Len(leaves)
  PROVE  /\ DOMAIN SeenLeaves(seen) = 1..seen.size /\ Len(SeenLeaves(seen)) = seen.size
         /\ \A i \in 1..seen.size : SeenLeaves(seen)[i] = leaves[i]
         /\ SeenLeaves(seen) \in Seq(ChainCommitment)
<1>1. leaves \in Seq(ChainCommitment) /\ Len(leaves) \in Nat
  BY DEF ChainInv
<1>2. /\ SeenLeaves(seen) \in Seq(ChainCommitment)
      /\ Len(SeenLeaves(seen)) = seen.size
      /\ \A i \in 1..seen.size : SeenLeaves(seen)[i] = leaves[i]
  <2>1. seen.size <= Len(leaves) /\ \A i \in 1..seen.size : leaves[i] \in ChainCommitment
    BY <1>1
  <2> QED BY <1>1, <2>1 DEF SeenLeaves
<1> QED BY <1>2

\* The inputs a caller picks are a list of notes its wallet found.
LEMMA InputListsType ==
  ASSUME NEW u, NEW seen, NEW inputs \in InputLists(u, seen)
  PROVE  inputs \in Seq(DiscoveredIn(u, seen))
<1> DEFINE D == DiscoveredIn(u, seen)
<1>1. \/ inputs = <<>>
      \/ \E n \in D : inputs = <<n>>
      \/ \E n, m \in D : inputs = <<n, m>>
      \/ \E n \in D : inputs = [i \in 1..3 |-> n]
  BY DEF InputLists, DiscoveredIn, N_INPUTS
<1> HIDE DEF D
<1>2. CASE inputs = <<>>
  BY <1>2 DEF D
<1>3. CASE \E n \in D : inputs = <<n>>
  BY <1>3 DEF D
<1>4. CASE \E n, m \in D : inputs = <<n, m>>
  BY <1>4 DEF D
<1>5. CASE \E n \in D : inputs = [i \in 1..3 |-> n]
  <2>1. PICK n \in D : inputs = [i \in 1..3 |-> n]
    BY <1>5
  <2>2. inputs \in [1..3 -> D]
    BY <2>1
  <2>3. inputs \in UNION {[1..k -> D] : k \in Nat}
    <3>1. [1..3 -> D] \in {[1..k -> D] : k \in Nat}
      OBVIOUS
    <3> QED BY <2>2, <3>1
  <2>4. inputs \in Seq(D)
    BY <2>3, SeqDef
  <2> QED BY <2>4 DEF D
<1> QED BY <1>1, <1>2, <1>3, <1>4, <1>5

\* The outputs a caller picks are a list of at most three.
LEMMA OutputListsType ==
  ASSUME ChainInv, NEW u, NEW outputs \in OutputLists(u)
  PROVE  outputs \in Seq(OutputOf(u)) /\ Len(outputs) \in 0..3
<1> DEFINE O == OutputOf(u)
           K == Recipients(u) \cup HalfKeys(u)
<1>0. fresh \in Nat /\ NoteAmounts \subseteq Nat
  BY FreshType, FlowsAssumption
<1>1. \A a \in Nat, b \in 0..(fresh + 3), k \in K : Output(a, b, k) \in O
  BY DEF OutputOf, Output
<1>2. SelfKeys \in K
  BY DEF Recipients
<1> DEFINE L0 == {<<>>}
           L1 == {<<Output(a, fresh, k)>> : a \in NoteAmounts, k \in K}
           L2 == {<<Output(a, fresh, k), Output(b, fresh + 1, l)>> :
                    a, b \in NoteAmounts, k, l \in Recipients(u)}
           L3 == {[i \in 1..3 |-> Output(0, fresh + i - 1, SelfKeys)]}
<1>3. outputs \in L0 \cup L1 \cup L2 \cup L3
  BY DEF OutputLists, N_OUTPUTS
<1> HIDE DEF O
<1>4. CASE outputs \in L0
  BY <1>4 DEF O
<1>5. CASE outputs \in L1
  <2>1. PICK a \in NoteAmounts, k \in K : outputs = <<Output(a, fresh, k)>>
    BY <1>5
  <2>2. Output(a, fresh, k) \in O
    BY <1>0, <1>1
  <2> HIDE DEF L1, K
  <2> QED BY <2>1, <2>2 DEF O
<1>6. CASE outputs \in L2
  <2>1. PICK a \in NoteAmounts, b \in NoteAmounts, k \in Recipients(u), l \in Recipients(u) :
          outputs = <<Output(a, fresh, k), Output(b, fresh + 1, l)>>
    BY <1>6
  <2>2. Output(a, fresh, k) \in O /\ Output(b, fresh + 1, l) \in O
    BY <1>0, <1>1
  <2> HIDE DEF L2, K
  <2> QED BY <2>1, <2>2 DEF O
<1>7. CASE outputs \in L3
  <2>1. \A i \in 1..3 : Output(0, fresh + i - 1, SelfKeys) \in O
    BY <1>0, <1>1, <1>2
  <2>2. outputs \in [1..3 -> O]
    BY <1>7, <2>1
  <2>3. outputs \in Seq(O) /\ Len(outputs) = 3
    BY <2>2 DEF Seq
  <2> QED BY <2>3 DEF O
<1> QED BY <1>3, <1>4, <1>5, <1>6, <1>7

\* The lists of a request are lists of amounts.
LEMMA RequestLists ==
  ASSUME ChainInv, NEW u, NEW inputs, NEW outputs, NEW ext, NEW next, NEW seen,
         IsRequest(u, inputs, outputs, ext, next, seen)
  PROVE  /\ IsNotes(inputs, Len(inputs)) /\ IsNotes(NotesOf(inputs, seen), Len(inputs))
         /\ IsNotes(outputs, Len(outputs))
         /\ Len(NotesOf(inputs, seen)) = Len(inputs)
         /\ \A i \in 1..Len(inputs) : \E j \in Held(u) :
              /\ j \in 1..seen.size
              /\ inputs[i] = NoteAt(j)
              /\ NotesOf(inputs, seen)[i] = [amount |-> minted[j].amount, blinding |-> BlindingAt(j),
                                     index |-> j - 1, path |-> SeenLeaves(seen)]
<1>1. /\ inputs \in Seq(DiscoveredIn(u, seen)) /\ outputs \in Seq(OutputOf(u))
      /\ DOMAIN inputs = 1..Len(inputs) /\ DOMAIN outputs = 1..Len(outputs)
      /\ Len(inputs) \in Nat /\ Len(outputs) \in Nat /\ u \in Users
  BY DEF IsRequest
<1>2. ASSUME NEW i \in 1..Len(inputs)
      PROVE  \E j \in Held(u) :
              /\ j \in 1..seen.size
              /\ inputs[i] = NoteAt(j)
              /\ NotesOf(inputs, seen)[i] = [amount |-> minted[j].amount, blinding |-> BlindingAt(j),
                                     index |-> j - 1, path |-> SeenLeaves(seen)]
              /\ minted[j].amount \in Nat
  <2>1. inputs[i] \in Discovered(u) /\ inputs[i].index < seen.size
    <3>1. inputs[i] \in DiscoveredIn(u, seen)
      BY <1>1
    <3> QED BY <3>1 DEF DiscoveredIn
  <2>2. PICK j \in Held(u) : inputs[i] = NoteAt(j)
    BY <1>1, <2>1, DiscoveredNotes
  <2>6. j \in 1..seen.size
    <3>1. j - 1 < seen.size /\ j \in 1..Len(leaves) /\ seen.size \in 0..Len(leaves)
      BY <2>1, <2>2, NoteFields, ViewType DEF Held, IsRequest
    <3> QED BY <3>1, FreshType
  <2>3. j \in DOMAIN minted
    BY <2>2 DEF Held, ChainInv
  <2>4. minted[j].amount \in Nat
    <3>1. minted[j] \in Mint
      BY <2>3 DEF ChainInv
    <3> QED BY <3>1 DEF Mint
  <2>5. NotesOf(inputs, seen)[i] = InputNote(inputs[i], seen)
    BY <1>1 DEF NotesOf
  <2> QED BY <2>2, <2>4, <2>5, <2>6, NoteFields DEF InputNote
<1>3. ASSUME NEW i \in 1..Len(inputs)
      PROVE  inputs[i].amount \in Nat /\ NotesOf(inputs, seen)[i].amount \in Nat
  <2>1. PICK j \in Held(u) :
          /\ inputs[i] = NoteAt(j)
          /\ NotesOf(inputs, seen)[i] = [amount |-> minted[j].amount, blinding |-> BlindingAt(j),
                                   index |-> j - 1, path |-> SeenLeaves(seen)]
          /\ minted[j].amount \in Nat
    BY <1>2
  <2>2. NotesOf(inputs, seen)[i].amount = minted[j].amount
    BY <2>1
  <2>3. inputs[i].amount = minted[j].amount
    BY <2>1, NoteFields
  <2> QED BY <2>1, <2>2, <2>3
<1>4. DOMAIN NotesOf(inputs, seen) = 1..Len(inputs)
  BY <1>1 DEF NotesOf
<1>5. Len(NotesOf(inputs, seen)) = Len(inputs)
  <2>1. NotesOf(inputs, seen) \in Seq({InputNote(n, seen) : n \in DiscoveredIn(u, seen)})
    BY <1>1 DEF NotesOf
  <2> QED BY <1>1, <1>4, <2>1
<1>6. \A i \in 1..Len(outputs) : outputs[i].amount \in Nat
  <2>1. \A i \in 1..Len(outputs) : outputs[i] \in OutputOf(u)
    BY <1>1
  <2>2. \A o \in OutputOf(u) : o.amount \in Nat
    BY DEF OutputOf
  <2> QED BY <2>1, <2>2
<1> QED BY <1>1, <1>2, <1>3, <1>4, <1>5, <1>6 DEF IsNotes

\* transact's balance is that of the integers, with every sum in range.
LEMMA BalancedIff ==
  ASSUME ChainInv, NEW u, NEW inputs, NEW outputs, NEW ext, NEW next, NEW seen,
         IsRequest(u, inputs, outputs, ext, next, seen)
  PROVE  /\ TotalOf(NotesOf(inputs, seen)) \in Nat /\ TotalOf(outputs) \in Nat /\ ext \in Int
         /\ Balanced(NotesOf(inputs, seen), outputs, ext) <=>
              /\ TotalOf(NotesOf(inputs, seen)) + ext = TotalOf(outputs)
              /\ TotalOf(NotesOf(inputs, seen)) <= NoteMax /\ TotalOf(outputs) <= NoteMax
              /\ ext > -ExtMax - 1
<1> DEFINE a == TotalOf(NotesOf(inputs, seen))
           b == TotalOf(outputs)
<1>0. /\ ext \in Int /\ -ExtMax - 1 <= ext /\ ext <= ExtMax
      /\ NoteMax \in Nat /\ ExtMax \in Nat /\ ExtMax < NoteMax
  BY FlowsAssumption DEF IsRequest
<1>1. a \in Nat /\ b \in Nat
  BY RequestLists, SumIsChecked
<1>2. /\ SumNoteAmounts(NotesOf(inputs, seen)) = IF a <= NoteMax THEN {a} ELSE {}
      /\ SumNoteAmounts(outputs) = IF b <= NoteMax THEN {b} ELSE {}
  BY RequestLists, SumIsChecked DEF Some, None
<1> DEFINE E(in, out) == IF ext >= 0
              THEN \E public \in NoteFromExt(ext) : CheckedAdd(in, public) = Some(out)
              ELSE \E neg \in CheckedNeg(ext) : \E public \in NoteFromExt(neg) :
                     CheckedAdd(out, public) = Some(in)
<1>3. Balanced(NotesOf(inputs, seen), outputs, ext) <=>
        \E in \in SumNoteAmounts(NotesOf(inputs, seen)), out \in SumNoteAmounts(outputs) : E(in, out)
  BY DEF Balanced
<1> HIDE DEF a, b
<1>4. (a <= NoteMax /\ b <= NoteMax) => (E(a, b) <=> (a + ext = b /\ ext > -ExtMax - 1))
  <2> SUFFICES ASSUME a <= NoteMax, b <= NoteMax
               PROVE  E(a, b) <=> (a + ext = b /\ ext > -ExtMax - 1)
    OBVIOUS
  <2>1. CASE ext >= 0
    <3>1. E(a, b) <=> CheckedAdd(a, ext) = {b}
      BY <2>1 DEF NoteFromExt, Some
    <3>2. CheckedAdd(a, ext) = {b} <=> a + ext = b
      <4>1. CASE a + ext <= NoteMax
        BY <4>1 DEF CheckedAdd, Some
      <4>2. CASE ~(a + ext <= NoteMax)
        BY <1>0, <1>1, <4>2 DEF CheckedAdd, None
      <4> QED BY <4>1, <4>2
    <3> QED BY <1>0, <2>1, <3>1, <3>2
  <2>2. CASE ~(ext >= 0)
    <3>1. CASE ext = -ExtMax - 1
      BY <1>0, <2>2, <3>1 DEF CheckedNeg, None
    <3>2. CASE ext # -ExtMax - 1
      <4>0. ext > -ExtMax - 1 /\ -ext \in Nat
        BY <1>0, <2>2, <3>2
      <4>1. E(a, b) <=> CheckedAdd(b, -ext) = {a}
        BY <2>2, <3>2, <4>0 DEF CheckedNeg, NoteFromExt, Some
      <4>2. CheckedAdd(b, -ext) = {a} <=> b + (-ext) = a
        <5>1. CASE b + (-ext) <= NoteMax
          BY <5>1 DEF CheckedAdd, Some
        <5>2. CASE ~(b + (-ext) <= NoteMax)
          BY <1>0, <1>1, <4>0, <5>2 DEF CheckedAdd, None
        <5> QED BY <5>1, <5>2
      <4>3. b + (-ext) = a <=> a + ext = b
        BY <1>0, <1>1
      <4> QED BY <4>0, <4>1, <4>2, <4>3
    <3> QED BY <3>1, <3>2
  <2> QED BY <2>1, <2>2
<1> HIDE DEF E
<1>5. Balanced(NotesOf(inputs, seen), outputs, ext) <=> (a <= NoteMax /\ b <= NoteMax /\ E(a, b))
  BY <1>2, <1>3
<1>6. Balanced(NotesOf(inputs, seen), outputs, ext) <=>
        (a + ext = b /\ a <= NoteMax /\ b <= NoteMax /\ ext > -ExtMax - 1)
  BY <1>4, <1>5
<1> QED BY <1>0, <1>1, <1>6 DEF a, b

\* transact builds exactly the well formed requests.
LEMMA BuiltIffWellFormed ==
  ASSUME ChainInv, NEW u, NEW inputs, NEW outputs, NEW ext, NEW next, NEW seen, NEW shape,
         IsRequest(u, inputs, outputs, ext, next, seen)
  PROVE  TransactAccepts(NotesOf(inputs, seen), outputs, ext, shape)
           <=> WellFormed(NotesOf(inputs, seen), outputs, ext, shape)
BY BalancedIff DEF TransactAccepts, WellFormed
-----------------------------------------------------------------------------
(* The slots of a transaction.                                             *)

\* The padded inputs and outputs of a request.
InsOf(inputs, next, seen) == PadInputs(NotesOf(inputs, seen), next)
OutsOf(inputs, outputs, next) == PadOutputs(outputs, next + (N_INPUTS - Len(inputs)))

\* A slot with the note at position j of the tree, and a dummy.
IsNoteSlot(s, j, seen) ==
  s = [amount |-> minted[j].amount, blinding |-> BlindingAt(j), index |-> j - 1, path |-> SeenLeaves(seen)]
IsDummySlot(s) == \E b \in fresh..(fresh + 3) : s = DummyInput(b)

\* An input slot holds a note of the tree that the request names, or a dummy.
LEMMA InputSlots ==
  ASSUME ChainInv, NEW u, NEW inputs, NEW outputs, NEW ext, NEW next, NEW seen,
         IsRequest(u, inputs, outputs, ext, next, seen), Len(inputs) <= 2, Len(outputs) <= 2
  PROVE  /\ Len(inputs) \in 0..2
         /\ \A i \in 1..Len(inputs) : \E j \in Held(u) :
              /\ j \in 1..seen.size /\ inputs[i] = NoteAt(j)
              /\ IsNoteSlot(InsOf(inputs, next, seen)[i], j, seen)
         /\ \A i \in 1..2 : i > Len(inputs) => IsDummySlot(InsOf(inputs, next, seen)[i])
         /\ Len(inputs) = 0 => InsOf(inputs, next, seen)[1] # InsOf(inputs, next, seen)[2]
<1> DEFINE ns == NotesOf(inputs, seen)
           ins == InsOf(inputs, next, seen)
           n == Len(inputs)
<1>1. n \in 0..2 /\ Len(ns) = n /\ DOMAIN ns = 1..n
  <2>1. n \in Nat /\ n <= 2
    BY DEF IsRequest
  <2>2. Len(ns) = n
    BY RequestLists
  <2>3. DOMAIN ns = 1..n
    BY RequestLists DEF IsNotes
  <2> HIDE DEF n, ns
  <2> QED BY <2>1, <2>2, <2>3
<1>2. \A i \in 1..2 : ins[i] = IF i <= n THEN ns[i] ELSE DummyInput(next + (i - n - 1))
  BY <1>1 DEF InsOf, PadInputs, N_INPUTS
<1>3. ASSUME NEW i \in 1..n
      PROVE  \E j \in Held(u) : j \in 1..seen.size /\ inputs[i] = NoteAt(j) /\ IsNoteSlot(ins[i], j, seen)
  <2>1. PICK j \in Held(u) :
          /\ j \in 1..seen.size
          /\ inputs[i] = NoteAt(j)
          /\ ns[i] = [amount |-> minted[j].amount, blinding |-> BlindingAt(j),
                      index |-> j - 1, path |-> SeenLeaves(seen)]
    BY RequestLists
  <2>2. i \in 1..2 /\ i <= n
    BY <1>1
  <2>3. ins[i] = ns[i]
    BY <1>2, <2>2
  <2> HIDE DEF ns, ins
  <2> QED BY <2>1, <2>3 DEF IsNoteSlot
<1>4. fresh \in Nat /\ next \in Nat /\ fresh <= next /\ next <= fresh + 2
  <2>1. Len(outputs) \in Nat /\ fresh \in Nat
    BY FreshType DEF IsRequest
  <2> QED BY <2>1 DEF IsRequest
<1>5. ASSUME NEW i \in 1..2, i > n PROVE IsDummySlot(ins[i])
  <2>1. ins[i] = DummyInput(next + (i - n - 1))
    BY <1>1, <1>2, <1>5
  <2>2. next + (i - n - 1) \in fresh..(fresh + 3)
    BY <1>1, <1>4, <1>5
  <2> QED BY <2>1, <2>2 DEF IsDummySlot
<1>6. n = 0 => ins[1] # ins[2]
  <2> SUFFICES ASSUME n = 0 PROVE ins[1] # ins[2]
    OBVIOUS
  <2>1. ins[1] = DummyInput(next + (1 - 0 - 1)) /\ ins[2] = DummyInput(next + (2 - 0 - 1))
    BY <1>2
  <2>2. ins[1].blinding = next + (1 - 0 - 1) /\ ins[2].blinding = next + (2 - 0 - 1)
    BY <2>1 DEF DummyInput
  <2>3. ins[1].blinding # ins[2].blinding
    BY <1>4, <2>2
  <2> QED BY <2>3
<1> QED BY <1>1, <1>3, <1>5, <1>6

\* The nullifier of a note's slot is the one its owner derived.
LEMMA NoteSlotNullifier ==
  ASSUME ChainInv, NEW u \in Users, NEW seen, NEW s, NEW j \in Held(u), IsNoteSlot(s, j, seen)
  PROVE  /\ SlotCommitment(u, s) = leaves[j]
         /\ SlotNullifier(u, s) = NullifierAt(j)
<1>1. j \in 1..Len(leaves) /\ minted[j].to = u
  BY DEF Held
<1>2. SealedAt(j)
  BY <1>1 DEF ChainInv
<1>3. s.amount = minted[j].amount /\ s.blinding = BlindingAt(j) /\ s.index = j - 1
  BY DEF IsNoteSlot
<1>4. SlotCommitment(u, s) = leaves[j]
  BY <1>1, <1>2, <1>3 DEF SealedAt, SlotCommitment
<1> QED BY <1>1, <1>3, <1>4 DEF SlotNullifier, NullifierAt

\* The nullifier of a dummy names its blinding and amount zero.
LEMMA DummySlotNullifier ==
  ASSUME NEW u, NEW s, NEW b, s = DummyInput(b)
  PROVE  /\ SlotNullifier(u, s)[2][2] = 0
         /\ SlotNullifier(u, s)[2][4] = b
<1>1. s.amount = 0 /\ s.blinding = b
  BY DEF DummyInput
<1>2. SlotNullifier(u, s)[2] = ComputeCommitment(0, KeysOf(u).notePublic, b)
  BY <1>1, NullifierInjective DEF SlotNullifier, SlotCommitment
<1> QED BY <1>2, CommitmentInjective

\* The nullifier at a position names amount, blinding and position.
LEMMA NullifierParts ==
  ASSUME ChainInv, NEW j \in 1..Len(leaves)
  PROVE  /\ NullifierAt(j)[2][2] = minted[j].amount
         /\ NullifierAt(j)[2][4] = BlindingAt(j)
         /\ NullifierAt(j)[3] = j - 1
<1>1. NullifierAt(j)[2] = leaves[j] /\ NullifierAt(j)[3] = j - 1
  BY NullifierInjective DEF NullifierAt
<1>2. leaves[j][2] = minted[j].amount
  <2>1. SealedAt(j)
    BY DEF ChainInv
  <2> QED BY <2>1, CommitmentInjective DEF SealedAt
<1> QED BY <1>1, <1>2 DEF BlindingAt

\* Where an output goes: both its keys are those of its addressee.
LEMMA Addressed ==
  ASSUME NEW u \in Users, NEW o, o.keys \in Recipients(u)
  PROVE  /\ Addressee(u, o) \in Users
         /\ RecipientNotePublic(o, u) = KeysOf(Addressee(u, o)).notePublic
         /\ RecipientEncPublic(o, u) = KeysOf(Addressee(u, o)).encPublic
<1>1. CASE o.keys = SelfKeys
  <2>1. o.keys.note = None /\ o.keys.enc = None
    BY <1>1 DEF SelfKeys
  <2> QED BY <2>1 DEF Addressee, RecipientNotePublic, RecipientEncPublic
<1>2. CASE \E v \in Users \ {u} : o.keys = KeysFor(v)
  <2>1. PICK v \in Users \ {u} : o.keys = KeysFor(v)
    BY <1>2
  <2>2. o.keys.note = {KeysOf(v).notePublic} /\ o.keys.enc = {KeysOf(v).encPublic}
    BY <2>1 DEF KeysFor, Some
  <2>3. \A w \in Users : KeysFor(w).note = o.keys.note <=> w = v
    <3>1. \A w \in Users : KeysFor(w).note = {KeysOf(w).notePublic}
      BY DEF KeysFor, Some
    <3> QED BY <2>2, <3>1, KeysDiffer
  <2>4. o.keys.note # None /\ o.keys.enc # None
    BY <2>2 DEF None
  <2>5. Addressee(u, o) = v
    BY <2>3, <2>4 DEF Addressee
  <2>6. RecipientNotePublic(o, u) = KeysOf(v).notePublic
    BY <2>2, <2>4 DEF RecipientNotePublic
  <2>7. RecipientEncPublic(o, u) = KeysOf(v).encPublic
    BY <2>2, <2>4 DEF RecipientEncPublic
  <2> QED BY <2>5, <2>6, <2>7
<1> QED BY <1>1, <1>2 DEF Recipients

\* An output slot holds an output of the request or padding, with a new blinding.
LEMMA OutputSlots ==
  ASSUME ChainInv, NEW u, NEW inputs, NEW outputs, NEW ext, NEW next, NEW seen,
         IsRequest(u, inputs, outputs, ext, next, seen), Len(inputs) <= 2, Len(outputs) <= 2,
         KeysPaired(outputs)
  PROVE  /\ Len(outputs) \in 0..2
         /\ \A i \in 1..2 :
              LET o == OutsOf(inputs, outputs, next)[i]
              IN  /\ o.amount \in Nat /\ o.blinding \in 0..(fresh + 3)
                  /\ o.keys \in Recipients(u)
                  /\ o.amount = IF i <= Len(outputs) THEN outputs[i].amount ELSE 0
<1> DEFINE outs == OutsOf(inputs, outputs, next)
           m == Len(outputs)
           n == Len(inputs)
<1>1. m \in 0..2 /\ n \in 0..2 /\ DOMAIN outputs = 1..m
  <2>1. m \in Nat /\ n \in Nat /\ DOMAIN outputs = 1..m
    BY DEF IsRequest
  <2>2. m <= 2 /\ n <= 2
    OBVIOUS
  <2> HIDE DEF m, n
  <2> QED BY <2>1, <2>2
<1>2. \A i \in 1..2 : outs[i] = IF i <= m THEN outputs[i]
                               ELSE Output(0, next + (2 - n) + (i - m - 1), SelfKeys)
  BY <1>1 DEF OutsOf, PadOutputs, N_OUTPUTS, N_INPUTS
<1>3. ASSUME NEW i \in 1..m PROVE outputs[i].keys \in Recipients(u) /\ outputs[i] \in OutputOf(u)
  <2>1. outputs[i] \in OutputOf(u)
    BY <1>1 DEF IsRequest
  <2>2. outputs[i].keys \in Recipients(u) \cup HalfKeys(u)
    BY <2>1 DEF OutputOf
  <2>3. (outputs[i].keys.note = None) <=> (outputs[i].keys.enc = None)
    BY <1>1 DEF KeysPaired
  <2>4. ASSUME NEW k \in HalfKeys(u) PROVE ~((k.note = None) <=> (k.enc = None))
    <3>1. PICK v \in Users : k = [KeysFor(v) EXCEPT !.note = None] \/ k = [KeysFor(v) EXCEPT !.enc = None]
      BY DEF HalfKeys
    <3>2. KeysFor(v).note # None /\ KeysFor(v).enc # None
      BY DEF KeysFor, Some, None
    <3>3. /\ [KeysFor(v) EXCEPT !.note = None].note = None
          /\ [KeysFor(v) EXCEPT !.note = None].enc = KeysFor(v).enc
          /\ [KeysFor(v) EXCEPT !.enc = None].enc = None
          /\ [KeysFor(v) EXCEPT !.enc = None].note = KeysFor(v).note
      BY DEF KeysFor
    <3> QED BY <3>1, <3>2, <3>3
  <2> QED BY <2>1, <2>2, <2>3, <2>4
<1>4. \A o \in OutputOf(u) : o.amount \in Nat /\ o.blinding \in 0..(fresh + 3)
  BY DEF OutputOf
<1>5. fresh \in Nat /\ next \in Nat /\ fresh <= next /\ next + 2 - m <= fresh + 2
  BY FreshType DEF IsRequest
<1>6. ASSUME NEW i \in 1..2
      PROVE  /\ outs[i].amount \in Nat /\ outs[i].blinding \in 0..(fresh + 3)
             /\ outs[i].keys \in Recipients(u)
             /\ outs[i].amount = IF i <= m THEN outputs[i].amount ELSE 0
  <2>1. CASE i <= m
    <3>1. i \in 1..m /\ outs[i] = outputs[i]
      BY <1>1, <1>2, <2>1
    <3> HIDE DEF outs
    <3> QED BY <1>3, <1>4, <2>1, <3>1
  <2>2. CASE ~(i <= m)
    <3> DEFINE b == next + (2 - n) + (i - m - 1)
    <3>1. outs[i] = Output(0, b, SelfKeys)
      BY <1>2, <2>2
    <3>2. b \in 0..(fresh + 3)
      BY <1>1, <1>5, <2>2
    <3>3. SelfKeys \in Recipients(u)
      BY DEF Recipients
    <3> HIDE DEF outs, b
    <3>4. outs[i].amount = 0 /\ outs[i].blinding = b /\ outs[i].keys = SelfKeys
      BY <3>1 DEF Output
    <3> QED BY <2>2, <3>2, <3>3, <3>4
  <2> QED BY <2>1, <2>2
<1> QED BY <1>1, <1>6

\* What transact accepts.
LEMMA AcceptedRequest ==
  ASSUME NEW u, NEW inputs, NEW outputs, NEW ext, NEW next, NEW seen, NEW shape, ChainInv,
         IsRequest(u, inputs, outputs, ext, next, seen),
         TransactAccepts(NotesOf(inputs, seen), outputs, ext, shape)
  PROVE  /\ Len(inputs) <= 2 /\ Len(outputs) <= 2 /\ KeysPaired(outputs)
         /\ Balanced(NotesOf(inputs, seen), outputs, ext)
BY RequestLists DEF TransactAccepts, N_INPUTS, N_OUTPUTS

\* The padded slots balance in the integers, and no side exceeds a note.
LEMMA SlotsBalance ==
  ASSUME NEW u, NEW inputs, NEW outputs, NEW ext, NEW next, NEW seen, NEW shape, ChainInv,
         IsRequest(u, inputs, outputs, ext, next, seen),
         TransactAccepts(NotesOf(inputs, seen), outputs, ext, shape)
  PROVE  LET ins == InsOf(inputs, next, seen)
             outs == OutsOf(inputs, outputs, next)
         IN  /\ \A i \in 1..2 : ins[i].amount \in Nat /\ outs[i].amount \in Nat
             /\ ins[1].amount + ins[2].amount + ext = outs[1].amount + outs[2].amount
             /\ ins[1].amount + ins[2].amount <= NoteMax
             /\ outs[1].amount + outs[2].amount <= NoteMax
             /\ ext \in Int /\ ext > -ExtMax - 1 /\ ext <= ExtMax
             /\ \A i \in 1..2 : i > Len(inputs) => ins[i].amount = 0
<1> DEFINE ns == NotesOf(inputs, seen)
           ins == InsOf(inputs, next, seen)
           outs == OutsOf(inputs, outputs, next)
           n == Len(inputs)
           m == Len(outputs)
<1>0. Len(inputs) <= 2 /\ Len(outputs) <= 2 /\ KeysPaired(outputs)
  BY AcceptedRequest
<1>1. n \in 0..2 /\ m \in 0..2
  BY <1>0, InputSlots, OutputSlots
<1>2. IsNotes(ns, n) /\ IsNotes(outputs, m) /\ Len(ns) = n
  BY RequestLists
<1>3. ASSUME NEW i \in 1..2
      PROVE  ins[i].amount \in Nat /\ ins[i].amount = IF i <= n THEN ns[i].amount ELSE 0
  <2>1. ins[i] = IF i <= n THEN ns[i] ELSE DummyInput(next + (i - n - 1))
    BY <1>2 DEF InsOf, PadInputs, N_INPUTS
  <2>2. CASE i <= n
    <3>1. i \in 1..n /\ ins[i] = ns[i]
      BY <1>1, <2>1, <2>2
    <3>2. ns[i].amount \in Nat
      BY <1>2, <3>1 DEF IsNotes
    <3> HIDE DEF ins, ns
    <3> QED BY <2>2, <3>1, <3>2
  <2>3. CASE ~(i <= n)
    <3>1. ins[i] = DummyInput(next + (i - n - 1))
      BY <2>1, <2>3
    <3> HIDE DEF ins, ns
    <3>2. ins[i].amount = 0
      BY <3>1 DEF DummyInput
    <3> QED BY <2>3, <3>2
  <2> QED BY <2>2, <2>3
<1>4. \A i \in 1..2 : /\ outs[i].amount \in Nat
                     /\ outs[i].amount = IF i <= m THEN outputs[i].amount ELSE 0
  BY <1>0, OutputSlots
<1>5. TotalOf(ns) = ins[1].amount + ins[2].amount
  <2>1. /\ n = 0 => TotalOf(ns) = 0
        /\ n = 1 => TotalOf(ns) = ns[1].amount
        /\ n = 2 => TotalOf(ns) = ns[1].amount + ns[2].amount
    BY <1>2, TotalOfFew
  <2> HIDE DEF n, ns, ins
  <2> QED BY <1>1, <1>3, <2>1
<1>6. TotalOf(outputs) = outs[1].amount + outs[2].amount
  <2>1. /\ m = 0 => TotalOf(outputs) = 0
        /\ m = 1 => TotalOf(outputs) = outputs[1].amount
        /\ m = 2 => TotalOf(outputs) = outputs[1].amount + outputs[2].amount
    BY <1>2, TotalOfFew
  <2> HIDE DEF m, outs
  <2> QED BY <1>1, <1>4, <2>1
<1>7. /\ TotalOf(ns) + ext = TotalOf(outputs)
      /\ TotalOf(ns) <= NoteMax /\ TotalOf(outputs) <= NoteMax
      /\ ext > -ExtMax - 1 /\ ext \in Int
  BY AcceptedRequest, BalancedIff
<1>8. ext <= ExtMax
  BY FlowsAssumption DEF IsRequest
<1>9. \A i \in 1..2 : i > n => ins[i].amount = 0
  <2> HIDE DEF n, ins
  <2> QED BY <1>1, <1>3
<1> HIDE DEF ins, outs
<1>10. /\ ins[1].amount + ins[2].amount + ext = outs[1].amount + outs[2].amount
       /\ ins[1].amount + ins[2].amount <= NoteMax
       /\ outs[1].amount + outs[2].amount <= NoteMax
  BY <1>5, <1>6, <1>7
<1> QED BY <1>3, <1>4, <1>7, <1>8, <1>9, <1>10 DEF ins, outs

\* Prover and pool read an external amount as the same element of the field.
LEMMA FieldOfExt ==
  ASSUME NEW ext \in Int, -ExtMax - 1 < ext, ext <= ExtMax
  PROVE  Some(FieldFromExt(ext)) = CalculatePublicAmount(ext)
<1>0. P \in Nat /\ P > 0 /\ ExtMax \in Nat /\ MaxExtAmount \in Nat /\ ExtMax + 1 < MaxExtAmount
  BY FlowsAssumption
<1> QED BY <1>0 DEF FieldFromExt, CalculatePublicAmount

\* Adding the order of the field changes no element.
LEMMA OrderVanishes ==
  ASSUME NEW y \in Nat
  PROVE  (y + P) % P = y % P
<1>1. P \in Nat /\ P > 0 /\ y \in Int
  BY FlowsAssumption
<1> QED BY <1>1, RemainderPlus

\* The sums of the circuit balance in the field.
LEMMA FieldBalances ==
  ASSUME NEW x \in Nat, NEW y \in Nat, NEW ext \in Int, x + ext = y
  PROVE  (x + FieldFromExt(ext)) % P = y % P
<1>0. P \in Nat /\ P > 0
  BY FlowsAssumption
<1>1. CASE ext >= 0
  BY <1>1 DEF FieldFromExt
<1>2. CASE ~(ext >= 0)
  <2>1. FieldFromExt(ext) = P + ext
    BY <1>0, <1>2 DEF FieldFromExt
  <2>2. x + FieldFromExt(ext) = y + P
    BY <1>0, <2>1
  <2> QED BY <2>2, OrderVanishes
<1> QED BY <1>1, <1>2

\* Filling a leaf into its own path gives the tree.
LEMMA OwnPath ==
  ASSUME ChainInv, NEW seen, seen.size \in 0..Len(leaves), NEW j \in 1..seen.size
  PROVE  MerkleRoot(leaves[j], j - 1, SeenLeaves(seen)) = SeenLeaves(seen)
<1> DEFINE tree == SeenLeaves(seen)
<1>1. j - 1 + 1 = j /\ j \in DOMAIN tree /\ tree[j] = leaves[j] /\ tree \in Seq(ChainCommitment)
  BY SeenTree
<1> HIDE DEF tree
<1>2. [tree EXCEPT ![j] = leaves[j]] = tree
  BY <1>1
<1> QED BY <1>1, <1>2 DEF MerkleRoot, tree

\* The pool remembers the tree of a view, unless it has moved on too far.
LEMMA RootKept ==
  ASSUME ChainInv, NEW seen \in Views
  PROVE  /\ ~Outdated(seen) => KnownRoot(SeenLeaves(seen))
         /\ KnownRoot(SeenLeaves(seen)) => Len(leaves) - seen.size < 2 * RootsKept
<1> DEFINE N == Len(leaves)
           k == seen.size
<1>0. N \in Nat /\ k \in 0..N /\ RootsKept \in Nat /\ (~Outdated(seen) => k % 2 = 0)
  BY ViewType, FreshType, FlowsAssumption
<1>1. \A m \in 0..N : (N - m) \div 2 < RootsKept <=> N - m < 2 * RootsKept
  BY <1>0
<1>2. ASSUME ~Outdated(seen) PROVE KnownRoot(SeenLeaves(seen))
  <2>1. N - k < 2 * RootsKept /\ k % 2 = 0
    BY <1>0, <1>2 DEF Outdated, N_OUTPUTS
  <2>2. (N - k) \div 2 < RootsKept
    BY <1>0, <1>1, <2>1
  <2> QED BY <1>0, <2>1, <2>2 DEF KnownRoot, SeenLeaves, N_OUTPUTS
<1>3. ASSUME KnownRoot(SeenLeaves(seen)) PROVE N - k < 2 * RootsKept
  <2>1. PICK m \in 0..N : (N - m) \div 2 < RootsKept /\ SeenLeaves(seen) = SubSeq(leaves, 1, m)
    BY <1>3 DEF KnownRoot, N_OUTPUTS
  <2>2. leaves \in Seq(ChainCommitment)
    BY DEF ChainInv
  <2>3. Len(SubSeq(leaves, 1, m)) = m
    BY <1>0, <2>2
  <2>4. Len(SeenLeaves(seen)) = k
    BY <1>0, SeenTree
  <2>5. m = k
    BY <2>1, <2>3, <2>4
  <2> QED BY <1>1, <2>1, <2>5
<1> QED BY <1>2, <1>3

\* The fields of the artifacts that the circuit and the pool read.
LEMMA ArtifactFields ==
  ASSUME NEW u, NEW ins, NEW outs, NEW ext, NEW recipient, NEW seen,
         NEW a, a = Artifacts(u, ins, outs, ext, recipient, seen)
  PROVE  /\ a.extData.ext_amount = ext
         /\ a.extData.encrypted_output0 = OutputBox(u, outs[1])
         /\ a.extData.encrypted_output1 = OutputBox(u, outs[2])
         /\ a.public.root = SeenLeaves(seen)
         /\ a.public.aspMembershipRoot = seen.membership
         /\ a.public.aspNonMembershipRoot = seen.nonMembership
         /\ a.public.publicAmount = FieldFromExt(ext)
         /\ a.public.extDataHash = HashExtDataOffchain(a.extData)
         /\ a.public.inputNullifier = <<SlotNullifier(u, ins[1]), SlotNullifier(u, ins[2])>>
         /\ a.public.outputCommitment = <<OutputCommitment(u, outs[1]), OutputCommitment(u, outs[2])>>
         /\ a.private.membership = MembershipProof(u)
         /\ a.private.nonMembership = NonMembershipProof(u)
         /\ \A i \in 1..2 :
              /\ a.public.inputNullifier[i] = SlotNullifier(u, ins[i])
              /\ a.public.outputCommitment[i] = OutputCommitment(u, outs[i])
              /\ a.private.inAmount[i] = ins[i].amount
              /\ a.private.inPrivateKey[i] = KeysOf(u).notePrivate
              /\ a.private.inBlinding[i] = ins[i].blinding
              /\ a.private.inPathIndices[i] = ins[i].index
              /\ a.private.inPathElements[i] = ins[i].path
              /\ a.private.outAmount[i] = outs[i].amount
              /\ a.private.outPubkey[i] = RecipientNotePublic(outs[i], u)
              /\ a.private.outBlinding[i] = outs[i].blinding
<1>1. a.public.inputNullifier = <<SlotNullifier(u, ins[1]), SlotNullifier(u, ins[2])>>
  BY DEF Artifacts, N_INPUTS, N_OUTPUTS
<1>2. a.public.outputCommitment = <<OutputCommitment(u, outs[1]), OutputCommitment(u, outs[2])>>
  BY DEF Artifacts, N_INPUTS, N_OUTPUTS
<1> QED BY <1>1, <1>2 DEF Artifacts, N_INPUTS, N_OUTPUTS

\* The prover's and the circuit's hashes of a slot agree.
LEMMA SlotHolds ==
  ASSUME NEW u, NEW ins, NEW outs, NEW ext, NEW recipient, NEW seen, NEW i \in 1..2,
         ins[i].amount # 0 =>
           MerkleRoot(SlotCommitment(u, ins[i]), ins[i].index, ins[i].path) = SeenLeaves(seen)
  PROVE  LET a == Artifacts(u, ins, outs, ext, recipient, seen)
         IN  CircuitInputHolds(a.public, a.private, i) /\ CircuitOutputHolds(a.public, a.private, i)
<1> DEFINE a == Artifacts(u, ins, outs, ext, recipient, seen)
           pub == a.public
           prv == a.private
           key == Poseidon2Hash2(prv.inPrivateKey[i], 0, 3)
           commitment == Poseidon2Hash3(prv.inAmount[i], key, prv.inBlinding[i], 1)
           signature == Poseidon2Hash3(prv.inPrivateKey[i], commitment, prv.inPathIndices[i], 4)
<1>1. /\ pub.root = SeenLeaves(seen) /\ pub.inputNullifier[i] = SlotNullifier(u, ins[i])
      /\ pub.outputCommitment[i] = OutputCommitment(u, outs[i])
      /\ prv.inAmount[i] = ins[i].amount /\ prv.inPrivateKey[i] = KeysOf(u).notePrivate
      /\ prv.inBlinding[i] = ins[i].blinding /\ prv.inPathIndices[i] = ins[i].index
      /\ prv.inPathElements[i] = ins[i].path
      /\ prv.outAmount[i] = outs[i].amount /\ prv.outPubkey[i] = RecipientNotePublic(outs[i], u)
      /\ prv.outBlinding[i] = outs[i].blinding
      /\ prv.membership = MembershipProof(u) /\ prv.nonMembership = NonMembershipProof(u)
  <2>1. a = Artifacts(u, ins, outs, ext, recipient, seen)
    OBVIOUS
  <2> HIDE DEF a
  <2> QED BY <2>1, ArtifactFields
<1> HIDE DEF a, pub, prv
<1>2. key = KeysOf(u).notePublic
  BY <1>1, KeysDiffer DEF DerivePublicKey
<1>3. commitment = SlotCommitment(u, ins[i])
  BY <1>1, <1>2 DEF SlotCommitment, ComputeCommitment
<1>4. pub.inputNullifier[i] = Poseidon2Hash3(commitment, prv.inPathIndices[i], signature, 2)
  <2> HIDE DEF commitment
  <2> QED BY <1>1, <1>3 DEF SlotNullifier, ComputeNullifier, ComputeSignature
<1>5. prv.membership.leaf = Poseidon2Hash2(key, prv.membership.blinding, 1)
  BY <1>1, <1>2 DEF MembershipProof, AspMembershipLeaf
<1>6. prv.nonMembership.key = key
  BY <1>1, <1>2 DEF NonMembershipProof
<1>7. prv.inAmount[i] # 0 => MerkleRoot(commitment, prv.inPathIndices[i], prv.inPathElements[i]) = pub.root
  <2> HIDE DEF commitment
  <2> QED BY <1>1, <1>3
<1>8. CircuitInputHolds(pub, prv, i)
  BY <1>4, <1>5, <1>6, <1>7 DEF CircuitInputHolds
<1>9. CircuitOutputHolds(pub, prv, i)
  BY <1>1 DEF CircuitOutputHolds, OutputCommitment, ComputeCommitment
<1> QED BY <1>8, <1>9 DEF a, pub, prv

\* What transact builds is accepted when nothing stands against it.
LEMMA BuiltAccepted ==
  ASSUME NEW u, NEW inputs, NEW outputs, NEW ext, NEW next, NEW seen, NEW shape, NEW recipient,
         ChainInv, SpentInv, IsRequest(u, inputs, outputs, ext, next, seen),
         TransactAccepts(NotesOf(inputs, seen), outputs, ext, shape),
         ~Reuses(inputs), ~Outdated(seen), ~(ext > MaximumDeposit)
  PROVE  PoolAccepts(Artifacts(u, InsOf(inputs, next, seen), OutsOf(inputs, outputs, next),
                               ext, recipient, seen))
<1> DEFINE ins == InsOf(inputs, next, seen)
           outs == OutsOf(inputs, outputs, next)
           n == Len(inputs)
           a == Artifacts(u, ins, outs, ext, recipient, seen)
<1>0. Len(inputs) <= 2 /\ Len(outputs) <= 2 /\ u \in Users
  BY AcceptedRequest DEF IsRequest
<1>1. n \in 0..2 /\ DOMAIN inputs = 1..n
  BY <1>0, InputSlots, RequestLists DEF IsNotes
<1>2. ASSUME NEW i \in 1..n
      PROVE  \E j \in Held(u) : j \in 1..seen.size /\ inputs[i] = NoteAt(j) /\ IsNoteSlot(ins[i], j, seen)
  BY <1>0, InputSlots
<1>3. \A i \in 1..2 : i > n => IsDummySlot(ins[i])
  BY <1>0, InputSlots
<1>4. n = 0 => ins[1] # ins[2]
  BY <1>0, InputSlots
<1> DEFINE null(i) == SlotNullifier(u, ins[i])
<1>5. ASSUME NEW i \in 1..n
      PROVE  \E j \in Held(u) : /\ j \in 1..seen.size /\ inputs[i] = NoteAt(j)
                                /\ IsNoteSlot(ins[i], j, seen)
                                /\ null(i) = NullifierAt(j) /\ SlotCommitment(u, ins[i]) = leaves[j]
                                /\ j \in 1..Len(leaves) /\ minted[j].amount # 0
  <2>1. PICK j \in Held(u) : j \in 1..seen.size /\ inputs[i] = NoteAt(j) /\ IsNoteSlot(ins[i], j, seen)
    BY <1>2
  <2>2. j \in 1..Len(leaves) /\ minted[j].amount # 0
    BY DEF Held
  <2> HIDE DEF ins
  <2> QED BY <1>0, <2>1, <2>2, NoteSlotNullifier
<1>6. ASSUME NEW i \in 1..2, i > n
      PROVE  \E b \in fresh..(fresh + 3) : ins[i] = DummyInput(b) /\ null(i)[2][2] = 0 /\ null(i)[2][4] = b
  <2>1. PICK b \in fresh..(fresh + 3) : ins[i] = DummyInput(b)
    BY <1>3, <1>6 DEF IsDummySlot
  <2> HIDE DEF ins
  <2> QED BY <2>1, DummySlotNullifier
<1>7. fresh \in Nat
  BY FreshType
<1> HIDE DEF ins, outs, null
<1>8. ASSUME NEW i \in 1..2 PROVE null(i) \notin spent
  <2>1. CASE i <= n
    <3>0. i \in 1..n
      BY <1>1, <2>1
    <3>1. PICK j \in Held(u) : inputs[i] = NoteAt(j) /\ null(i) = NullifierAt(j)
      BY <1>5, <3>0
    <3>2. inputs[i].nullifier = null(i)
      BY <3>1, NoteFields
    <3> QED BY <1>1, <3>0, <3>2 DEF Reuses
  <2>2. CASE i > n
    <3>1. PICK b \in fresh..(fresh + 3) : null(i)[2][4] = b
      BY <1>6, <2>2
    <3> QED BY <1>7, <3>1 DEF SpentInv
  <2> QED BY <1>1, <2>1, <2>2
<1>9. null(1) # null(2)
  <2>1. CASE n = 0
    <3>1. PICK b \in fresh..(fresh + 3) : ins[1] = DummyInput(b) /\ null(1)[2][4] = b
      BY <1>6, <2>1
    <3>2. PICK c \in fresh..(fresh + 3) : ins[2] = DummyInput(c) /\ null(2)[2][4] = c
      BY <1>6, <2>1
    <3>3. b # c
      BY <1>4, <2>1, <3>1, <3>2
    <3> QED BY <3>1, <3>2, <3>3
  <2>2. CASE n = 1
    <3>1. PICK j \in Held(u) : /\ null(1) = NullifierAt(j)
                               /\ j \in 1..Len(leaves) /\ minted[j].amount # 0
      BY <1>5, <2>2
    <3>2. null(1)[2][2] # 0
      BY <3>1, NullifierParts
    <3>3. null(2)[2][2] = 0
      BY <1>6, <2>2
    <3> QED BY <3>2, <3>3
  <2>3. CASE n = 2
    <3>1. PICK j \in Held(u) : inputs[1] = NoteAt(j) /\ null(1) = NullifierAt(j) /\ j \in 1..Len(leaves)
      BY <1>5, <2>3
    <3>2. PICK k \in Held(u) : inputs[2] = NoteAt(k) /\ null(2) = NullifierAt(k) /\ k \in 1..Len(leaves)
      BY <1>5, <2>3
    <3>3. inputs[1].index # inputs[2].index
      <4>1. 1 \in DOMAIN inputs /\ 2 \in DOMAIN inputs
        BY <1>1, <2>3
      <4> QED BY <4>1 DEF Reuses
    <3>5. inputs[1].index = j - 1 /\ inputs[2].index = k - 1
      BY <3>1, <3>2, NoteFields
    <3>4. null(1)[3] = j - 1 /\ null(2)[3] = k - 1
      BY <3>1, <3>2, NullifierParts
    <3> QED BY <3>3, <3>4, <3>5
  <2> QED BY <1>1, <2>1, <2>2, <2>3
<1>10. ASSUME NEW i \in 1..2, ins[i].amount # 0
       PROVE  MerkleRoot(SlotCommitment(u, ins[i]), ins[i].index, ins[i].path) = SeenLeaves(seen)
  <2>1. CASE i <= n
    <3>0. i \in 1..n
      BY <1>1, <2>1
    <3>1. PICK j \in Held(u) : /\ IsNoteSlot(ins[i], j, seen) /\ SlotCommitment(u, ins[i]) = leaves[j]
                               /\ j \in 1..seen.size
      BY <1>5, <3>0
    <3>2. ins[i].index = j - 1 /\ ins[i].path = SeenLeaves(seen)
      BY <3>1 DEF IsNoteSlot
    <3>3. seen.size \in 0..Len(leaves)
      BY ViewType DEF IsRequest
    <3> QED BY <3>1, <3>2, <3>3, OwnPath
  <2>2. CASE i > n
    <3>1. PICK b \in fresh..(fresh + 3) : ins[i] = DummyInput(b)
      BY <1>6, <2>2
    <3>2. ins[i].amount = 0
      BY <3>1 DEF DummyInput
    <3> QED BY <1>10, <3>2
  <2> QED BY <1>1, <2>1, <2>2
<1>11. \A i \in 1..2 : CircuitInputHolds(a.public, a.private, i)
                        /\ CircuitOutputHolds(a.public, a.private, i)
  BY <1>10, SlotHolds
<1>12. /\ (ins[1].amount + ins[2].amount + FieldFromExt(ext)) % P
             = (outs[1].amount + outs[2].amount) % P
       /\ Some(FieldFromExt(ext)) = CalculatePublicAmount(ext)
  <2>1. /\ ins[1].amount \in Nat /\ ins[2].amount \in Nat
        /\ outs[1].amount \in Nat /\ outs[2].amount \in Nat /\ ext \in Int
        /\ ins[1].amount + ins[2].amount + ext = outs[1].amount + outs[2].amount
        /\ -ExtMax - 1 < ext /\ ext <= ExtMax
    BY SlotsBalance, FlowsAssumption DEF ins, outs
  <2> DEFINE x == ins[1].amount + ins[2].amount
             y == outs[1].amount + outs[2].amount
  <2>2. x \in Nat /\ y \in Nat /\ ext \in Int /\ x + ext = y
    BY <2>1
  <2> HIDE DEF x, y
  <2>3. (x + FieldFromExt(ext)) % P = y % P
    BY <2>2, FieldBalances
  <2>4. Some(FieldFromExt(ext)) = CalculatePublicAmount(ext)
    BY <2>1, FieldOfExt
  <2> QED BY <2>3, <2>4 DEF x, y
<1>13. /\ \A i \in 1..2 : /\ a.public.inputNullifier[i] = null(i)
                           /\ a.private.inAmount[i] = ins[i].amount
                           /\ a.private.outAmount[i] = outs[i].amount
       /\ a.public.publicAmount = FieldFromExt(ext)
       /\ a.extData.ext_amount = ext
       /\ a.public.root = SeenLeaves(seen)
       /\ a.public.aspMembershipRoot = seen.membership
       /\ a.public.aspNonMembershipRoot = seen.nonMembership
       /\ a.public.extDataHash = HashExtData(a.extData)
  <2>1. a = Artifacts(u, ins, outs, ext, recipient, seen)
    OBVIOUS
  <2> HIDE DEF a
  <2>2. HashExtDataOffchain(a.extData) = HashExtData(a.extData)
    BY DEF HashExtData, HashExtDataOffchain
  <2> QED BY <2>1, <2>2, ArtifactFields DEF null
<1> HIDE DEF a
<1>14. Circuit(a.public, a.private)
  <2>1. a.public.inputNullifier[1] # a.public.inputNullifier[2]
    BY <1>9, <1>13
  <2>2. (a.private.inAmount[1] + a.private.inAmount[2] + a.public.publicAmount) % P
          = (a.private.outAmount[1] + a.private.outAmount[2]) % P
    BY <1>12, <1>13
  <2> QED BY <1>11, <2>1, <2>2 DEF Circuit, N_INPUTS, N_OUTPUTS
<1>15. /\ KnownRoot(SeenLeaves(seen))
       /\ seen.membership = "current" /\ seen.nonMembership = "current"
  BY RootKept DEF IsRequest, Outdated
<1>16. ext <= MaximumDeposit
  BY FlowsAssumption DEF IsRequest
<1>17. PoolAccepts(a)
  BY <1>8, <1>12, <1>13, <1>14, <1>15, <1>16 DEF PoolAccepts, N_INPUTS
<1> QED BY <1>17 DEF a, ins, outs

\* What the pool accepts was built from a known tree and the roots of now, from
\* different unspent notes and within the cap.
LEMMA AcceptedHasNoCause ==
  ASSUME NEW u, NEW inputs, NEW outputs, NEW ext, NEW next, NEW seen, NEW shape, NEW recipient,
         ChainInv, SpentInv, IsRequest(u, inputs, outputs, ext, next, seen),
         TransactAccepts(NotesOf(inputs, seen), outputs, ext, shape),
         PoolAccepts(Artifacts(u, InsOf(inputs, next, seen), OutsOf(inputs, outputs, next),
                               ext, recipient, seen))
  PROVE  ~Reuses(inputs) /\ ~Outdated(seen) /\ ~(ext > MaximumDeposit)
<1> DEFINE ins == InsOf(inputs, next, seen)
           outs == OutsOf(inputs, outputs, next)
           n == Len(inputs)
           a == Artifacts(u, ins, outs, ext, recipient, seen)
           null(i) == SlotNullifier(u, ins[i])
<1>0. Len(inputs) <= 2 /\ Len(outputs) <= 2 /\ u \in Users
  BY AcceptedRequest DEF IsRequest
<1>1. n \in 0..2 /\ DOMAIN inputs = 1..n
  BY <1>0, InputSlots, RequestLists DEF IsNotes
<1>2. /\ \A i \in 1..2 : a.public.inputNullifier[i] = null(i)
      /\ a.public.root = SeenLeaves(seen) /\ a.extData.ext_amount = ext
      /\ a.public.aspMembershipRoot = seen.membership
      /\ a.public.aspNonMembershipRoot = seen.nonMembership
  <2>1. a = Artifacts(u, ins, outs, ext, recipient, seen)
    OBVIOUS
  <2> HIDE DEF a, ins, outs
  <2> QED BY <2>1, ArtifactFields
<1>3. PoolAccepts(a)
  OBVIOUS
<1>4. ASSUME NEW i \in 1..n
      PROVE  \E j \in 1..seen.size : inputs[i] = NoteAt(j) /\ null(i) = NullifierAt(j)
  <2>1. PICK j \in Held(u) : j \in 1..seen.size /\ inputs[i] = NoteAt(j) /\ IsNoteSlot(ins[i], j, seen)
    BY <1>0, InputSlots
  <2> HIDE DEF ins
  <2> QED BY <1>0, <2>1, NoteSlotNullifier
<1> HIDE DEF a, null
<1>5. /\ \A i \in 1..2 : null(i) \notin spent
      /\ null(1) # null(2)
      /\ KnownRoot(SeenLeaves(seen))
      /\ seen.membership = "current" /\ seen.nonMembership = "current"
      /\ ext > 0 => ext <= MaximumDeposit
  BY <1>2, <1>3 DEF PoolAccepts, Circuit, N_INPUTS
<1>6. ~(ext > MaximumDeposit)
  <2>1. MaximumDeposit \in Nat /\ ext \in Int
    BY FlowsAssumption DEF IsRequest
  <2> QED BY <1>5, <2>1
<1>7. ~Outdated(seen)
  <2>1. seen \in Views /\ RootsKept \in Nat /\ Len(leaves) \in Nat
    BY FlowsAssumption, FreshType DEF IsRequest
  <2>2. seen.size \in 0..Len(leaves) /\ Len(leaves) - seen.size < 2 * RootsKept
    BY <1>5, <2>1, RootKept, ViewType
  <2> QED BY <1>5, <2>1, <2>2 DEF Outdated, N_OUTPUTS
<1>8. ASSUME NEW i \in DOMAIN inputs PROVE inputs[i].nullifier \notin spent
  <2>1. PICK j \in 1..seen.size : inputs[i] = NoteAt(j) /\ null(i) = NullifierAt(j)
    BY <1>1, <1>4
  <2>2. i \in 1..2
    BY <1>1
  <2> QED BY <1>5, <2>1, <2>2, NoteFields
<1>9. ASSUME NEW i \in DOMAIN inputs, NEW m \in DOMAIN inputs, i # m,
             inputs[i].index = inputs[m].index
      PROVE  FALSE
  <2>1. PICK j \in 1..seen.size : inputs[i] = NoteAt(j) /\ null(i) = NullifierAt(j)
    BY <1>1, <1>4
  <2>2. PICK k \in 1..seen.size : inputs[m] = NoteAt(k) /\ null(m) = NullifierAt(k)
    BY <1>1, <1>4
  <2>3. j - 1 = k - 1
    BY <1>9, <2>1, <2>2, NoteFields
  <2>4. j = k
    BY <2>3
  <2>5. i \in {1, 2} /\ m \in {1, 2}
    BY <1>1
  <2> QED BY <1>5, <1>9, <2>1, <2>2, <2>4, <2>5
<1> QED BY <1>6, <1>7, <1>8, <1>9 DEF Reuses
-----------------------------------------------------------------------------
(* An accepted transaction.                                                *)

\* The state after a transaction the pool accepted.
Applied(u, inputs, outputs, ext, recipient, next, seen) ==
  LET outs == OutsOf(inputs, outputs, next)
      a == Artifacts(u, InsOf(inputs, next, seen), outs, ext, recipient, seen)
  IN  /\ leaves' = leaves \o a.public.outputCommitment
      /\ boxes' = boxes \o <<a.extData.encrypted_output0, a.extData.encrypted_output1>>
      /\ minted' = minted \o [i \in 1..N_OUTPUTS |->
                     [to |-> Addressee(u, outs[i]), amount |-> outs[i].amount]]
      /\ spent' = spent \union Range(a.public.inputNullifier)
      /\ balance' = balance + ext

\* A list with two more elements.
LEMMA TwoMore ==
  ASSUME NEW S, NEW s \in Seq(S), NEW a \in S, NEW b \in S
  PROVE  /\ s \o <<a, b>> \in Seq(S) /\ Len(s \o <<a, b>>) = Len(s) + 2
         /\ \A i \in 1..Len(s) : (s \o <<a, b>>)[i] = s[i]
         /\ (s \o <<a, b>>)[Len(s) + 1] = a /\ (s \o <<a, b>>)[Len(s) + 2] = b
<1>1. <<a, b>> \in Seq(S) /\ Len(<<a, b>>) = 2 /\ Len(s) \in Nat
  OBVIOUS
<1> QED BY <1>1

\* The two new rows are sealed, the old ones stay as they are.
LEMMA AppendKeeps ==
  ASSUME NEW u, NEW inputs, NEW outputs, NEW ext, NEW next, NEW seen, NEW shape, NEW recipient,
         ChainInv, IsRequest(u, inputs, outputs, ext, next, seen),
         TransactAccepts(NotesOf(inputs, seen), outputs, ext, shape),
         Applied(u, inputs, outputs, ext, recipient, next, seen)
  PROVE  /\ ChainInv' /\ Len(leaves') = Len(leaves) + 2 /\ Len(leaves) \in Nat
         /\ fresh' = fresh + 4
         /\ \A i \in 1..Len(leaves) : leaves'[i] = leaves[i] /\ minted'[i] = minted[i]
         /\ minted'[Len(leaves) + 1].amount = OutsOf(inputs, outputs, next)[1].amount
         /\ minted'[Len(leaves) + 2].amount = OutsOf(inputs, outputs, next)[2].amount
<1> DEFINE outs == OutsOf(inputs, outputs, next)
           N == Len(leaves)
           to(i) == Addressee(u, outs[i])
           c(i) == OutputCommitment(u, outs[i])
           x(i) == OutputBox(u, outs[i])
           m(i) == [to |-> to(i), amount |-> outs[i].amount]
<1>0. Len(inputs) <= 2 /\ Len(outputs) <= 2 /\ KeysPaired(outputs) /\ u \in Users
  BY AcceptedRequest DEF IsRequest
<1>1. ASSUME NEW i \in 1..2
      PROVE  /\ outs[i].amount \in Nat /\ outs[i].blinding \in Nat /\ outs[i].blinding < fresh + 4
             /\ to(i) \in Users
             /\ c(i) = ComputeCommitment(outs[i].amount, KeysOf(to(i)).notePublic, outs[i].blinding)
             /\ x(i) = EncryptOutputNote(KeysOf(to(i)).encPublic, outs[i].amount, outs[i].blinding)
  <2>1. /\ outs[i].amount \in Nat /\ outs[i].blinding \in 0..(fresh + 3)
        /\ outs[i].keys \in Recipients(u)
    BY <1>0, OutputSlots
  <2> HIDE DEF outs
  <2>2. /\ to(i) \in Users /\ RecipientNotePublic(outs[i], u) = KeysOf(to(i)).notePublic
        /\ RecipientEncPublic(outs[i], u) = KeysOf(to(i)).encPublic
    BY <1>0, <2>1, Addressed
  <2>3. fresh \in Nat
    BY FreshType
  <2> QED BY <2>1, <2>2, <2>3 DEF OutputCommitment, OutputBox
<1>2. /\ leaves' = leaves \o <<c(1), c(2)>>
      /\ boxes' = boxes \o <<x(1), x(2)>>
      /\ minted' = minted \o <<m(1), m(2)>>
  <2> DEFINE a == Artifacts(u, InsOf(inputs, next, seen), outs, ext, recipient, seen)
  <2>1. /\ a.public.outputCommitment = <<c(1), c(2)>>
        /\ a.extData.encrypted_output0 = x(1) /\ a.extData.encrypted_output1 = x(2)
    <3>1. a = Artifacts(u, InsOf(inputs, next, seen), outs, ext, recipient, seen)
      OBVIOUS
    <3> HIDE DEF a, outs
    <3> QED BY <3>1, ArtifactFields
  <2>2. /\ leaves' = leaves \o a.public.outputCommitment
        /\ boxes' = boxes \o <<a.extData.encrypted_output0, a.extData.encrypted_output1>>
        /\ minted' = minted \o [i \in 1..2 |-> m(i)]
    BY DEF Applied, N_OUTPUTS
  <2> HIDE DEF a, outs
  <2>3. [i \in 1..2 |-> m(i)] = <<m(1), m(2)>>
    OBVIOUS
  <2> QED BY <2>1, <2>2, <2>3
<1> HIDE DEF outs, to, c, x
<1>3. /\ \A i \in 1..2 : c(i) \in ChainCommitment /\ x(i) \in Box /\ m(i) \in Mint
  BY <1>1 DEF ChainCommitment, Box, Mint
<1>4. /\ N \in Nat /\ Len(boxes) = N /\ Len(minted) = N
      /\ leaves \in Seq(ChainCommitment) /\ boxes \in Seq(Box) /\ minted \in Seq(Mint)
  BY DEF ChainInv
<1> HIDE DEF m
<1>5. /\ leaves' \in Seq(ChainCommitment) /\ Len(leaves') = N + 2
      /\ \A i \in 1..N : leaves'[i] = leaves[i]
      /\ leaves'[N + 1] = c(1) /\ leaves'[N + 2] = c(2)
  BY <1>2, <1>3, <1>4, TwoMore
<1>6. /\ boxes' \in Seq(Box) /\ Len(boxes') = N + 2
      /\ \A i \in 1..N : boxes'[i] = boxes[i]
      /\ boxes'[N + 1] = x(1) /\ boxes'[N + 2] = x(2)
  BY <1>2, <1>3, <1>4, TwoMore
<1>7. /\ minted' \in Seq(Mint) /\ Len(minted') = N + 2
      /\ \A i \in 1..N : minted'[i] = minted[i]
      /\ minted'[N + 1] = m(1) /\ minted'[N + 2] = m(2)
  <2>1. m(1) \in Mint /\ m(2) \in Mint
    BY <1>3
  <2>2. /\ minted \o <<m(1), m(2)>> \in Seq(Mint) /\ Len(minted \o <<m(1), m(2)>>) = Len(minted) + 2
        /\ \A i \in 1..Len(minted) : (minted \o <<m(1), m(2)>>)[i] = minted[i]
        /\ (minted \o <<m(1), m(2)>>)[Len(minted) + 1] = m(1)
        /\ (minted \o <<m(1), m(2)>>)[Len(minted) + 2] = m(2)
    BY <1>4, <2>1, TwoMore
  <2>3. minted' = minted \o <<m(1), m(2)>> /\ Len(minted) = N
    BY <1>2, <1>4
  <2> QED BY <2>2, <2>3
<1>8. fresh \in Nat /\ fresh' = fresh + 4
  BY <1>4, <1>5 DEF fresh
<1>9. ASSUME NEW i \in 1..Len(leaves') PROVE SealedAt(i)'
  <2>1. CASE i \in 1..N
    <3>1. SealedAt(i)
      BY <2>1 DEF ChainInv
    <3>2. leaves'[i] = leaves[i] /\ boxes'[i] = boxes[i] /\ minted'[i] = minted[i]
      BY <1>5, <1>6, <1>7, <2>1
    <3> HIDE DEF N
    <3>3. leaves[i][4] \in Nat /\ leaves[i][4] < fresh'
      BY <1>8, <3>1 DEF SealedAt, BlindingAt
    <3> QED BY <3>1, <3>2, <3>3 DEF SealedAt, BlindingAt, KeysOf
  <2>2. ASSUME NEW k \in 1..2, i = N + k PROVE SealedAt(i)'
    <3>1. leaves'[i] = c(k) /\ boxes'[i] = x(k) /\ minted'[i] = m(k)
      BY <1>5, <1>6, <1>7, <2>2
    <3>2. m(k).to = to(k) /\ m(k).amount = outs[k].amount
      BY DEF m
    <3>3. c(k)[4] = outs[k].blinding
      BY <1>1, CommitmentInjective
    <3> HIDE DEF N
    <3> QED BY <1>1, <1>8, <3>1, <3>2, <3>3 DEF SealedAt, BlindingAt, KeysOf
  <2>3. i \in 1..N \/ i = N + 1 \/ i = N + 2
    BY <1>4, <1>5
  <2> QED BY <2>1, <2>2, <2>3
<1>10. ChainInv'
  <2>1. ChainCommitment' = ChainCommitment /\ Box' = Box /\ Mint' = Mint
    BY DEF ChainCommitment, Box, Mint, KeysOf
  <2> QED BY <1>5, <1>6, <1>7, <1>9, <2>1 DEF ChainInv
<1>11. m(1).amount = outs[1].amount /\ m(2).amount = outs[2].amount
  BY DEF m
<1> QED BY <1>4, <1>5, <1>7, <1>8, <1>10, <1>11 DEF outs

\* The nullifiers of the inputs are of positions of the tree or of dummies.
LEMMA InputNullifiers ==
  ASSUME NEW u, NEW inputs, NEW outputs, NEW ext, NEW next, NEW seen, NEW shape,
         ChainInv, IsRequest(u, inputs, outputs, ext, next, seen),
         TransactAccepts(NotesOf(inputs, seen), outputs, ext, shape)
  PROVE  /\ Len(inputs) \in 0..2
         /\ \A i \in 1..2 : LET s == InsOf(inputs, next, seen)[i] IN
              /\ i <= Len(inputs) => \E j \in Held(u) :
                    /\ SlotNullifier(u, s) = NullifierAt(j) /\ s.amount = minted[j].amount
              /\ i > Len(inputs) => \E b \in fresh..(fresh + 3) :
                    SlotNullifier(u, s)[2][2] = 0 /\ SlotNullifier(u, s)[2][4] = b
<1> DEFINE ins == InsOf(inputs, next, seen)
<1>0. Len(inputs) <= 2 /\ Len(outputs) <= 2 /\ u \in Users
  BY AcceptedRequest DEF IsRequest
<1>1. /\ Len(inputs) \in 0..2
      /\ \A i \in 1..Len(inputs) : \E j \in Held(u) : IsNoteSlot(ins[i], j, seen)
      /\ \A i \in 1..2 : i > Len(inputs) => IsDummySlot(ins[i])
  BY <1>0, InputSlots
<1> HIDE DEF ins
<1>2. ASSUME NEW i \in 1..2, i <= Len(inputs)
      PROVE  \E j \in Held(u) : SlotNullifier(u, ins[i]) = NullifierAt(j) /\ ins[i].amount = minted[j].amount
  <2>1. PICK j \in Held(u) : IsNoteSlot(ins[i], j, seen)
    BY <1>1, <1>2
  <2>2. ins[i].amount = minted[j].amount
    BY <2>1 DEF IsNoteSlot
  <2> QED BY <1>0, <2>1, <2>2, NoteSlotNullifier
<1>3. ASSUME NEW i \in 1..2, i > Len(inputs)
      PROVE  \E b \in fresh..(fresh + 3) :
               SlotNullifier(u, ins[i])[2][2] = 0 /\ SlotNullifier(u, ins[i])[2][4] = b
  <2>1. PICK b \in fresh..(fresh + 3) : ins[i] = DummyInput(b)
    BY <1>1, <1>3 DEF IsDummySlot
  <2> QED BY <2>1, DummySlotNullifier
<1> QED BY <1>1, <1>2, <1>3 DEF ins

\* The nullifiers of an accepted transaction keep SpentInv.
LEMMA SpentKeeps ==
  ASSUME NEW u, NEW inputs, NEW outputs, NEW ext, NEW next, NEW seen, NEW shape, NEW recipient,
         ChainInv, SpentInv, IsRequest(u, inputs, outputs, ext, next, seen),
         TransactAccepts(NotesOf(inputs, seen), outputs, ext, shape),
         Applied(u, inputs, outputs, ext, recipient, next, seen)
  PROVE  /\ spent' = spent \cup {SlotNullifier(u, InsOf(inputs, next, seen)[1]),
                                 SlotNullifier(u, InsOf(inputs, next, seen)[2])}
         /\ SpentInv'
<1> DEFINE ins == InsOf(inputs, next, seen)
           a == Artifacts(u, ins, OutsOf(inputs, outputs, next), ext, recipient, seen)
           null(i) == SlotNullifier(u, ins[i])
<1>1. spent' = spent \cup {null(1), null(2)}
  <2>1. a = Artifacts(u, ins, OutsOf(inputs, outputs, next), ext, recipient, seen)
    OBVIOUS
  <2>2. spent' = spent \cup Range(a.public.inputNullifier)
    BY DEF Applied
  <2> HIDE DEF a, ins
  <2>3. a.public.inputNullifier = <<null(1), null(2)>>
    BY <2>1, ArtifactFields
  <2>4. Range(<<null(1), null(2)>>) = {null(1), null(2)}
    BY DEF Range
  <2> QED BY <2>2, <2>3, <2>4
<1>2. Len(leaves') = Len(leaves) + 2 /\ fresh' = fresh + 4 /\ Len(leaves) \in Nat /\ fresh \in Nat
  BY AppendKeeps, FreshType
<1>3. ASSUME NEW i \in 1..2
      PROVE  /\ null(i)[2][4] \in Nat /\ null(i)[2][4] < fresh'
             /\ null(i)[2][2] = 0 \/ (null(i)[3] \in Nat /\ null(i)[3] < Len(leaves'))
  <2>1. CASE i <= Len(inputs)
    <3>1. PICK j \in Held(u) : null(i) = NullifierAt(j)
      BY <2>1, InputNullifiers
    <3>2. j \in 1..Len(leaves)
      BY DEF Held
    <3>3. BlindingAt(j) \in Nat /\ BlindingAt(j) < fresh
      BY <3>2 DEF ChainInv, SealedAt
    <3>4. NullifierAt(j)[2][4] = BlindingAt(j) /\ NullifierAt(j)[3] = j - 1
      BY <3>2, NullifierParts
    <3> HIDE DEF null
    <3> QED BY <1>2, <3>1, <3>2, <3>3, <3>4
  <2>2. CASE i > Len(inputs)
    <3>1. PICK b \in fresh..(fresh + 3) : null(i)[2][2] = 0 /\ null(i)[2][4] = b
      BY <2>2, InputNullifiers
    <3> HIDE DEF null
    <3> QED BY <1>2, <3>1
  <2>3. Len(inputs) \in 0..2
    BY InputNullifiers
  <2> QED BY <2>1, <2>2, <2>3
<1> HIDE DEF null
<1>4. ASSUME NEW y \in spent
      PROVE  /\ y[2][4] \in Nat /\ y[2][4] < fresh'
             /\ y[2][2] = 0 \/ (y[3] \in Nat /\ y[3] < Len(leaves'))
  <2>1. /\ y[2][4] \in Nat /\ y[2][4] < fresh
        /\ y[2][2] = 0 \/ (y[3] \in Nat /\ y[3] < Len(leaves))
    BY DEF SpentInv
  <2> QED BY <1>2, <2>1
<1>5. SpentInv'
  BY <1>1, <1>3, <1>4 DEF SpentInv
<1> QED BY <1>1, <1>5 DEF null, ins
-----------------------------------------------------------------------------
(* Value.                                                                  *)

\* What the note at a position is worth now, and all of them.
WorthOf == [i \in 1..Len(leaves) |-> IF NullifierAt(i) \in spent THEN 0 ELSE minted[i].amount]
Worth == SumOver(WorthOf, 1..Len(leaves))

\* What a position is worth is a natural number, and so is the sum of some.
LEMMA WorthType ==
  ASSUME ChainInv
  PROVE  /\ \A i \in 1..Len(leaves) : minted[i].amount \in Nat /\ minted[i].to \in Users
                                       /\ WorthOf[i] \in Nat
         /\ \A S \in SUBSET (1..Len(leaves)) : IsFiniteSet(S) /\ SumOver(WorthOf, S) \in Nat
<1>1. ASSUME NEW i \in 1..Len(leaves)
      PROVE  minted[i].amount \in Nat /\ minted[i].to \in Users /\ WorthOf[i] \in Nat
  <2>1. minted[i] \in Mint
    BY DEF ChainInv
  <2>2. minted[i].amount \in Nat /\ minted[i].to \in Users
    BY <2>1 DEF Mint
  <2> QED BY <2>2 DEF WorthOf
<1>2. ASSUME NEW S \in SUBSET (1..Len(leaves))
      PROVE  IsFiniteSet(S) /\ SumOver(WorthOf, S) \in Nat
  <2>1. IsFiniteSet(S)
    <3>1. Len(leaves) \in Nat
      BY FreshType
    <3>2. IsFiniteSet(1..Len(leaves))
      BY <3>1, FS_Interval
    <3> QED BY <3>2, FS_Subset
  <2>2. \A i \in S : WorthOf[i] \in Nat
    BY <1>1
  <2> QED BY <2>1, <2>2, SumOverNat
<1> QED BY <1>1, <1>2

\* The positions with a nullifier.
NamedBy(x) == {k \in 1..Len(leaves) : NullifierAt(k) = x}

\* The notes whose nullifier is that of an input are worth what the input is.
LEMMA InputWorth ==
  ASSUME NEW u, NEW inputs, NEW outputs, NEW ext, NEW next, NEW seen, NEW shape,
         ChainInv, IsRequest(u, inputs, outputs, ext, next, seen),
         TransactAccepts(NotesOf(inputs, seen), outputs, ext, shape),
         NEW i \in 1..2, SlotNullifier(u, InsOf(inputs, next, seen)[i]) \notin spent
  PROVE  LET s == InsOf(inputs, next, seen)[i]
         IN  SumOver(WorthOf, NamedBy(SlotNullifier(u, s))) = s.amount
<1> DEFINE s == InsOf(inputs, next, seen)[i]
           x == SlotNullifier(u, s)
           J == NamedBy(x)
           N == Len(leaves)
<1>0. N \in Nat /\ Len(inputs) \in 0..2 /\ SumOver(WorthOf, {}) = 0
  BY FreshType, InputNullifiers, SumOverUnfold, FS_EmptySet
<1>1. CASE i <= Len(inputs)
  <2>1. PICK j \in Held(u) : x = NullifierAt(j) /\ s.amount = minted[j].amount
    BY <1>1, InputNullifiers
  <2>2. j \in 1..N
    BY DEF Held
  <2>3. \A k \in 1..N : NullifierAt(k)[3] = k - 1
    BY NullifierParts
  <2> HIDE DEF s, x, N
  <2>4. \A k \in 1..N : NullifierAt(k) = x => k = j
    <3>1. \A k \in 1..N : k - 1 = j - 1 => k = j
      BY <1>0, <2>2
    <3> QED BY <2>1, <2>2, <2>3, <3>1
  <2>5. J = {j}
    BY <2>1, <2>2, <2>4 DEF N, NamedBy
  <2>6. WorthOf[j] = s.amount /\ s.amount \in Nat
    <3>1. WorthOf[j] = IF NullifierAt(j) \in spent THEN 0 ELSE minted[j].amount
      BY <2>2 DEF WorthOf, N
    <3>2. minted[j].amount \in Nat
      BY <2>2, WorthType DEF N
    <3> QED BY <2>1, <3>1, <3>2 DEF x, s
  <2>7. SumOver(WorthOf, {j}) = WorthOf[j] + SumOver(WorthOf, {})
    <3> DEFINE S == {j}
    <3>1. IsFiniteSet(S) /\ j \in S /\ \A y \in S : WorthOf[y] \in Int
      BY <2>6, FS_Singleton
    <3>2. S \ {j} = {}
      OBVIOUS
    <3> HIDE DEF S
    <3>3. SumOver(WorthOf, S) = WorthOf[j] + SumOver(WorthOf, S \ {j})
      BY <3>1, SumOverRemove
    <3> QED BY <3>2, <3>3 DEF S
  <2> HIDE DEF J
  <2>9. SumOver(WorthOf, {j}) = s.amount
    BY <1>0, <2>6, <2>7
  <2> QED BY <2>5, <2>9 DEF s, x, J
<1>2. CASE i > Len(inputs)
  <2>1. x[2][2] = 0
    BY <1>2, InputNullifiers
  <2>2. s.amount = 0
    BY <1>2, SlotsBalance
  <2>3. \A k \in 1..N : NullifierAt(k)[2][2] = minted[k].amount
    BY NullifierParts
  <2> HIDE DEF s, x, N
  <2>4. ASSUME NEW k \in J PROVE WorthOf[k] = 0
    <3>1. k \in 1..N /\ minted[k].amount = 0
      BY <2>1, <2>3 DEF N, NamedBy
    <3> QED BY <3>1 DEF WorthOf, N
  <2>5. J \in SUBSET (1..N)
    BY DEF N, NamedBy
  <2>6. IsFiniteSet(J)
    BY <2>5, WorthType DEF N
  <2> HIDE DEF J
  <2>7. {} \in SUBSET J /\ J \ {} = J /\ \A k \in J : WorthOf[k] \in Int
    BY <2>4
  <2>8. SumOver(WorthOf, J) = SumOver(WorthOf, {})
    BY <2>4, <2>6, <2>7, SumOverSupport
  <2>9. SumOver(WorthOf, J) = s.amount
    BY <1>0, <2>2, <2>8
  <2> QED BY <2>9 DEF s, x, J
<1> QED BY <1>0, <1>1, <1>2

\* An accepted transaction keeps the balance at what the notes are worth.
LEMMA ValueKeeps ==
  ASSUME NEW u, NEW inputs, NEW outputs, NEW ext, NEW next, NEW seen, NEW shape, NEW recipient,
         ChainInv, SpentInv, balance = Worth, IsRequest(u, inputs, outputs, ext, next, seen),
         TransactAccepts(NotesOf(inputs, seen), outputs, ext, shape),
         PoolAccepts(Artifacts(u, InsOf(inputs, next, seen), OutsOf(inputs, outputs, next),
                               ext, recipient, seen)),
         Applied(u, inputs, outputs, ext, recipient, next, seen)
  PROVE  balance' = Worth'
<1> DEFINE ins == InsOf(inputs, next, seen)
           outs == OutsOf(inputs, outputs, next)
           a == Artifacts(u, ins, outs, ext, recipient, seen)
           null(i) == SlotNullifier(u, ins[i])
           N == Len(leaves)
           A == NamedBy(null(1))
           B == NamedBy(null(2))
           w == WorthOf
           v == WorthOf'
<1>1. null(1) \notin spent /\ null(2) \notin spent /\ null(1) # null(2)
  <2>1. /\ \A i \in 1..2 : a.public.inputNullifier[i] \notin spent
        /\ a.public.inputNullifier[1] # a.public.inputNullifier[2]
    BY DEF PoolAccepts, Circuit, N_INPUTS
  <2>2. a = Artifacts(u, ins, outs, ext, recipient, seen)
    OBVIOUS
  <2> HIDE DEF a, ins, outs
  <2>3. \A i \in 1..2 : a.public.inputNullifier[i] = null(i)
    BY <2>2, ArtifactFields
  <2> QED BY <2>1, <2>3
<1>2. /\ ChainInv' /\ Len(leaves') = N + 2 /\ N \in Nat
      /\ \A i \in 1..N : leaves'[i] = leaves[i] /\ minted'[i] = minted[i]
      /\ minted'[N + 1].amount = outs[1].amount
      /\ minted'[N + 2].amount = outs[2].amount
  BY AppendKeeps
<1>3. spent' = spent \cup {null(1), null(2)}
  BY SpentKeeps
<1>4. /\ SumOver(w, A) = ins[1].amount
      /\ SumOver(w, B) = ins[2].amount
  BY <1>1, InputWorth
<1>5. /\ \A i \in 1..2 : ins[i].amount \in Nat /\ outs[i].amount \in Nat
      /\ ins[1].amount + ins[2].amount + ext = outs[1].amount + outs[2].amount
      /\ ext \in Int
  BY SlotsBalance
<1>6. ASSUME NEW y \in spent' PROVE y[2][2] = 0 \/ (y[3] \in Nat /\ y[3] < N)
  <2>1. ASSUME NEW i \in 1..2 PROVE null(i)[2][2] = 0 \/ (null(i)[3] \in Nat /\ null(i)[3] < N)
    <3>1. CASE i <= Len(inputs)
      <4>1. PICK j \in Held(u) : null(i) = NullifierAt(j)
        BY <3>1, InputNullifiers
      <4>2. j \in 1..N
        BY DEF Held
      <4>3. NullifierAt(j)[3] = j - 1
        BY <4>2, NullifierParts
      <4> HIDE DEF null
      <4> QED BY <1>2, <4>1, <4>2, <4>3
    <3>2. CASE i > Len(inputs)
      BY <3>2, InputNullifiers
    <3>3. Len(inputs) \in 0..2
      BY InputNullifiers
    <3> QED BY <3>1, <3>2, <3>3
  <2> HIDE DEF null
  <2>2. CASE y \in spent
    BY <2>2 DEF SpentInv
  <2>3. CASE y = null(1) \/ y = null(2)
    BY <2>1, <2>3
  <2> QED BY <1>3, <1>6, <2>2, <2>3
<1> HIDE DEF ins, outs, null
<1>7. ASSUME NEW k \in 1..N
      PROVE  v[k] = IF k \in A \cup B THEN 0 ELSE w[k]
  <2>1. k \in 1..Len(leaves')
    BY <1>2
  <2>2. v[k] = IF NullifierAt(k)' \in spent' THEN 0 ELSE minted'[k].amount
    BY <2>1 DEF WorthOf
  <2>3. NullifierAt(k)' = NullifierAt(k)
    BY <1>2 DEF NullifierAt, KeysOf
  <2>4. w[k] = IF NullifierAt(k) \in spent THEN 0 ELSE minted[k].amount
    BY DEF WorthOf
  <2>5. NullifierAt(k) \in spent' <=> (NullifierAt(k) \in spent \/ k \in A \cup B)
    BY <1>3 DEF NamedBy
  <2>6. minted'[k].amount = minted[k].amount
    BY <1>2
  <2> HIDE DEF w, v, N, A, B
  <2> QED BY <2>2, <2>3, <2>4, <2>5, <2>6
<1>8. ASSUME NEW k \in {N + 1, N + 2} PROVE v[k] = minted'[k].amount
  <2>1. k \in 1..Len(leaves') /\ k - 1 >= N
    BY <1>2
  <2>2. v[k] = IF NullifierAt(k)' \in spent' THEN 0 ELSE minted'[k].amount
    BY <2>1 DEF WorthOf
  <2>3. SealedAt(k)'
    BY <1>2, <2>1 DEF ChainInv
  <2>4. leaves'[k][2] = minted'[k].amount
    BY <2>3, CommitmentInjective DEF SealedAt
  <2>5. NullifierAt(k)'[2] = leaves'[k] /\ NullifierAt(k)'[3] = k - 1
    BY NullifierInjective DEF NullifierAt
  <2>6. NullifierAt(k)' \in spent' => minted'[k].amount = 0
    <3> HIDE DEF N
    <3> QED BY <1>2, <1>6, <2>1, <2>4, <2>5
  <2> QED BY <2>2, <2>6
<1>9. \A k \in 1..N : w[k] \in Nat
  BY WorthType
<1>10. /\ A \in SUBSET (1..N) /\ B \in SUBSET (1..N) /\ A \cap B = {}
       /\ IsFiniteSet(1..N)
  <2>1. IsFiniteSet(1..N)
    BY <1>2, FS_Interval
  <2> QED BY <1>1, <2>1 DEF NamedBy
<1> HIDE DEF A, B, w, v, N
<1> DEFINE K == A \cup B
<1>11. SumOver(w, K) = ins[1].amount + ins[2].amount
  <2>0. K \ A = B
    BY <1>10
  <2>1. A \in SUBSET K /\ K \subseteq 1..N
    BY <1>10
  <2>2. IsFiniteSet(K)
    BY <1>10, <2>1, FS_Subset
  <2>3. \A k \in K : w[k] \in Int
    BY <1>9, <2>1
  <2> HIDE DEF K
  <2>4. SumOver(w, K) = SumOver(w, A) + SumOver(w, K \ A)
    <3>1. A \in SUBSET K
      BY <2>1
    <3> QED BY <2>2, <2>3, <3>1, SumOverSplit
  <2> QED BY <1>4, <2>0, <2>4
<1>12. SumOver(v, 1..N) = SumOver(w, 1..N) - (ins[1].amount + ins[2].amount) /\ SumOver(w, 1..N) \in Nat
  <2>1. K \in SUBSET (1..N)
    BY <1>10
  <2>2. \A k \in 1..N : v[k] \in Int /\ w[k] \in Int /\ v[k] = IF k \in K THEN 0 ELSE w[k]
    BY <1>7, <1>9
  <2> HIDE DEF K
  <2> DEFINE R == (1..N) \ K
  <2>3. SumOver(w, 1..N) = SumOver(w, K) + SumOver(w, R)
    <3> DEFINE S == 1..N
    <3>1. IsFiniteSet(S) /\ K \in SUBSET S /\ \A k \in S : w[k] \in Int
      BY <1>10, <2>1, <2>2
    <3> HIDE DEF S
    <3>2. SumOver(w, S) = SumOver(w, K) + SumOver(w, S \ K)
      BY <3>1, SumOverSplit
    <3> QED BY <3>2 DEF S
  <2>4. IsFiniteSet(R) /\ R \in SUBSET (1..N) /\ (1..N) \ R \subseteq K
    BY <1>10, FS_Subset
  <2>5. SumOver(v, 1..N) = SumOver(v, R)
    <3>1. \A k \in (1..N) \ R : v[k] = 0
      BY <2>2, <2>4
    <3> HIDE DEF R
    <3> QED BY <1>10, <2>2, <2>4, <3>1, SumOverSupport
  <2>6. SumOver(v, R) = SumOver(w, R)
    <3>1. \A k \in R : v[k] = w[k]
      BY <2>2
    <3> HIDE DEF R
    <3> QED BY <2>4, <3>1, SumOverAgree
  <2>7. SumOver(w, R) \in Nat /\ SumOver(w, 1..N) \in Nat
    <3>1. \A k \in R : w[k] \in Nat
      BY <1>9
    <3> HIDE DEF R
    <3> QED BY <1>9, <1>10, <2>4, <3>1, SumOverNat
  <2> HIDE DEF R
  <2> QED BY <1>5, <1>11, <2>3, <2>5, <2>6, <2>7
<1>13. SumOver(v, 1..(N + 2)) = SumOver(v, 1..N) + outs[1].amount + outs[2].amount
  <2>1. \A k \in 1..(N + 2) : v[k] \in Int
    <3>1. \A k \in 1..N : v[k] \in Int
      BY <1>7, <1>9
    <3>2. v[N + 1] \in Int /\ v[N + 2] \in Int
      BY <1>2, <1>5, <1>8
    <3>3. \A k \in 1..(N + 2) : k \in 1..N \/ k = N + 1 \/ k = N + 2
      BY <1>2
    <3> QED BY <3>1, <3>2, <3>3
  <2>2. /\ (1..(N + 2)) \ {N + 2} = 1..(N + 1) /\ (1..(N + 1)) \ {N + 1} = 1..N
        /\ N + 2 \in 1..(N + 2) /\ N + 1 \in 1..(N + 1)
    BY <1>2
  <2>3. IsFiniteSet(1..(N + 2)) /\ IsFiniteSet(1..(N + 1))
    BY <1>2, FS_Interval
  <2>4. SumOver(v, 1..(N + 2)) = v[N + 2] + SumOver(v, (1..(N + 2)) \ {N + 2})
    BY <2>1, <2>2, <2>3, SumOverRemove
  <2>5. \A k \in 1..(N + 1) : v[k] \in Int
    BY <1>2, <2>1
  <2>6. SumOver(v, 1..(N + 1)) = v[N + 1] + SumOver(v, (1..(N + 1)) \ {N + 1})
    <3> DEFINE S == 1..(N + 1)
    <3>1. IsFiniteSet(S) /\ N + 1 \in S /\ \A k \in S : v[k] \in Int
      BY <2>2, <2>3, <2>5
    <3> HIDE DEF S
    <3>2. SumOver(v, S) = v[N + 1] + SumOver(v, S \ {N + 1})
      BY <3>1, SumOverRemove
    <3> QED BY <3>2 DEF S
  <2>7. v[N + 1] = outs[1].amount /\ v[N + 2] = outs[2].amount
    BY <1>2, <1>8
  <2>8. SumOver(v, 1..(N + 2)) = outs[2].amount + (outs[1].amount + SumOver(v, 1..N))
    BY <2>2, <2>4, <2>6, <2>7
  <2>9. SumOver(v, 1..N) \in Int
    BY <1>5, <1>12
  <2> QED BY <1>5, <2>8, <2>9
<1>14. Worth' = SumOver(v, 1..(N + 2)) /\ balance = SumOver(w, 1..N) /\ balance' = balance + ext
  BY <1>2 DEF Worth, Applied, v, w, N
<1> QED BY <1>5, <1>12, <1>13, <1>14
-----------------------------------------------------------------------------
(* What the wallets hold.                                                  *)

\* The two sums of ValueConserved and the recursion behind them.
HeldValue(u) == MapThenSumSet(LAMBDA n : n.amount, Unspent(u))

AddsAmounts(S, g) ==
  g = [s \in SUBSET S |-> IF s = {} THEN 0 ELSE Pick(s).amount + g[s \ {Pick(s)}]]
AddsHeld(g) ==
  g = [s \in SUBSET Users |-> IF s = {} THEN 0 ELSE HeldValue(Pick(s)) + g[s \ {Pick(s)}]]

\* The sum over an account's unspent notes is the recursion AddsAmounts.
LEMMA HeldValueUnfold ==
  ASSUME NEW u
  PROVE  HeldValue(u) = (CHOOSE g : AddsAmounts(Unspent(u), g))[Unspent(u)]
BY DEF HeldValue, MapThenSumSet, MapThenFoldSet, AddsAmounts, Pick

\* The sum over the accounts is the recursion AddsHeld.
LEMMA ConservedUnfold ==
  ValueConserved <=> balance = (CHOOSE g : AddsHeld(g))[Users]
<1>1. ValueConserved <=> balance = MapThenSumSet(HeldValue, Users)
  BY DEF ValueConserved, HeldValue
<1>2. MapThenSumSet(HeldValue, Users) = (CHOOSE g : AddsHeld(g))[Users]
  BY DEF MapThenSumSet, MapThenFoldSet, AddsHeld, Pick
<1> QED BY <1>1, <1>2

\* Both are sums of a function.
LEMMA AmountsAreSum ==
  ASSUME NEW S, IsFiniteSet(S)
  PROVE  (CHOOSE g : AddsAmounts(S, g))[S] = SumOver([n \in S |-> n.amount], S)
<1> DEFINE f == [n \in S |-> n.amount]
           g == CHOOSE h : AddsAmounts(S, h)
           k == CHOOSE h : Sums(f, S, h)
<1>1. ASSUME NEW h PROVE AddsAmounts(S, h) <=> Sums(f, S, h)
  <2>1. ASSUME NEW s \in SUBSET S
        PROVE  (IF s = {} THEN 0 ELSE Pick(s).amount + h[s \ {Pick(s)}]) = Adds(f, s, h)
    <3>1. CASE s = {}
      BY <3>1 DEF Adds
    <3>2. CASE s # {}
      <4>1. Pick(s) \in s
        BY <3>2 DEF Pick
      <4>2. f[Pick(s)] = Pick(s).amount
        BY <4>1
      <4> HIDE DEF f
      <4> QED BY <3>2, <4>2 DEF Adds
    <3> QED BY <3>1, <3>2
  <2> HIDE DEF f
  <2>2. [s \in SUBSET S |-> IF s = {} THEN 0 ELSE Pick(s).amount + h[s \ {Pick(s)}]]
          = [s \in SUBSET S |-> Adds(f, s, h)]
    BY <2>1
  <2> QED BY <2>2 DEF AddsAmounts, Sums
<1>2. \E h : Sums(f, S, h)
  BY SumsExist
<1> HIDE DEF f
<1>3. Sums(f, S, k) /\ Sums(f, S, g)
  BY <1>1, <1>2
<1> HIDE DEF g, k
<1>4. g[S] = k[S]
  BY <1>3, SumsAgree
<1> QED BY <1>4 DEF g, k, f, SumOver

\* The sum over the accounts is a sum of a function.
LEMMA HeldAreSum ==
  (CHOOSE g : AddsHeld(g))[Users] = SumOver([u \in Users |-> HeldValue(u)], Users)
<1> DEFINE S == Users
           f == [n \in S |-> HeldValue(n)]
           g == CHOOSE h : AddsHeld(h)
           k == CHOOSE h : Sums(f, S, h)
<1>0. IsFiniteSet(S)
  BY FlowsAssumption
<1>1. ASSUME NEW h PROVE AddsHeld(h) <=> Sums(f, S, h)
  <2>1. ASSUME NEW s \in SUBSET S
        PROVE  (IF s = {} THEN 0 ELSE HeldValue(Pick(s)) + h[s \ {Pick(s)}]) = Adds(f, s, h)
    <3>1. CASE s = {}
      BY <3>1 DEF Adds
    <3>2. CASE s # {}
      <4>1. Pick(s) \in s
        BY <3>2 DEF Pick
      <4>2. f[Pick(s)] = HeldValue(Pick(s))
        BY <4>1
      <4> HIDE DEF f
      <4> QED BY <3>2, <4>2 DEF Adds
    <3> QED BY <3>1, <3>2
  <2> HIDE DEF f
  <2>2. [s \in SUBSET S |-> IF s = {} THEN 0 ELSE HeldValue(Pick(s)) + h[s \ {Pick(s)}]]
          = [s \in SUBSET S |-> Adds(f, s, h)]
    BY <2>1
  <2> QED BY <2>2 DEF AddsHeld, Sums
<1> HIDE DEF f
<1>2. \E h : Sums(f, S, h)
  BY <1>0, SumsExist
<1>3. Sums(f, S, k) /\ Sums(f, S, g)
  BY <1>1, <1>2
<1> HIDE DEF g, k
<1>4. g[S] = k[S]
  BY <1>0, <1>3, SumsAgree
<1> QED BY <1>4 DEF g, k, f, SumOver

\* The positions of the notes of some accounts.
OwnedBy(T) == {i \in 1..Len(leaves) : minted[i].to \in T}

\* The unspent notes of an account are worth what the positions it owns are.
LEMMA HeldIsWorth ==
  ASSUME ChainInv, NEW u \in Users
  PROVE  HeldValue(u) = SumOver(WorthOf, OwnedBy({u}))
<1> DEFINE L == {i \in Held(u) : NullifierAt(i) \notin spent}
           O == OwnedBy({u})
           h == [i \in L |-> NoteAt(i)]
           U == Unspent(u)
           f == [n \in U |-> n.amount]
<1>1. U = {NoteAt(i) : i \in L}
  <2>1. \A i \in Held(u) : NoteAt(i).nullifier = NullifierAt(i)
    BY NoteFields
  <2> QED BY <2>1, DiscoveredNotes DEF Unspent
<1>2. L \in SUBSET (1..Len(leaves)) /\ O \in SUBSET (1..Len(leaves)) /\ L \in SUBSET O
  BY DEF Held, OwnedBy
<1>3. IsFiniteSet(L) /\ IsFiniteSet(O)
  BY <1>2, WorthType
<1>4. ASSUME NEW i \in L PROVE f[h[i]] = WorthOf[i]
  <2>1. h[i] = NoteAt(i) /\ NoteAt(i) \in U
    BY <1>1
  <2>2. f[NoteAt(i)] = NoteAt(i).amount
    BY <2>1
  <2>3. WorthOf[i] = minted[i].amount
    BY <1>2 DEF WorthOf
  <2> QED BY <2>1, <2>2, <2>3, NoteFields
<1>5. ASSUME NEW i \in L, NEW j \in L, h[i] = h[j] PROVE i = j
  <2>1. NoteAt(i) = NoteAt(j)
    BY <1>5
  <2>2. i - 1 = j - 1
    BY <2>1, NoteFields
  <2>3. i \in 1..Len(leaves) /\ j \in 1..Len(leaves) /\ Len(leaves) \in Nat
    BY <1>2, FreshType
  <2> QED BY <2>2, <2>3
<1>6. U = {h[i] : i \in L}
  BY <1>1
<1>7. \A i \in L : WorthOf[i] \in Int
  BY <1>2, WorthType
<1>8. IsFiniteSet(U)
  <2>0. \A i \in L : h[i] \in U
    BY <1>6
  <2>1. h \in Surjection(L, U)
    <3>1. h \in [L -> U]
      BY <2>0
    <3> HIDE DEF h, U, L
    <3> QED BY <1>6, <3>1 DEF Surjection
  <2> HIDE DEF h, U, L
  <2> QED BY <1>3, <2>1, FS_Surjection
<1> HIDE DEF L, h, U, f
<1>9. SumOver(f, U) = SumOver(WorthOf, L)
  BY <1>3, <1>4, <1>5, <1>6, <1>7, SumOverReindex
<1>10. SumOver(WorthOf, O) = SumOver(WorthOf, L)
  <2>1. \A i \in O : WorthOf[i] \in Int
    BY <1>2, WorthType
  <2>2. \A i \in O \ L : WorthOf[i] = 0
    BY DEF OwnedBy, L, Held, WorthOf
  <2> HIDE DEF O
  <2> QED BY <1>2, <1>3, <2>1, <2>2, SumOverSupport
<1>11. HeldValue(u) = SumOver(f, U)
  BY <1>8, HeldValueUnfold, AmountsAreSum DEF U, f
<1> QED BY <1>9, <1>10, <1>11

\* ValueConserved from what the positions are worth.
LEMMA WorthSuffices ==
  ASSUME ChainInv, balance = Worth
  PROVE  ValueConserved
<1> DEFINE f == [u \in Users |-> HeldValue(u)]
           G == {T \in SUBSET Users : SumOver(f, T) = SumOver(WorthOf, OwnedBy(T))}
<1>0. IsFiniteSet(Users)
  BY FlowsAssumption
<1>1. ASSUME NEW T \in SUBSET Users
      PROVE  /\ OwnedBy(T) \in SUBSET (1..Len(leaves))
             /\ IsFiniteSet(OwnedBy(T)) /\ SumOver(WorthOf, OwnedBy(T)) \in Nat
             /\ \A i \in OwnedBy(T) : WorthOf[i] \in Int
  <2>1. OwnedBy(T) \in SUBSET (1..Len(leaves))
    BY DEF OwnedBy
  <2> QED BY <2>1, WorthType
<1>2. \A u \in Users : f[u] = SumOver(WorthOf, OwnedBy({u})) /\ f[u] \in Int
  <2>1. \A u \in Users : f[u] = SumOver(WorthOf, OwnedBy({u}))
    BY HeldIsWorth
  <2> HIDE DEF f
  <2>2. ASSUME NEW u \in Users PROVE f[u] \in Int
    <3>1. {u} \in SUBSET Users
      OBVIOUS
    <3>2. SumOver(WorthOf, OwnedBy({u})) \in Nat
      BY <1>1, <3>1
    <3> QED BY <2>1, <3>2
  <2> QED BY <2>1, <2>2
<1> HIDE DEF f
<1>3. {} \in G
  <2>1. OwnedBy({}) = {}
    BY DEF OwnedBy
  <2>2. SumOver(f, {}) = 0 /\ SumOver(WorthOf, {}) = 0
    BY SumOverUnfold, FS_EmptySet
  <2> QED BY <2>1, <2>2
<1>4. ASSUME NEW T \in SUBSET Users, T # {}, \A x \in T : T \ {x} \in G
      PROVE  T \in G
  <2>1. PICK x \in T : TRUE
    BY <1>4
  <2>2. IsFiniteSet(T) /\ \A u \in T : f[u] \in Int
    BY <1>0, <1>2, FS_Subset
  <2>3. SumOver(f, T) = f[x] + SumOver(f, T \ {x})
    BY <2>2, SumOverRemove
  <2>4. SumOver(f, T \ {x}) = SumOver(WorthOf, OwnedBy(T \ {x}))
    BY <1>4
  <2> DEFINE A == OwnedBy(T)
             B == OwnedBy({x})
  <2>5. B \in SUBSET A
    BY DEF OwnedBy
  <2>6. A \ B = OwnedBy(T \ {x})
    BY DEF OwnedBy
  <2>7. IsFiniteSet(A) /\ \A i \in A : WorthOf[i] \in Int
    BY <1>1
  <2> HIDE DEF A, B
  <2>8. SumOver(WorthOf, A) = SumOver(WorthOf, B) + SumOver(WorthOf, A \ B)
    BY <2>5, <2>7, SumOverSplit
  <2>9. f[x] = SumOver(WorthOf, B)
    BY <1>2 DEF B
  <2>10. SumOver(f, T) = SumOver(WorthOf, A)
    BY <2>3, <2>4, <2>6, <2>8, <2>9
  <2> QED BY <2>10 DEF A
<1> HIDE DEF G
<1>5. \A T \in SUBSET Users : T \in G
  BY <1>0, <1>3, <1>4, InductSubsets
<1>6. SumOver(f, Users) = SumOver(WorthOf, OwnedBy(Users))
  BY <1>5 DEF G
<1>7. OwnedBy(Users) = 1..Len(leaves)
  BY WorthType DEF OwnedBy
<1>8. (CHOOSE g : AddsHeld(g))[Users] = SumOver(f, Users)
  BY HeldAreSum DEF f
<1>9. (CHOOSE g : AddsHeld(g))[Users] = balance
  BY <1>6, <1>7, <1>8 DEF Worth
<1> QED BY <1>9, ConservedUnfold
-----------------------------------------------------------------------------
(* The invariant of the flows.                                             *)

\* Seals, nullifiers, value, and the verdict on the last request.
FlowsInv == ChainInv /\ SpentInv /\ balance = Worth /\ FlowsDecide

\* The empty pool.
LEMMA FlowsStart == FlowsInit => FlowsInv
<1> SUFFICES ASSUME FlowsInit PROVE FlowsInv
  OBVIOUS
<1>1. ChainInv /\ SpentInv /\ Len(leaves) = 0
  BY DEF FlowsInit, ChainInv, SpentInv
<1>2. 1..Len(leaves) = {}
  BY <1>1
<1>3. balance = Worth
  <2>1. SumOver(WorthOf, {}) = 0
    BY SumOverUnfold, FS_EmptySet
  <2> QED BY <1>2, <2>1 DEF FlowsInit, Worth
<1>4. FlowsDecide
  BY DEF FlowsInit, FlowsDecide, BuiltIsAccepted, BuiltWhenWell
<1> QED BY <1>1, <1>3, <1>4 DEF FlowsInv

\* A step that changes no variable of the flows.
LEMMA FlowsStutter ==
  ASSUME FlowsInv, UNCHANGED <<leaves, boxes, minted, spent, balance>>
  PROVE  ChainInv' /\ SpentInv' /\ balance' = Worth'
<1>1. ChainInv'
  BY DEF FlowsInv, ChainInv, SealedAt, BlindingAt, fresh, ChainCommitment, Box, Mint, KeysOf
<1>2. SpentInv'
  BY DEF FlowsInv, SpentInv, fresh
<1>3. WorthOf' = WorthOf
  BY DEF WorthOf, NullifierAt, KeysOf
<1>4. Worth' = Worth
  BY <1>3 DEF Worth
<1> QED BY <1>1, <1>2, <1>4 DEF FlowsInv

\* A refusal without a well formed request.
LEMMA RefuseKeeps ==
  ASSUME FlowsInv, NEW well, ~well, Refuse(well)
  PROVE  FlowsInv'
<1>1. ChainInv' /\ SpentInv' /\ balance' = Worth'
  BY FlowsStutter DEF Refuse
<1>2. FlowsDecide'
  BY DEF Refuse, FlowsDecide, BuiltIsAccepted, BuiltWhenWell
<1> QED BY <1>1, <1>2 DEF FlowsInv

\* transact: refused for cause, or built, accepted and applied.
LEMMA TransactKeeps ==
  ASSUME NEW u, NEW inputs, NEW outputs, NEW ext, NEW recipient, NEW shape, NEW next, NEW seen,
         FlowsInv, IsRequest(u, inputs, outputs, ext, next, seen),
         Transact(u, inputs, outputs, ext, recipient, shape, next, seen)
  PROVE  FlowsInv'
<1> DEFINE ns == NotesOf(inputs, seen)
           ins == InsOf(inputs, next, seen)
           outs == OutsOf(inputs, outputs, next)
           a == Artifacts(u, ins, outs, ext, recipient, seen)
           well == WellFormed(ns, outputs, ext, shape)
           ok == PoolAccepts(a)
           cause == Reuses(inputs) \/ Outdated(seen) \/ ext > MaximumDeposit
<1>0. ChainInv /\ SpentInv /\ balance = Worth
  BY DEF FlowsInv
<1>1. IF ~TransactAccepts(ns, outputs, ext, shape)
      THEN Refuse(well)
      ELSE /\ outcome' = [built |-> TRUE, accepted |-> ok, well |-> well, cause |-> cause]
           /\ IF ok THEN Applied(u, inputs, outputs, ext, recipient, next, seen)
              ELSE UNCHANGED <<leaves, boxes, minted, spent, balance>>
  BY DEF Transact, Applied, NotesOf, InsOf, OutsOf
<1>2. TransactAccepts(ns, outputs, ext, shape) <=> well
  BY <1>0, BuiltIffWellFormed
<1>3. CASE ~TransactAccepts(ns, outputs, ext, shape)
  <2>1. ~well /\ Refuse(well)
    BY <1>1, <1>2, <1>3
  <2> HIDE DEF well
  <2> QED BY <2>1, RefuseKeeps
<1>4. CASE TransactAccepts(ns, outputs, ext, shape)
  <2>0. well
    BY <1>2, <1>4
  <2>1. ok <=> ~cause
    <3>1. ~cause => ok
      BY <1>0, <1>4, BuiltAccepted
    <3>2. ok => ~cause
      BY <1>0, <1>4, AcceptedHasNoCause
    <3> QED BY <3>1, <3>2
  <2>2. FlowsDecide'
    <3>1. outcome' = [built |-> TRUE, accepted |-> ok, well |-> well, cause |-> cause]
      BY <1>1, <1>4
    <3> HIDE DEF ok, well, cause
    <3>2. /\ outcome'.built = TRUE /\ outcome'.accepted = ok
          /\ outcome'.well = well /\ outcome'.cause = cause
      BY <3>1
    <3> QED BY <2>0, <2>1, <3>2 DEF FlowsDecide, BuiltIsAccepted, BuiltWhenWell
  <2>3. CASE ok
    <3>1. Applied(u, inputs, outputs, ext, recipient, next, seen)
      BY <1>1, <1>4, <2>3
    <3>2. ChainInv'
      BY <1>0, <1>4, <3>1, AppendKeeps
    <3>3. SpentInv'
      BY <1>0, <1>4, <3>1, SpentKeeps
    <3>4. balance' = Worth'
      BY <1>0, <1>4, <2>3, <3>1, ValueKeeps
    <3> QED BY <2>2, <3>2, <3>3, <3>4 DEF FlowsInv
  <2>4. CASE ~ok
    <3>1. UNCHANGED <<leaves, boxes, minted, spent, balance>>
      BY <1>1, <1>4, <2>4
    <3> QED BY <2>2, <3>1, FlowsStutter DEF FlowsInv
  <2> QED BY <2>3, <2>4
<1> QED BY <1>3, <1>4

\* The amounts requests ask for.
LEMMA RequestedType ==
  ASSUME NEW amount \in Requested
  PROVE  amount \in Int /\ -ExtMax - 1 <= amount /\ amount <= ExtMax
BY FlowsAssumption DEF Requested

\* The empty list is a list of notes and of outputs.
LEMMA EmptyInputs ==
  ASSUME NEW u, NEW seen
  PROVE  <<>> \in Seq(DiscoveredIn(u, seen)) /\ <<>> \in Seq(OutputOf(u)) /\ Len(<<>>) = 0
OBVIOUS

\* A deposit, and a request whose proofs have a malformed shape.
LEMMA DepositKeeps == FlowsInv /\ (DoDeposit \/ DoMalformed) => FlowsInv'
<1>0. FlowsInv => ChainInv /\ fresh \in Nat
  BY FreshType DEF FlowsInv
<1>1. ASSUME FlowsInv, DoDeposit PROVE FlowsInv'
  <2>1. PICK u \in Users, seen \in Views : \E amount \in Requested, outputs \in OutputLists(u) :
          Deposit(u, amount, outputs, GoodShape, NextBlinding(outputs), seen)
    BY <1>1 DEF DoDeposit
  <2>2. PICK amount \in Requested, outputs \in OutputLists(u) :
          Transact(u, <<>>, outputs, amount, "pool", GoodShape, NextBlinding(outputs), seen)
    BY <2>1 DEF Deposit
  <2>3. outputs \in Seq(OutputOf(u)) /\ Len(outputs) \in 0..3
    BY <1>0, <1>1, OutputListsType
  <2>4. IsRequest(u, <<>>, outputs, amount, NextBlinding(outputs), seen)
    BY <1>0, <1>1, <2>3, EmptyInputs, RequestedType, FlowsAssumption DEF IsRequest, NextBlinding
  <2> QED BY <1>1, <2>2, <2>4, TransactKeeps
<1>2. ASSUME FlowsInv, DoMalformed PROVE FlowsInv'
  <2>1. PICK u \in Users, seen \in Views, shape \in Shapes \ {GoodShape} :
          Transact(u, <<>>, <<>>, 0, "pool", shape, fresh, seen)
    BY <1>2 DEF DoMalformed, Deposit
  <2>2. IsRequest(u, <<>>, <<>>, 0, fresh, seen)
    BY <1>0, <1>2, EmptyInputs, FlowsAssumption DEF IsRequest
  <2> QED BY <1>2, <2>1, <2>2, TransactKeeps
<1> QED BY <1>1, <1>2

\* A transfer.
LEMMA TransferKeeps == FlowsInv /\ DoTransfer => FlowsInv'
<1> SUFFICES ASSUME FlowsInv, DoTransfer PROVE FlowsInv'
  OBVIOUS
<1>0. ChainInv /\ fresh \in Nat
  BY FreshType DEF FlowsInv
<1>1. PICK u \in Users, seen \in Views : \E inputs \in InputLists(u, seen), outputs \in OutputLists(u) :
        Transfer(u, inputs, outputs, GoodShape, NextBlinding(outputs), seen)
  BY DEF DoTransfer
<1>2. PICK inputs \in InputLists(u, seen), outputs \in OutputLists(u) :
        Transact(u, inputs, outputs, 0, "pool", GoodShape, NextBlinding(outputs), seen)
  BY <1>1 DEF Transfer
<1>3. outputs \in Seq(OutputOf(u)) /\ Len(outputs) \in 0..3 /\ inputs \in Seq(DiscoveredIn(u, seen))
  BY <1>0, OutputListsType, InputListsType
<1>4. IsRequest(u, inputs, outputs, 0, NextBlinding(outputs), seen)
  BY <1>0, <1>3, FlowsAssumption DEF IsRequest, NextBlinding
<1> QED BY <1>2, <1>4, TransactKeeps

\* A withdrawal, with change or none.
LEMMA WithdrawKeeps == FlowsInv /\ DoWithdraw => FlowsInv'
<1> SUFFICES ASSUME FlowsInv, DoWithdraw PROVE FlowsInv'
  OBVIOUS
<1>0. ChainInv /\ fresh \in Nat
  BY FreshType DEF FlowsInv
<1>1. PICK u \in Users, seen \in Views : \E amount \in Requested, inputs \in InputLists(u, seen) :
        \/ Withdraw(u, amount, inputs, None, GoodShape, fresh, seen)
        \/ \E outputs \in {o \in OutputLists(u) : Len(o) = 1} :
             Withdraw(u, amount, inputs, Some(outputs), GoodShape, NextBlinding(outputs), seen)
  BY DEF DoWithdraw
<1>2. PICK amount \in Requested, inputs \in InputLists(u, seen) :
        \/ Withdraw(u, amount, inputs, None, GoodShape, fresh, seen)
        \/ \E outputs \in {o \in OutputLists(u) : Len(o) = 1} :
             Withdraw(u, amount, inputs, Some(outputs), GoodShape, NextBlinding(outputs), seen)
  BY <1>1
<1> DEFINE total == SumNoteAmounts(inputs)
           t == TotalOf(inputs)
           covered == \E x \in total : \E w \in NoteFromExt(amount) : x >= w
           refused == ~covered \/ CheckedNeg(amount) = None
<1>3. inputs \in Seq(DiscoveredIn(u, seen))
  BY InputListsType
<1>4. amount \in Int /\ -ExtMax - 1 <= amount /\ amount <= ExtMax /\ ExtMax \in Nat
  BY RequestedType, FlowsAssumption
<1>5. t \in Nat /\ total = IF t <= NoteMax THEN {t} ELSE {}
  <2>1. IsRequest(u, inputs, <<>>, 0, fresh, seen)
    BY <1>0, <1>3, EmptyInputs, FlowsAssumption DEF IsRequest
  <2>2. IsNotes(inputs, Len(inputs))
    BY <1>0, <2>1, RequestLists
  <2> QED BY <2>2, SumIsChecked DEF Some, None
<1> HIDE DEF total, t
<1>6. covered <=> (t <= NoteMax /\ 0 <= amount /\ amount <= t)
  <2>1. CASE amount >= 0
    <3>1. NoteFromExt(amount) = {amount}
      BY <2>1 DEF NoteFromExt, Some
    <3> QED BY <1>4, <1>5, <2>1, <3>1
  <2>2. CASE ~(amount >= 0)
    <3>1. NoteFromExt(amount) = {}
      BY <2>2 DEF NoteFromExt, None
    <3> QED BY <1>4, <2>2, <3>1
  <2> QED BY <2>1, <2>2
<1>7. CheckedNeg(amount) = None <=> amount = -ExtMax - 1
  BY DEF CheckedNeg, Some, None
<1>8. refused <=> ~(t <= NoteMax /\ 0 <= amount /\ amount <= t)
  <2> HIDE DEF covered
  <2> QED BY <1>4, <1>6, <1>7
<1>9. CASE refused
  <2>1. Refuse(amount \in 0..t /\ t <= NoteMax)
    BY <1>2, <1>9 DEF Withdraw, t, total
  <2>2. ~(amount \in 0..t /\ t <= NoteMax)
    BY <1>4, <1>5, <1>8, <1>9
  <2> QED BY <2>1, <2>2, RefuseKeeps
<1>10. CASE ~refused
  <2>0. t <= NoteMax /\ 0 <= amount /\ amount <= t /\ total = {t}
    BY <1>5, <1>8, <1>10
  <2>1. CASE Withdraw(u, amount, inputs, None, GoodShape, fresh, seen)
    <3> DEFINE change == t - amount
               outs == WithdrawOutputs(change, fresh)
    <3>1. (CHOOSE x \in total : TRUE) = t
      BY <2>0
    <3>2. Transact(u, inputs, outs, -amount, "wallet", GoodShape, fresh + 2, seen)
      BY <1>10, <2>1, <3>1 DEF Withdraw, t, total
    <3>3. outs \in Seq(OutputOf(u)) /\ Len(outs) = 2
      <4>1. change \in Nat
        BY <1>4, <1>5, <2>0
      <4>2. SelfKeys \in Recipients(u)
        BY DEF Recipients
      <4> HIDE DEF change
      <4>3. Output(change, fresh, SelfKeys) \in OutputOf(u) /\ Output(0, fresh + 1, SelfKeys) \in OutputOf(u)
        BY <1>0, <4>1, <4>2 DEF OutputOf, Output
      <4> QED BY <4>3 DEF WithdrawOutputs
    <3>4. -amount \in (-ExtMax - 1)..ExtMax
      BY <1>4, <2>0
    <3> HIDE DEF outs
    <3>5. IsRequest(u, inputs, outs, -amount, fresh + 2, seen)
      BY <1>0, <1>3, <3>3, <3>4 DEF IsRequest
    <3> QED BY <3>2, <3>5, TransactKeeps
  <2>2. CASE \E outputs \in {o \in OutputLists(u) : Len(o) = 1} :
               Withdraw(u, amount, inputs, Some(outputs), GoodShape, NextBlinding(outputs), seen)
    <3>1. PICK outputs \in OutputLists(u) :
            Withdraw(u, amount, inputs, Some(outputs), GoodShape, NextBlinding(outputs), seen)
      BY <2>2
    <3>2. Some(outputs) # None /\ (CHOOSE o \in Some(outputs) : TRUE) = outputs
      BY DEF Some, None
    <3>3. Transact(u, inputs, outputs, -amount, "wallet", GoodShape, NextBlinding(outputs), seen)
      BY <1>10, <3>1, <3>2 DEF Withdraw, t, total
    <3>4. outputs \in Seq(OutputOf(u)) /\ Len(outputs) \in 0..3
      BY <1>0, OutputListsType
    <3>5. -amount \in (-ExtMax - 1)..ExtMax
      BY <1>4, <2>0
    <3>6. IsRequest(u, inputs, outputs, -amount, NextBlinding(outputs), seen)
      BY <1>0, <1>3, <3>4, <3>5 DEF IsRequest, NextBlinding
    <3> QED BY <3>3, <3>6, TransactKeeps
  <2> QED BY <1>2, <2>1, <2>2
<1> QED BY <1>9, <1>10

\* Every step of the flows keeps the invariant.
LEMMA FlowsSteps == FlowsInv /\ [FlowsNext]_flowVars => FlowsInv'
<1>1. CASE UNCHANGED flowVars
  <2>1. FlowsInv => FlowsDecide'
    BY <1>1 DEF flowVars, FlowsInv, FlowsDecide, BuiltIsAccepted, BuiltWhenWell
  <2> QED BY <1>1, <2>1, FlowsStutter DEF flowVars, FlowsInv
<1>2. CASE FlowsNext
  BY <1>2, DepositKeeps, TransferKeeps, WithdrawKeeps DEF FlowsNext
<1> QED BY <1>1, <1>2

\* The invariant holds throughout.
LEMMA FlowsHolds == FlowsSpec => []FlowsInv
<1> QED BY FlowsStart, FlowsSteps, PTL DEF FlowsSpec

(* The prover's flows decide as the chain does: what deposit, transfer and *)
(* withdraw build through transact satisfies the circuit's constraints and *)
(* is accepted by the pool exactly when no note is used again, no root is  *)
(* out of date and the deposit is within the cap (BuiltIsAccepted), and    *)
(* transact builds exactly the requests that balance in the integers, fit  *)
(* the types and are well formed (BuiltWhenWell).                          *)
THEOREM FlowsDecideExactly == FlowsSpec => []FlowsDecide
<1>1. FlowsInv => FlowsDecide
  BY DEF FlowsInv
<1> QED BY <1>1, FlowsHolds, PTL

(* The note scan of a wallet finds, for every account, the notes of value  *)
(* made for it with the keys that spend them (NotesRecoverable), and the   *)
(* unspent notes of all accounts are worth the pool's balance              *)
(* (ValueConserved).                                                       *)
THEOREM NotesAreFound == FlowsSpec => []NotesFound
<1>1. FlowsInv => NotesFound
  BY SealsSuffice, WorthSuffices DEF FlowsInv, NotesFound
<1> QED BY <1>1, FlowsHolds, PTL
=============================================================================
