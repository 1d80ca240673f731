------------------------------ MODULE Session ------------------------------
(***************************************************************************)
(* A request of the web client from the click to the last confirmation:    *)
(* execute_plan and execute_transact.  Each step of a plan reads a         *)
(* snapshot of the chain, has the storage worker build the proof inputs,   *)
(* has the prover prove, simulates, asks the wallet to sign, submits and   *)
(* polls for the result.  Every one of these calls is an await, between    *)
(* any two of which the chain, the indexer, the user's other devices and   *)
(* transactions of the user's earlier requests move.                       *)
(*                                                                         *)
(* The pool is the log of its successful transactions; each adds one leaf  *)
(* (of a transaction's two outputs the one that can be non-zero beside the *)
(* payment is kept), so the n-th root stands for the first n leaves.  A    *)
(* note is named by the request and step whose proof made it.  A selection *)
(* of notes is any that covers the amount and has none to spare (TxPlanner *)
(* settles which), merged in an arbitrary order.                           *)
(***************************************************************************)
EXTENDS Signing, FiniteSetsExt

CONSTANTS
    InitialNotes,     \* notes of amount 1 the user owns at the start
    Amounts,          \* amounts of the requests
    Kinds,            \* which requests are made
    RootHistory,      \* ROOT_HISTORY_SIZE (90)
    SnapshotAttempts, \* MAX_SNAPSHOT_ATTEMPTS (3)
    ConfirmPolls,     \* CONFIRM_POLL_ATTEMPTS (30)
    MaxRequests,      \* bound: requests of the user
    MaxOthers         \* bound: ledgers that close without a transaction of the client

ASSUME SessionAssumption ==
    /\ {InitialNotes, MaxRequests, MaxOthers} \subseteq Nat
    /\ Amounts \subseteq Nat \ {0}
    /\ Kinds \subseteq {"withdraw", "transfer", "transact", "deposit", "register"}
    /\ {RootHistory, SnapshotAttempts, ConfirmPolls} \subseteq Nat \ {0}

VARIABLES
    log,      \* the pool's transactions: [ins, out, ext]
    sequence, \* the account's sequence number
    tip,      \* the latest ledger
    others,   \* ledgers closed so far without a transaction of the client
    txs,      \* what the client has sent: [env, status, rivals]
    indexed,  \* how many pool transactions have their leaves in the local store
    noted,    \* how many of them are also in its notes and spend marks
    req,      \* the request that runs: [n, kind, amount, picks]
    sess,     \* the state of its current step
    ended     \* how the requests ended: [kind, amount, result]

chainVars == <<log, sequence, tip, others>>
vars == <<chainVars, txs, indexed, noted, req, sess, ended>>

-----------------------------------------------------------------------------
(* The pool and the wallet's notes *)

Spent(n) == UNION {log[i].ins : i \in 1 .. n}

Note(id, owner, amount) == [id |-> id, owner |-> owner, amount |-> amount]

\* The user's unspent notes after the first n transactions.
NotesAt(n) ==
    {log[i].out : i \in {j \in 1 .. n : /\ log[j].out.owner = User
                                        /\ log[j].out.amount > 0
                                        /\ log[j].out.id \notin Spent(n)}}

Total(notes) == SumFunction([note \in notes |-> note.amount])

\* is_known_root: the ring of the last RootHistory roots.
KnownRoots == {r \in 0 .. Len(log) : r > Len(log) - RootHistory}
RootSlot(r) == r % RootHistory
RootAt(slot) == CHOOSE r \in KnownRoots : RootSlot(r) = slot

-----------------------------------------------------------------------------
(* Requests *)

NoSnapshot == [slot |-> 0, next |-> 0, root |-> 0]

\* Nothing runs; also what is kept of a step between two steps.
Rest == [pc |-> "idle", step |-> 0, attempt |-> 0, snap |-> NoSnapshot,
         merged |-> Note(<<0, 0>>, User, 0), number |-> 0, rivals |-> {},
         prepared |-> <<>>, signatures |-> <<>>]

NoRequest == [n |-> 0, kind |-> "none", amount |-> 0, picks |-> <<>>]

Steps(r) == IF Len(r.picks) <= 2 THEN 1 ELSE Len(r.picks) - 1
Final(r, step) == step = Steps(r)
Excess(r) == Total(Range(r.picks)) - r.amount

\* The notes step number n of the plan spends: the first two, then the merged
\* note and the next one.
InputsOf(r, s) ==
    IF r.kind \in {"deposit", "register"} THEN {}
    ELSE IF s.step = 1 THEN {r.picks[i] : i \in 1 .. (IF Len(r.picks) = 1 THEN 1 ELSE 2)}
    ELSE {s.merged, r.picks[s.step + 1]}

\* materialize_step, and the deposit's own step.  The output is what stays
\* with the user: the merged note, the change, the deposited note; ext is what
\* leaves (negative) or enters the user's notes by this step's payment.
StepOf(r, s) ==
    LET ins == InputsOf(r, s)
    IN  [ins |-> {note.id : note \in ins},
         out |-> Note(<<r.n, s.step>>, User,
                      CASE r.kind = "deposit" -> r.amount
                        [] r.kind = "register" -> 0
                        [] ~Final(r, s.step) -> Total(ins)
                        [] OTHER -> Excess(r)),
         ext |-> IF ~Final(r, s.step) THEN 0
                 ELSE IF r.kind = "deposit" THEN r.amount
                 ELSE IF r.kind = "register" THEN 0 ELSE 0 - r.amount]

Selections(amount) ==
    {S \in SUBSET NotesAt(noted) :
        Total(S) >= amount /\ \A note \in S : Total(S \ {note}) < amount}

Idle == sess.pc = "idle"
Begin(kind, amount, picks) ==
    /\ Idle
    /\ Len(ended) < MaxRequests
    /\ req' = [n |-> Len(ended) + 1, kind |-> kind, amount |-> amount, picks |-> picks]
    /\ sess' = [Rest EXCEPT !.pc = IF kind = "register" THEN "sequence" ELSE "bulk",
                            !.step = 1, !.attempt = 1]
    /\ UNCHANGED <<chainVars, txs, indexed, noted, ended>>

\* execute_spend_inner, execute_plan: the wallet's notes are loaded once and
\* the plan is frozen.
ExecuteSpend(kind, amount) ==
    \E S \in Selections(amount) : Begin(kind, amount, SetToSeq(S))

\* A commitment that the pool does not have, of the amount the caller claims.
Foreign(amount) == Note(<<0 - 3, 0>>, "stranger", amount)

\* execute_transact_inner: the caller names up to two commitments, which
\* nothing compares with the local store at this point.  They may be spent,
\* of another owner or of no transaction of the pool.
InputNoteIds(amount) ==
    {S \in SUBSET ({log[i].out : i \in DOMAIN log} \cup {Foreign(amount)}) :
        Cardinality(S) \in 1 .. 2 /\ Total(S) = amount}

ExecuteTransact(amount) ==
    \E S \in InputNoteIds(amount) : Begin("transact", amount, SetToSeq(S))

ExecuteDeposit(amount) == Begin("deposit", amount, <<>>)

RegisterPublicKeys == Begin("register", 0, <<>>)

End(result) ==
    /\ ended' = Append(ended, [kind |-> req.kind, amount |-> req.amount, result |-> result])
    /\ sess' = Rest
    /\ req' = NoRequest

-----------------------------------------------------------------------------
(* prove_transact_inner *)

Step == StepOf(req, sess)

\* get_contract_data_bulk: the keys of one request are read at one ledger.
PoolState == [slot |-> RootSlot(Len(log)), next |-> Len(log), root |-> 0]

\* contracts_data reads the pool's state and, with a second request, the root
\* in the slot the first one named.
ReadPoolState ==
    /\ sess.pc = "bulk"
    /\ sess' = [sess EXCEPT !.pc = "root", !.snap = PoolState]
    /\ UNCHANGED <<chainVars, txs, indexed, noted, req, ended>>

\* The slot is read again beside the root; another slot means that the pool
\* has moved.
ReadPoolRoot ==
    /\ sess.pc = "root"
    /\ IF PoolState.slot = sess.snap.slot
       THEN /\ sess' = [sess EXCEPT !.pc = "keys", !.snap.root = RootAt(sess.snap.slot)]
            /\ UNCHANGED <<req, ended>>
       ELSE IF sess.attempt < SnapshotAttempts
       THEN /\ sess' = [sess EXCEPT !.pc = "bulk", !.attempt = @ + 1, !.snap = NoSnapshot]
            /\ UNCHANGED <<req, ended>>
       ELSE End("failed")
    /\ UNCHANGED <<chainVars, txs, indexed, noted>>

\* The user's keys and the non-membership proof for them.
GetNonMembershipProof ==
    /\ sess.pc = "keys"
    /\ sess' = [sess EXCEPT !.pc = "ask", !.attempt = 0]
    /\ UNCHANGED <<chainVars, txs, indexed, noted, req, ended>>

InputsKnown == Step.ins \subseteq {note.id : note \in NotesAt(noted)}

\* Mutant: the tree's root is not compared with the snapshot's.
TransactAnswersUnchecked ==
    IF Step.ins = {} THEN {"wait", "ping", "error"}
    ELSE IF indexed # sess.snap.next THEN {"wait", "error"}
    ELSE IF InputsKnown THEN {"ping"} ELSE {"wait"}

\* What the storage worker may answer.  Without inputs only the ASP part is
\* asked, which waits for a store behind the snapshot and fails for one ahead
\* of it.  With inputs a store that has not as many leaves as the snapshot,
\* or in which an input is not an unspent note, asks to wait, and a root that
\* its leaves do not have is an error.
TransactAnswers ==
    IF Step.ins = {} THEN
        IF indexed = sess.snap.next THEN {"ping"} ELSE {"wait", "ping", "error"}
    ELSE IF indexed # sess.snap.next THEN {"wait", "error"}
    ELSE IF sess.snap.root # indexed THEN {"error"}
    ELSE IF InputsKnown THEN {"ping"} ELSE {"wait"}

BuildTransactParams ==
    /\ sess.pc = "ask"
    /\ \E answer \in TransactAnswers :
           IF answer = "error" THEN End("failed")
           ELSE sess' = [sess EXCEPT !.pc = answer] /\ UNCHANGED <<req, ended>>
    /\ UNCHANGED <<chainVars, txs, indexed, noted>>

\* The account is not in the ASP's tree: the request ends without an error
\* and without an effect of this step.
RegisterAtAsp ==
    /\ sess.pc = "ask"
    /\ indexed = sess.snap.next
    /\ End("none")
    /\ UNCHANGED <<chainVars, txs, indexed, noted>>

\* The client sleeps a second and starts again with a new snapshot.
SyncWait ==
    /\ sess.pc = "wait"
    /\ sess' = [sess EXCEPT !.pc = "bulk", !.attempt = 1, !.snap = NoSnapshot]
    /\ UNCHANGED <<chainVars, txs, indexed, noted, req, ended>>

PingProver ==
    /\ sess.pc = "ping"
    /\ sess' = [sess EXCEPT !.pc = "prove"]
    /\ UNCHANGED <<chainVars, txs, indexed, noted, req, ended>>

Prove ==
    /\ sess.pc = "prove"
    /\ sess' = [sess EXCEPT !.pc = "sequence"]
    /\ UNCHANGED <<chainVars, txs, indexed, noted, req, ended>>

\* A worker answers with an error or not in time.
WorkerFails ==
    /\ sess.pc \in {"keys", "ask", "ping", "prove"}
    /\ End("failed")
    /\ UNCHANGED <<chainVars, txs, indexed, noted>>

\* The node does.
RpcFails ==
    /\ sess.pc \in {"bulk", "root", "keys", "sequence", "simulate", "confirm"}
    /\ End("failed")
    /\ UNCHANGED <<chainVars, txs, indexed, noted>>

-----------------------------------------------------------------------------
(* prepare_pool_transact, prepare_register *)

Pending == {i \in DOMAIN txs : txs[i].status = "pending"}

\* Mutant: pending transactions are counted.
AccountSequenceAhead == NextSequence(sequence) + Cardinality(Pending)

AccountSequence == NextSequence(sequence)

\* rivals, a history of the model: the client's transactions whose outcome is
\* open when the sequence number is read.
ReadSequence ==
    /\ sess.pc = "sequence"
    /\ HasNextSequence(sequence)
    /\ sess' = [sess EXCEPT !.pc = "simulate", !.number = AccountSequence,
                            !.rivals = Pending]
    /\ UNCHANGED <<chainVars, txs, indexed, noted, req, ended>>

Call == [request |-> req.n, kind |-> req.kind, step |-> Step, root |-> sess.snap.root,
         last |-> Final(req, sess.step)]

\* transact and register of the contracts, as far as they can fail here.
Executes(call) ==
    call.kind # "register" =>
        call.root \in KnownRoots /\ call.step.ins \cap Spent(Len(log)) = {}

\* The node decides in whose name the call is authorized: the source account
\* signs with the envelope, an address signs its own entry.
AuthShapes == {<<Entry("source", 1)>>, <<Entry("source", 1), Entry(User, 2)>>}

Simulate ==
    /\ sess.pc = "simulate"
    /\ \E auth \in AuthShapes :
           LET raw == BuildInvokeContractTx(sess.number, Call)
               sim == [error |-> ~Executes(Call), minResourceFee |-> BaseFee,
                       latest |-> tip, auth |-> auth]
           IN  IF Assembles(raw, sim)
               THEN /\ sess' = [sess EXCEPT !.pc = "sign",
                                            !.prepared = <<FromSimulation(raw, sim)>>]
                    /\ UNCHANGED <<req, ended>>
               ELSE End("failed")
    /\ UNCHANGED <<chainVars, txs, indexed, noted>>

-----------------------------------------------------------------------------
(* sign_prepared_transaction *)

Prepared == sess.prepared[1]
Turn == Cardinality(DOMAIN sess.signatures) + 1

\* The wallet signs the entries one after the other.
SignAuthEntry ==
    /\ sess.pc = "sign"
    /\ Turn <= Len(AuthSignSteps(Prepared))
    /\ LET step == AuthSignSteps(Prepared)[Turn]
           at == step.index
       IN  sess' = [sess EXCEPT !.signatures =
                       [i \in DOMAIN @ \cup {at} |->
                           IF i = at THEN SignPreimage(step.preimage) ELSE @[i]]]
    /\ UNCHANGED <<chainVars, txs, indexed, noted, req, ended>>

Submit(envelope) == sess' = [sess EXCEPT !.pc = "send",
                                         !.signatures = <<>>,
                                         !.prepared = <<[Prepared EXCEPT !.tx = envelope]>>]

SignTx ==
    /\ sess.pc = "sign"
    /\ Turn > Len(AuthSignSteps(Prepared))
    /\ IF SignaturesFit(Prepared, sess.signatures)
       THEN /\ Submit(SignTransaction(UnsignedTxForSigning(Prepared, sess.signatures), User))
            /\ UNCHANGED <<req, ended>>
       ELSE End("failed")
    /\ UNCHANGED <<chainVars, txs, indexed, noted>>

\* A program with a secret key in place of the wallet.
SignLocally(key) ==
    /\ sess.pc = "sign"
    /\ sess.signatures = <<>>
    /\ IF key = User
       THEN Submit(SignPreparedTransaction(Prepared, key)) /\ UNCHANGED <<req, ended>>
       ELSE End("failed")
    /\ UNCHANGED <<chainVars, txs, indexed, noted>>

WalletRejects ==
    /\ sess.pc = "sign"
    /\ End("failed")
    /\ UNCHANGED <<chainVars, txs, indexed, noted>>

-----------------------------------------------------------------------------
(* submit_tx *)

Sent(status) ==
    txs' = Append(txs, [env |-> Prepared.tx, status |-> status, rivals |-> sess.rivals])

\* The node, which refuses a used sequence number, takes the transaction into
\* its queue, or answers with a hash but does not (TRY_AGAIN_LATER); the client
\* polls either way.
SendAccepted(status) ==
    /\ sess.pc = "send"
    /\ Prepared.tx.sequence > sequence
    /\ Sent(status)
    /\ sess' = [Rest EXCEPT !.pc = "confirm", !.step = sess.step, !.merged = sess.merged,
                            !.attempt = 1]
    /\ UNCHANGED <<chainVars, indexed, noted, req, ended>>

\* An ERROR answer, as for a used sequence number, or an empty hash.
SendRefused ==
    /\ sess.pc = "send"
    /\ End("failed")
    /\ UNCHANGED <<chainVars, txs, indexed, noted>>

\* The node has the transaction but its answer is lost or late.
SendUnanswered ==
    /\ sess.pc = "send"
    /\ Prepared.tx.sequence > sequence
    /\ Sent("pending")
    /\ End("failed")
    /\ UNCHANGED <<chainVars, indexed, noted>>

\* complete_step, and the loop of execute_plan.
CompleteStep ==
    IF Final(req, sess.step) THEN End("done")
    ELSE /\ sess' = [Rest EXCEPT !.pc = "bulk", !.step = sess.step + 1, !.attempt = 1,
                                 !.merged = Step.out]
         /\ UNCHANGED <<req, ended>>

\* Mutant: a transaction the node does not know counts as confirmed.
ConfirmTxLenient(status) == IF status = "dropped" THEN "success" ELSE status

\* getTransaction: whatever is neither SUCCESS nor FAILED is pending.
ConfirmTx(status) == IF status = "dropped" THEN "pending" ELSE status


PollsLeft(attempt) == attempt < ConfirmPolls

ConfirmPoll ==
    /\ sess.pc = "confirm"
    /\ LET status == ConfirmTx(txs[Len(txs)].status)
       IN  CASE status = "success" -> CompleteStep
             [] status = "failed" -> End("failed")
             [] status = "pending" /\ PollsLeft(sess.attempt) ->
                  /\ sess' = [sess EXCEPT !.attempt = 1 + (@ % ConfirmPolls)]
                  /\ UNCHANGED <<req, ended>>
             [] OTHER -> End("failed")
    /\ UNCHANGED <<chainVars, txs, indexed, noted>>

-----------------------------------------------------------------------------
(* The rest of the world *)

Authorised(envelope) ==
    /\ VerifyTx(envelope, User, 1)
    /\ \A i \in DOMAIN envelope.auth : EntryAuthorised(envelope.auth[i], tip)

PoolEntry(step) == [ins |-> step.ins, out |-> step.out, ext |-> step.ext]

\* A queued transaction is applied once its sequence number is the next one.
\* The envelope has no time bounds, so this may be long after the client gave
\* up on it.
Apply(i) ==
    /\ i \in Pending
    /\ LET env == txs[i].env
           ok == Executes(env.call) /\ Authorised(env)
       IN  /\ env.sequence = NextSequence(sequence)
           /\ txs' = [txs EXCEPT ![i].status = IF ok THEN "success" ELSE "failed"]
           /\ log' = IF ok /\ env.call.kind # "register"
                     THEN Append(log, PoolEntry(env.call.step)) ELSE log
    /\ sequence' = NextSequence(sequence)
    /\ tip' = tip + 1
    /\ UNCHANGED <<others, indexed, noted, req, sess, ended>>

\* A transaction leaves the node's queue without having been applied.
Drop(i) ==
    /\ i \in Pending
    /\ txs' = [txs EXCEPT ![i].status = "dropped"]
    /\ UNCHANGED <<chainVars, indexed, noted, req, sess, ended>>

OtherTransaction(ins, note) ==
    /\ others < MaxOthers
    /\ others' = others + 1
    /\ log' = Append(log, [ins |-> ins, out |-> note, ext |-> 0])
    /\ tip' = tip + 1
    /\ UNCHANGED <<txs, indexed, noted, req, sess, ended>>

StrangerTransacts ==
    OtherTransaction({}, Note(<<0 - 1, others>>, "stranger", 0)) /\ UNCHANGED sequence

\* The user's keys on another device: a note is moved into a new one.
OtherDeviceTransacts(note) ==
    /\ OtherTransaction({note.id}, Note(<<0 - 2, others>>, User, note.amount))
    /\ sequence' = NextSequence(sequence)

CloseLedger ==
    /\ others < MaxOthers
    /\ others' = others + 1
    /\ tip' = tip + 1
    /\ UNCHANGED <<log, sequence, txs, indexed, noted, req, sess, ended>>

\* The indexer and the processor (LocalStore), a transaction at a time: its
\* leaves are saved first, its notes and spends with a later transaction of
\* the store.
IndexNext ==
    /\ indexed < Len(log)
    /\ indexed' = indexed + 1
    /\ UNCHANGED <<chainVars, txs, noted, req, sess, ended>>

ProcessNotes ==
    /\ noted < indexed
    /\ noted' = noted + 1
    /\ UNCHANGED <<chainVars, txs, indexed, req, sess, ended>>

\* The tab is closed and opened: the request is gone.
Restart ==
    /\ ~Idle
    /\ End("failed")
    /\ UNCHANGED <<chainVars, txs, indexed, noted>>

-----------------------------------------------------------------------------

Init ==
    /\ log = [i \in 1 .. InitialNotes |->
                 [ins |-> {}, out |-> Note(<<0, i>>, User, 1), ext |-> 1]]
    /\ sequence = 0
    /\ tip = 1
    /\ others = 0
    /\ txs = <<>>
    /\ indexed = InitialNotes /\ noted = InitialNotes
    /\ req = NoRequest
    /\ sess = Rest
    /\ ended = <<>>

Requests ==
    \/ \E kind \in Kinds \cap {"withdraw", "transfer"}, amount \in Amounts :
           ExecuteSpend(kind, amount)
    \/ "transact" \in Kinds /\ \E amount \in Amounts : ExecuteTransact(amount)
    \/ "deposit" \in Kinds /\ \E amount \in Amounts : ExecuteDeposit(amount)
    \/ "register" \in Kinds /\ RegisterPublicKeys

\* What the client does without the user: every await of it ends, with an
\* answer or by its timer.
Client ==
    \/ ReadPoolState \/ ReadPoolRoot \/ GetNonMembershipProof
    \/ BuildTransactParams \/ RegisterAtAsp \/ SyncWait \/ PingProver \/ Prove
    \/ ReadSequence \/ Simulate
    \/ \E status \in {"pending", "dropped"} : SendAccepted(status)
    \/ SendRefused \/ SendUnanswered \/ ConfirmPoll \/ WorkerFails \/ RpcFails

WalletAnswers ==
    \/ SignAuthEntry \/ SignTx \/ WalletRejects
    \/ \E key \in {User, "stranger"} : SignLocally(key)

World ==
    \/ \E i \in DOMAIN txs : Apply(i) \/ Drop(i)
    \/ StrangerTransacts
    \/ \E note \in NotesAt(Len(log)) : OtherDeviceTransacts(note)
    \/ CloseLedger

Store == IndexNext \/ ProcessNotes

Next == Requests \/ Client \/ WalletAnswers \/ World \/ Store \/ Restart

Spec == Init /\ [][Next]_vars

\* The client's awaits end.  Nothing is assumed of the wallet, whose prompt
\* has no timer, of the network, nor of the store: the listener that feeds it
\* may return for good, and its processor may stop at a row.
FairSpec == Spec /\ WF_vars(Client)

-----------------------------------------------------------------------------
(* Properties *)

Landed(n) == {i \in DOMAIN txs : txs[i].status = "success" /\ txs[i].env.call.request = n}
Payments(n) == {i \in Landed(n) : txs[i].env.call.last}

\* A request reported as done has happened: all its steps are on the chain,
\* the payment once.  However a request ends, its payment is made at most
\* once, in the amount asked for and only after every merge before it.
DoneIsPaid ==
    \A n \in DOMAIN ended :
        /\ Cardinality(Payments(n)) <= 1
        /\ ended[n].result = "done" => Cardinality(Payments(n)) = 1
        /\ \A i \in Payments(n) :
              LET step == txs[i].env.call.step
              IN  /\ step.ext \in {ended[n].amount, 0 - ended[n].amount}
                  /\ Cardinality(Landed(n)) = step.out.id[2]

\* A request made while the outcome of an earlier transaction is open (a
\* timed-out confirmation, a lost answer) cannot land together with it: at
\* most one of the two executes, even with other notes, at whatever time.
RetryPaysOnce ==
    \A i \in DOMAIN txs, j \in DOMAIN txs :
        j \in txs[i].rivals => ~(txs[i].status = "success" /\ txs[j].status = "success")

\* No value is lost by a plan that stops half-way, a late transaction or a
\* retry: what the user's notes hold is what they held at the start, plus what
\* was deposited, less what was paid.
ValueKept ==
    Total(NotesAt(Len(log))) =
        SumFunction([i \in DOMAIN log |-> log[i].ext])

\* A proof that spends notes is made for a tree that existed, also when the
\* ring of roots went round between the two reads of the snapshot.
ProvesExistingTree ==
    sess.pc \in {"ping", "prove", "sequence", "simulate", "sign", "send"}
        /\ req.kind \notin {"deposit", "register"} => sess.snap.root = sess.snap.next

\* A signed transaction reaches the queue with every entry of the user signed
\* for what it is: nothing the wallet approved is refused for its signatures
\* unless the approval came too late.
FullyAuthorised ==
    \A i \in DOMAIN txs :
        /\ VerifyTx(txs[i].env, User, 1)
        /\ \A k \in DOMAIN txs[i].env.auth :
              EntryAuthorised(txs[i].env.auth[k], txs[i].env.auth[k].expiration)

\* An input of the running step is not an unspent note of the user's: spent by
\* another device or a late transaction of an earlier request, or never one.
InputsMissing ==
    ~Idle /\ ~(Step.ins \subseteq {note.id : note \in NotesAt(Len(log))})

StoreBehind == noted < Len(log)


\* A request reported as done was paid, once and in full, and one that was not
\* has cost the user nothing.
PaymentsKept == DoneIsPaid /\ ValueKept

\* What the client sends was proved for a tree that existed and carries every
\* signature the network will ask for.
SentIsSound == ProvesExistingTree /\ FullyAuthorised
=============================================================================
