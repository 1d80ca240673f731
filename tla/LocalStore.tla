----------------------------- MODULE LocalStore -----------------------------
(***************************************************************************)
(* The wallet's view of the chain: the indexer that pages contract events  *)
(* out of an RPC node, the SQLite tables it fills, the processor that      *)
(* turns raw events into leaves, nullifiers and the user's notes, and the  *)
(* request that reads these tables to build a transaction's proof inputs.  *)
(*                                                                         *)
(* Indexer, processor and client are asynchronous tasks.  A storage        *)
(* request runs to its end in the worker, and an iteration of the          *)
(* processor holds the worker from its first transaction to its last, so   *)
(* only a crash of the tab can separate those transactions.                *)
(*                                                                         *)
(* An event is named by its position in the chain's event order, and a     *)
(* table by the set of events whose rows it holds (or by the row ids of    *)
(* those events, where the code depends on the ids).  A Merkle root is the *)
(* set of leaves under it.  Of a pool transaction's two nullifiers and two *)
(* outputs one of each is kept.  The model has one pool contract.          *)
(***************************************************************************)
EXTENDS Integers, Sequences, FiniteSets

CONSTANTS
    Accounts,      \* accounts of this wallet
    Stranger,      \* every other owner of a note or a leaf
    NoteOwners,    \* who receives notes of the pool
    LeafOwners,    \* whose leaves enter the ASP membership tree
    KeyOwners,     \* who registers public keys
    BadOutputs,    \* sets of accounts for which deriving from an output fails
    OddKinds,      \* which odd events there are, see the chain
    Askers,        \* accounts that transact
    PageSize,      \* PAGE_SIZE of the indexer (300)
    MaxPages,      \* MAX_PAGES_PER_ROUND (10)
    FetchLimit,    \* FETCH_LIMIT of the processor (50)
    AccountChunk,  \* ACCOUNT_CHUNK of the note scan (4)
    MaxEvents,     \* bound: events the chain emits
    MaxLedger,     \* bound: ledgers that close
    MaxOdd,        \* bound: odd events
    MaxFaults      \* bound: crashes, failed rounds, cursor resets, a lost listener

ASSUME LimitsArePositive ==
    /\ {PageSize, MaxPages, FetchLimit, AccountChunk, MaxLedger} \subseteq Nat \ {0}
    /\ {MaxEvents, MaxOdd, MaxFaults} \subseteq Nat

ASSUME OwnersAreKnown ==
    /\ Stranger \notin Accounts
    /\ NoteOwners \cup LeafOwners \cup KeyOwners \subseteq Accounts \cup {Stranger}
    /\ Askers \subseteq Accounts
    /\ BadOutputs \subseteq SUBSET Accounts

VARIABLES
    chain,      \* contract events, in order: [ledger, kind, arg, twin, fails]
    tip,        \* the last closed ledger; events of ledger tip + 1 are pending
    raw,        \* raw_contract_events
    meta,       \* indexing_metadata: [cursor, indexed, fully]
    nullId,     \* pool_nullifiers: event |-> row id
    commitId,   \* pool_commitments: event |-> row id
    keyRows,    \* public_keys
    leafRows,   \* asp_membership_leaves
    accounts,   \* accounts with keypairs, by id
    scanned,    \* account_commitment_scan: last_commitment_id
    reconciled, \* nullifier_scan_state: last_nullifier_id
    notes,      \* user_notes: [acct, pos, spent]
    idx,        \* the indexer's round: [pc, cursor, start, pages, resp]
    kicked,     \* a message waits in the channel (one stands for any number)
    proc,       \* the processor's iteration
    client,     \* the transaction request: [pc, req]
    faults

ledgerVars == <<chain, tip>>
indexVars == <<raw, meta>>
rowVars == <<nullId, commitId, keyRows, leafRows>>
noteVars == <<accounts, scanned, reconciled, notes>>
vars == <<ledgerVars, indexVars, rowVars, noteVars, idx, kicked, proc, client, faults>>

MinOf(S) == CHOOSE x \in S : \A y \in S : x <= y
MaxOf(S) == CHOOSE x \in S : \A y \in S : y <= x

\* The first n elements of a set of numbers.
FirstN(S, n) == {p \in S : Cardinality({q \in S : q < p}) < n}

Positions == 1 .. Len(chain)
OfKind(S, kind) == {p \in S : chain[p].kind = kind}
Visible == {p \in Positions : chain[p].ledger <= tip}

(***************************************************************************)
(* The chain.  A pool transaction emits its nullifiers before its outputs. *)
(* arg is the event a nullifier spends, 0 for a dummy input, or the owner  *)
(* of a leaf or key, or the account whose derivation of an output yields a *)
(* note.  The pool takes any bytes as an encrypted output and any          *)
(* commitment, so there are odd events: an output from which the accounts  *)
(* in fails cannot derive (an error, not a note of somebody else), an      *)
(* output whose commitment is that of the event twin, and an event this    *)
(* version of the wallet cannot parse or does not handle.                  *)
(***************************************************************************)
Nullified(p) == \E q \in OfKind(Positions, "nullifier") : chain[q].arg = p

Event(kind, arg) ==
    [ledger |-> tip + 1, kind |-> kind, arg |-> arg, twin |-> 0, fails |-> {}]

Emit(events) ==
    /\ Len(chain) + Len(events) <= MaxEvents
    /\ tip < MaxLedger
    /\ chain' = chain \o events
    /\ UNCHANGED <<tip, indexVars, rowVars, noteVars, idx, kicked, proc, client, faults>>

PoolEmits(input, output) ==
    /\ input # 0 => ~Nullified(input)
    /\ Emit(<<Event("nullifier", input), output>>)

PoolTransact(input, owner) == PoolEmits(input, Event("commitment", owner))

OddEvents ==
    {p \in Positions : chain[p].kind = "other" \/ chain[p].twin # 0 \/ chain[p].fails # {}}

Odd(kind) == kind \in OddKinds /\ Cardinality(OddEvents) < MaxOdd

\* Too short, or with a plaintext of the wrong length or form.
MalformedOutput(input, victims) ==
    /\ Odd("malformed")
    /\ PoolEmits(input, [Event("commitment", Stranger) EXCEPT !.fails = victims])

RepeatedCommitment(input, p) ==
    /\ Odd("repeated")
    /\ chain[p].twin = 0
    /\ \E owner \in {chain[p].arg, Stranger} :
           PoolEmits(input, [Event("commitment", owner) EXCEPT !.twin = p])

UnhandledEvent == Odd("unhandled") /\ Emit(<<Event("other", 0)>>)

AspInsertLeaf(owner) == Emit(<<Event("leaf", owner)>>)

RegisterKey(owner) == Emit(<<Event("key", owner)>>)

CloseLedger ==
    /\ tip < MaxLedger
    /\ tip' = tip + 1
    /\ UNCHANGED <<chain, indexVars, rowVars, noteVars, idx, kicked, proc, client, faults>>

(***************************************************************************)
(* The indexer: fetch_contract_events.  A cursor is the position up to     *)
(* which the RPC node has been read; -1 is the cleared cursor, in which    *)
(* case the page starts with the ledger last indexed, that one included.   *)
(***************************************************************************)
NoCursor == -1
NoPage == [events |-> {}, latest |-> 0]
IdleRound == [pc |-> "idle", cursor |-> NoCursor, start |-> 0, pages |-> 0, resp |-> NoPage]
Busy == proc.pc \notin {"idle", "yield"}

\* No metadata row exists until the first progress is saved; the deployment
\* ledger, 1, is then the start.
StartLedger == IF meta.indexed = 0 THEN 1 ELSE meta.indexed

StartRound ==
    /\ idx.pc = "idle"
    /\ ~Busy
    /\ idx' = [pc |-> "page", cursor |-> meta.cursor, start |-> StartLedger,
               pages |-> MaxPages, resp |-> NoPage]
    /\ UNCHANGED <<ledgerVars, indexVars, rowVars, noteVars, kicked, proc, client, faults>>

\* What getEvents of the RPC node answers: at most PageSize events, and the
\* position reached.
RpcEvents(cursor, start) ==
    FirstN({p \in Visible : IF cursor = NoCursor THEN chain[p].ledger >= start
                                                 ELSE p > cursor}, PageSize)

RpcCursor(events) ==
    IF Cardinality(events) = PageSize THEN MaxOf(events) ELSE Cardinality(Visible)

FetchPage ==
    /\ idx.pc = "page"
    /\ LET events == RpcEvents(idx.cursor, idx.start)
       IN  idx' = [idx EXCEPT !.pc = "save", !.cursor = RpcCursor(events),
                              !.resp = [events |-> events, latest |-> tip]]
    /\ UNCHANGED <<ledgerVars, indexVars, rowVars, noteVars, kicked, proc, client, faults>>

\* Mutant: the message to the processor is dropped.
KickProcessorLost == UNCHANGED kicked

KickProcessor == kicked' = TRUE

SaveEventsBatch ==
    /\ idx.pc = "save"
    /\ ~Busy
    /\ raw' = raw \cup idx.resp.events
    /\ KickProcessor
    /\ idx' = [idx EXCEPT !.pc = "progress"]
    /\ UNCHANGED <<ledgerVars, meta, rowVars, noteVars, proc, client, faults>>

\* The highest ledger a page reached.
ProgressLedger(page) ==
    IF page.events = {} THEN page.latest ELSE MaxOf({chain[p].ledger : p \in page.events})

\* Only an empty page proves that everything up to the node's latest ledger is
\* stored.
FullyIndexed(page) == IF page.events = {} THEN ProgressLedger(page) ELSE meta.fully

\* An empty page, or the last page allowed, ends the round.
SaveSyncProgress ==
    /\ idx.pc = "progress"
    /\ ~Busy
    /\ LET more == idx.resp.events # {} /\ idx.pages > 1
       IN  /\ meta' = [cursor |-> idx.cursor, indexed |-> ProgressLedger(idx.resp),
                       fully |-> FullyIndexed(idx.resp)]
           /\ idx' = IF more THEN [idx EXCEPT !.pc = "page", !.pages = @ - 1, !.resp = NoPage]
                             ELSE IdleRound
    /\ UNCHANGED <<ledgerVars, raw, rowVars, noteVars, kicked, proc, client, faults>>

\* A failed RPC call or a timed-out storage request ends the round; the
\* listener starts another.
AbortRound ==
    /\ idx.pc \notin {"idle", "stopped"}
    /\ faults < MaxFaults
    /\ faults' = faults + 1
    /\ idx' = IdleRound
    /\ UNCHANGED <<ledgerVars, indexVars, rowVars, noteVars, kicked, proc, client>>

\* The listener changes between the wallet's RPC node and a bootnode.
ClearIndexingCursors ==
    /\ idx.pc = "idle"
    /\ ~Busy
    /\ faults < MaxFaults
    /\ faults' = faults + 1
    /\ meta' = [meta EXCEPT !.cursor = NoCursor]
    /\ UNCHANGED <<ledgerVars, raw, rowVars, noteVars, idx, kicked, proc, client>>

\* The listener's task returns for good; only a new session starts another.
ListenerReturns ==
    /\ idx.pc = "idle"
    /\ faults < MaxFaults
    /\ faults' = faults + 1
    /\ idx' = [IdleRound EXCEPT !.pc = "stopped"]
    /\ UNCHANGED <<ledgerVars, indexVars, rowVars, noteVars, kicked, proc, client>>

(***************************************************************************)
(* The processor: process_until_empty.  One iteration reads the first raw  *)
(* events that have no row yet, saves their rows table by table, each      *)
(* table in a transaction of its own, then scans new commitments for notes *)
(* and reconciles new nullifiers with the notes.                           *)
(***************************************************************************)
Processed == DOMAIN nullId \cup DOMAIN commitId \cup keyRows \cup leafRows

IdleProc == [pc |-> "idle", batch |-> {}, did |-> FALSE,
             marks |-> [a \in Accounts |-> 0], quota |-> 0, turn |-> 0, moved |-> FALSE]

UnprocessedEvents == FirstN(raw \ Processed, FetchLimit)

BeginIteration ==
    /\ \/ proc.pc = "idle" /\ kicked /\ kicked' = FALSE
       \/ proc.pc = "yield" /\ UNCHANGED kicked
    /\ LET batch == UnprocessedEvents
       IN  proc' = [IdleProc EXCEPT !.pc = IF batch = {} THEN "notes" ELSE "nullifiers",
                                    !.batch = batch, !.did = batch # {}]
    /\ UNCHANGED <<ledgerVars, indexVars, rowVars, noteVars, idx, client, faults>>

\* Mutant: row ids start at zero, the value of a fresh scan mark.
WithRowsFromZero(ids, S) ==
    [p \in DOMAIN ids \cup S |->
        IF p \in DOMAIN ids THEN ids[p]
        ELSE Cardinality(DOMAIN ids) + Cardinality({q \in S \ DOMAIN ids : q > p})]

\* Rows get ids in the order of insertion, which is the reverse of the batch:
\* process_events pops the events off its end.
WithRows(ids, S) ==
    [p \in DOMAIN ids \cup S |->
        IF p \in DOMAIN ids THEN ids[p]
        ELSE Cardinality(DOMAIN ids) + Cardinality({q \in S \ DOMAIN ids : q >= p})]

SaveNullifierEvents ==
    /\ proc.pc = "nullifiers"
    /\ nullId' = WithRows(nullId, OfKind(proc.batch, "nullifier"))
    /\ proc' = [proc EXCEPT !.pc = "commitments"]
    /\ UNCHANGED <<ledgerVars, indexVars, commitId, keyRows, leafRows, noteVars, idx,
                   kicked, client, faults>>

Commitment(p) == IF chain[p].twin = 0 THEN p ELSE chain[p].twin

\* A commitment gets one row: that of an earlier batch, or of its last event in
\* this one.
Accepted(S) ==
    {p \in S : \A q \in DOMAIN commitId \cup {r \in S : r > p} :
                   Commitment(q) # Commitment(p)}

SaveCommitmentEvents ==
    /\ proc.pc = "commitments"
    /\ commitId' = WithRows(commitId, Accepted(OfKind(proc.batch, "commitment")))
    /\ proc' = [proc EXCEPT !.pc = "keys"]
    /\ UNCHANGED <<ledgerVars, indexVars, nullId, keyRows, leafRows, noteVars, idx,
                   kicked, client, faults>>

SavePublicKeyEvents ==
    /\ proc.pc = "keys"
    /\ keyRows' = keyRows \cup OfKind(proc.batch, "key")
    /\ proc' = [proc EXCEPT !.pc = "leaves"]
    /\ UNCHANGED <<ledgerVars, indexVars, nullId, commitId, leafRows, noteVars, idx,
                   kicked, client, faults>>

SaveLeafAddedEvents ==
    /\ proc.pc = "leaves"
    /\ leafRows' = leafRows \cup OfKind(proc.batch, "leaf")
    /\ proc' = [proc EXCEPT !.pc = "notes", !.batch = {}]
    /\ UNCHANGED <<ledgerVars, indexVars, nullId, commitId, keyRows, noteVars, idx,
                   kicked, client, faults>>

(***************************************************************************)
(* scan_commitments_for_user_notes, one transaction: the accounts take     *)
(* turns, each advancing its mark by at most AccountChunk rows, until the  *)
(* quota is used up or a whole cycle finds nothing.  derive yields the     *)
(* non-zero notes encrypted to the account.  Where it fails, the error     *)
(* rolls the scan back and ends process_until_empty before the nullifiers  *)
(* are reconciled, and the next message finds the same row again.          *)
(***************************************************************************)
CommitCount == Cardinality(DOMAIN commitId)

BeginScan ==
    /\ proc.pc = "notes"
    /\ proc' = IF accounts = <<>> \/ CommitCount = 0
               THEN [proc EXCEPT !.pc = "reconcile"]
               ELSE [proc EXCEPT !.pc = "scan", !.marks = scanned, !.quota = FetchLimit,
                                 !.turn = 1]
    /\ UNCHANGED <<ledgerVars, indexVars, rowVars, noteVars, idx, kicked, client, faults>>

ChunkSize(a) == MinOf({proc.quota, AccountChunk, CommitCount - proc.marks[a]})

DeriveFails ==
    LET a == accounts[proc.turn]
    IN  \E p \in DOMAIN commitId : /\ a \in chain[p].fails
                                   /\ proc.marks[a] < commitId[p]
                                   /\ commitId[p] <= proc.marks[a] + ChunkSize(a)

ScanAborts ==
    /\ proc.pc = "scan"
    /\ DeriveFails
    /\ proc' = IdleProc
    /\ UNCHANGED <<ledgerVars, indexVars, rowVars, noteVars, idx, kicked, client, faults>>

ScanChunk ==
    /\ proc.pc = "scan"
    /\ ~DeriveFails
    /\ LET a == accounts[proc.turn]
           n == ChunkSize(a)
           last == proc.turn = Len(accounts)
           moved == proc.moved \/ n > 0
           over == proc.quota = n \/ (last /\ ~moved)
       IN  proc' = [proc EXCEPT !.pc = IF over THEN "commit" ELSE "scan",
                                !.marks[a] = @ + n,
                                !.quota = @ - n,
                                !.did = @ \/ n > 0,
                                !.turn = IF last THEN 1 ELSE @ + 1,
                                !.moved = moved /\ ~last]
    /\ UNCHANGED <<ledgerVars, indexVars, rowVars, noteVars, idx, kicked, client, faults>>

NullifierRowOf(p) == {q \in DOMAIN nullId : chain[q].arg = p}

\* Mutant: a note is always recorded as unspent.
SpendOfNone(p) == 0

SpendOf(p) == IF NullifierRowOf(p) = {} THEN 0 ELSE MinOf(NullifierRowOf(p))

DerivedNotes(a) ==
    {[acct |-> a, pos |-> p, spent |-> SpendOf(p)] :
        p \in {q \in DOMAIN commitId : /\ scanned[a] < commitId[q]
                                       /\ commitId[q] <= proc.marks[a]
                                       /\ chain[q].arg = a}}

ScanCommit ==
    /\ proc.pc = "commit"
    /\ scanned' = proc.marks
    /\ notes' = notes \cup UNION {DerivedNotes(a) : a \in Accounts}
    /\ proc' = [proc EXCEPT !.pc = "reconcile"]
    /\ UNCHANGED <<ledgerVars, indexVars, rowVars, accounts, reconciled, idx, kicked,
                   client, faults>>

ReconcileRows ==
    {q \in DOMAIN nullId : nullId[q] > reconciled /\ nullId[q] <= reconciled + FetchLimit}

\* Mutant: the mark moves by the limit, not to the last row read.
ReconcileMarkByLimit ==
    IF ReconcileRows = {} THEN reconciled ELSE reconciled + FetchLimit

ReconcileMark == reconciled + Cardinality(ReconcileRows)

\* Mutant: raw events and scanned commitments do not count as work.
DidWorkReconcileOnly == ReconcileRows # {}

DidWork == proc.did \/ ReconcileRows # {}

\* Marks the notes spent by the next FetchLimit nullifiers; the loop ends with
\* the first iteration that finds nothing to do.
ReconcileNullifiers ==
    /\ proc.pc = "reconcile"
    /\ LET Spends(n) == {q \in ReconcileRows : chain[q].arg = n.pos}
       IN  /\ notes' = {IF n.spent = 0 /\ Spends(n) # {}
                          THEN [n EXCEPT !.spent = MinOf(Spends(n))] ELSE n : n \in notes}
           /\ reconciled' = ReconcileMark
           /\ proc' = [IdleProc EXCEPT !.pc = IF DidWork THEN "yield" ELSE "idle"]
    /\ UNCHANGED <<ledgerVars, indexVars, rowVars, accounts, scanned, idx, kicked, client,
                   faults>>

\* Keys are derived from the wallet's signature, so saving them again changes
\* nothing that is read back.
SaveUserKeys(a) ==
    /\ ~Busy
    /\ accounts' = IF \E i \in DOMAIN accounts : accounts[i] = a THEN accounts
                                                               ELSE Append(accounts, a)
    /\ KickProcessor
    /\ UNCHANGED <<ledgerVars, indexVars, rowVars, scanned, reconciled, notes, idx, proc,
                   client, faults>>

(***************************************************************************)
(* A transaction of account acct that spends the note input (0: a deposit, *)
(* which spends none).  The client reads the chain's state at the latest   *)
(* ledger, then asks the storage worker for the proof inputs; it repeats   *)
(* both while the answer is SyncRequired.                                  *)
(***************************************************************************)
IdleClient == [pc |-> "idle", acct |-> Stranger, input |-> 0, ledger |-> 0,
               asp |-> {}, pool |-> {}]

UnspentNotes(a) == {n \in notes : n.acct = a /\ n.spent = 0}

Plan(a, input) ==
    /\ client.pc \notin {"fetch", "ask"}
    /\ ~Busy
    /\ \E i \in DOMAIN accounts : accounts[i] = a
    /\ input # 0 => \E n \in UnspentNotes(a) : n.pos = input
    /\ client' = [IdleClient EXCEPT !.pc = "fetch", !.acct = a, !.input = input]
    /\ UNCHANGED <<ledgerVars, indexVars, rowVars, noteVars, idx, kicked, proc, faults>>

FetchChainState ==
    /\ client.pc = "fetch"
    /\ client' = [client EXCEPT !.pc = "ask", !.ledger = tip,
                                !.asp = OfKind(Visible, "leaf"),
                                !.pool = OfKind(Visible, "commitment")]
    /\ UNCHANGED <<ledgerVars, indexVars, rowVars, noteVars, idx, kicked, proc, faults>>

\* Leaf indices are positions in the order of the events of a kind; a table
\* whose indices are not 0, 1, ... is refused when its leaves are read.
HasGap(rows, kind) == \E p \in rows : \E q \in OfKind(1 .. p, kind) : q \notin rows

\* Mutant: the root of the last leaf is taken as the one before its insertion.
AspMembershipSyncStale(req) ==
    LET last == MaxOf(leafRows)
    IN  IF meta.indexed = 0 \/ req.ledger > meta.fully THEN "fetch"
        ELSE IF req.ledger < meta.fully THEN "error"
        ELSE IF leafRows = {} THEN "register"
        ELSE IF req.asp # OfKind(1 .. last - 1, "leaf")
             THEN IF chain[last].ledger < req.ledger THEN "fetch" ELSE "error"
        ELSE IF \A p \in leafRows : chain[p].arg # req.acct THEN "register"
        ELSE IF HasGap(leafRows, "leaf") THEN "error" ELSE "params"

\* check_asp_membership_precondition.  The root stored with a leaf is the one
\* after its insertion.
AspMembershipSync(req) ==
    LET last == MaxOf(leafRows)
    IN  IF meta.indexed = 0 \/ req.ledger > meta.fully THEN "fetch"
        ELSE IF req.ledger < meta.fully THEN "error"
        ELSE IF leafRows = {} THEN "register"
        ELSE IF req.asp # OfKind(1 .. last, "leaf")
             THEN IF chain[last].ledger < req.ledger THEN "fetch" ELSE "error"
        ELSE IF \A p \in leafRows : chain[p].arg # req.acct THEN "register"
        ELSE IF HasGap(leafRows, "leaf") THEN "error" ELSE "params"

\* Mutant: the number of local commitments is not compared with the chain's.
PoolInputsUncounted(req) ==
    IF req.input # 0 /\ \A n \in UnspentNotes(req.acct) : n.pos # req.input
    THEN "fetch" ELSE "params"

\* build_pool_inputs and build_validated_pool_tree.
PoolInputs(req) ==
    LET rows == DOMAIN commitId
    IN  IF req.input = 0 THEN "params"
        ELSE IF HasGap(rows, "commitment") THEN "error"
        ELSE IF Cardinality(rows) # Cardinality(req.pool) THEN "fetch"
        ELSE IF rows # req.pool THEN "error"
        ELSE IF \A n \in UnspentNotes(req.acct) : n.pos # req.input THEN "fetch"
        ELSE "params"

\* The worker's answer, as the state the client enters: SyncRequired sends it
\* back to read the chain again.
TransactAnswer(req) ==
    IF AspMembershipSync(req) = "params" THEN PoolInputs(req) ELSE AspMembershipSync(req)

Transact ==
    /\ client.pc = "ask"
    /\ ~Busy
    /\ client' = [client EXCEPT !.pc = TransactAnswer(client)]
    /\ UNCHANGED <<ledgerVars, indexVars, rowVars, noteVars, idx, kicked, proc, faults>>

\* The tab dies and is opened again: tables stay, every task starts afresh and
\* the first ping wakes the processor.
Restart ==
    /\ faults < MaxFaults
    /\ faults' = faults + 1
    /\ idx' = IdleRound
    /\ proc' = IdleProc
    /\ client' = IdleClient
    /\ KickProcessor
    /\ UNCHANGED <<ledgerVars, indexVars, rowVars, noteVars>>

Init ==
    /\ chain = <<>>
    /\ tip = 1
    /\ raw = {}
    /\ meta = [cursor |-> NoCursor, indexed |-> 0, fully |-> 0]
    /\ nullId = [p \in {} |-> 0]
    /\ commitId = [p \in {} |-> 0]
    /\ keyRows = {}
    /\ leafRows = {}
    /\ accounts = <<>>
    /\ scanned = [a \in Accounts |-> 0]
    /\ reconciled = 0
    /\ notes = {}
    /\ idx = IdleRound
    /\ kicked = FALSE
    /\ proc = IdleProc
    /\ client = IdleClient
    /\ faults = 0

Owners == Accounts \cup {Stranger}

Environment ==
    \/ \E input \in {0} \cup OfKind(Positions, "commitment"), o \in NoteOwners :
           PoolTransact(input, o)
    \/ \E input \in {0} \cup OfKind(Positions, "commitment"), victims \in BadOutputs :
           MalformedOutput(input, victims)
    \/ \E input \in {0} \cup OfKind(Positions, "commitment"),
          p \in OfKind(Positions, "commitment") : RepeatedCommitment(input, p)
    \/ UnhandledEvent
    \/ \E o \in LeafOwners : AspInsertLeaf(o)
    \/ \E o \in KeyOwners : RegisterKey(o)
    \/ CloseLedger

Indexer == StartRound \/ FetchPage \/ SaveEventsBatch \/ SaveSyncProgress

Processor ==
    \/ BeginIteration
    \/ SaveNullifierEvents
    \/ SaveCommitmentEvents
    \/ SavePublicKeyEvents
    \/ SaveLeafAddedEvents
    \/ BeginScan
    \/ ScanChunk
    \/ ScanAborts
    \/ ScanCommit
    \/ ReconcileNullifiers

Client ==
    \/ \E a \in Accounts : SaveUserKeys(a)
    \/ \E a \in Askers, input \in {0} \cup {n.pos : n \in notes} : Plan(a, input)
    \/ FetchChainState
    \/ Transact

Faults == AbortRound \/ ClearIndexingCursors \/ ListenerReturns \/ Restart

Next == Environment \/ Indexer \/ Processor \/ Client \/ Faults

Spec == Init /\ [][Next]_vars

\* The listener starts a round every five seconds and the processor runs
\* whenever it is kicked; both are tasks of an event loop that runs every
\* ready task.  The indexer's requests wait in the worker's queue while an
\* iteration holds the worker and are served between two iterations, however
\* often it is held: strong fairness.
FairSpec == Spec /\ SF_vars(Indexer) /\ WF_vars(Processor)

-----------------------------------------------------------------------------
(* Properties *)

TypeOK ==
    /\ chain \in Seq([ledger : 2 .. MaxLedger + 1,
                      kind : {"nullifier", "commitment", "leaf", "key", "other"},
                      arg : Owners \cup 0 .. MaxEvents, twin : 0 .. MaxEvents,
                      fails : SUBSET Accounts])
    /\ tip \in 1 .. MaxLedger
    /\ raw \subseteq Positions
    /\ meta \in [cursor : {NoCursor} \cup 0 .. MaxEvents, indexed : 0 .. MaxLedger,
                 fully : 0 .. MaxLedger]
    /\ DOMAIN nullId \subseteq raw /\ nullId \in [DOMAIN nullId -> 1 .. MaxEvents]
    /\ DOMAIN commitId \subseteq raw /\ commitId \in [DOMAIN commitId -> 1 .. MaxEvents]
    /\ keyRows \subseteq raw /\ leafRows \subseteq raw
    /\ scanned \in [Accounts -> 0 .. MaxEvents]
    /\ reconciled \in 0 .. MaxEvents
    /\ notes \subseteq [acct : Accounts, pos : 1 .. MaxEvents, spent : 0 .. MaxEvents]
    /\ idx.pc \in {"idle", "page", "save", "progress", "stopped"}
    /\ kicked \in BOOLEAN
    /\ proc.pc \in {"idle", "nullifiers", "commitments", "keys", "leaves", "notes", "scan",
                    "commit", "reconcile", "yield"}
    /\ client.pc \in {"idle", "fetch", "ask", "params", "register", "error"}
    /\ faults \in 0 .. MaxFaults

\* An account with keys cannot derive from a stored output: its scan stops at
\* that row for ever.
Blocked == \E i \in DOMAIN accounts, p \in DOMAIN commitId : accounts[i] \in chain[p].fails

\* The row of this commitment belongs to another event.
Refused(p) == /\ p \in OfKind(Positions, "commitment") \ DOMAIN commitId
              /\ \E q \in DOMAIN commitId : Commitment(q) = Commitment(p)

\* Raw events that stay unprocessed; the processor takes them up again in every
\* batch.
Dead == {p \in raw \ Processed : chain[p].kind = "other" \/ Refused(p)}
Clogged == Cardinality(Dead) >= FetchLimit

Stopped == idx.pc = "stopped"

\* last_fully_indexed_ledger never overstates: every event of a ledger up to
\* it is stored, whatever crashed, failed or was replayed on the way.  The
\* precondition for proving at the tip rests on this.
FullyIndexedComplete ==
    \A p \in Positions : chain[p].ledger <= meta.fully => p \in raw

\* The leaf tables hold the chain's first leaves and no later one without the
\* earlier ones, although a batch may be cut anywhere and a crash may lose the
\* second half of an iteration.  Only the second event of a commitment leaves
\* its index empty.
LeavesGapFree ==
    /\ \A p \in DOMAIN commitId : \A q \in OfKind(1 .. p, "commitment") :
           q \in DOMAIN commitId \/ Refused(q)
    /\ ~HasGap(leafRows, "leaf")

\* A note below its owner's scan mark is recorded: the scan never steps over a
\* commitment it could have decrypted.
NoLostNote ==
    \A a \in Accounts, p \in DOMAIN commitId :
        chain[p].arg = a /\ commitId[p] <= scanned[a] =>
            \E n \in notes : n.acct = a /\ n.pos = p

\* Nor does it step over an output from which it failed to derive: a wallet
\* that can derive from it later still will.
NoSkippedOutput ==
    \A p \in DOMAIN commitId : \A a \in chain[p].fails : commitId[p] > scanned[a]

\* A note that looks unspent although its nullifier is stored is still ahead
\* of the reconciliation mark, so it will be marked: the scan's lookup and the
\* reconciliation leave no gap between them.
NoLostSpend ==
    \A n \in notes : n.spent = 0 =>
        \A q \in NullifierRowOf(n.pos) : nullId[q] > reconciled

\* When the processor has gone idle with no message waiting, either a scan
\* cannot pass an output or nothing is left to do: every stored event is
\* processed, every note of every account is known, and exactly the spent ones
\* are marked.
DrainedMirrors ==
    proc.pc = "idle" /\ ~kicked /\ ~Blocked =>
        /\ raw = Processed
        /\ \A i \in DOMAIN accounts, p \in OfKind(raw, "commitment") :
              chain[p].arg = accounts[i] =>
                  \E n \in notes : /\ n.acct = accounts[i] /\ n.pos = p
                                   /\ (n.spent # 0) = (NullifierRowOf(p) # {})

\* Proof inputs are built from a note that was spent on the chain, at the
\* ledger the request was made for, only while the stored nullifier waits for
\* reconciliation after a crash or behind a scan that cannot pass an output.
\* Otherwise a matching number of commitments means that the nullifiers before
\* them are reconciled too.
OfferedNotesUnspent ==
    [][Transact /\ client'.pc = "params" /\ client.input # 0 =>
        \A q \in OfKind(Positions, "nullifier") :
            chain[q].arg = client.input =>
                \/ chain[q].ledger > client.ledger
                \/ /\ faults > 0 \/ Blocked
                   /\ q \in DOMAIN nullId /\ nullId[q] > reconciled]_vars

\* An error answer to the client never comes from tables that disagree with
\* the chain for no reason: the store has moved past the ledger the request was
\* made for, the processor still has events to process, or the second event of
\* a commitment has left an index empty.  The last is for ever, and so is the
\* one before it once dead events fill every batch.
ErrorsExplained ==
    [][Transact /\ client'.pc = "error" =>
        \/ client.ledger < meta.fully
        \/ \E p \in raw : chain[p].ledger > client.ledger
        \/ raw \ Processed # Dead
        \/ \E p \in raw : Refused(p)]_vars

\* Every stored event reaches its table, whatever becomes of the scan after it:
\* each page saved wakes the processor, which first takes up a batch.
EventsEventuallyProcessed ==
    \A p \in 1 .. MaxEvents :
        p \in Visible ~> p \in Processed \cup Dead \/ Clogged \/ []Stopped

\* Every note of an account with keys is found once its ledger has closed,
\* and every spend of it is marked, unless a scan cannot pass an output, the
\* commitment was there before, dead events fill every batch, or the listener
\* is gone.
NotesEventuallyKnown ==
    \A p \in 1 .. MaxEvents, a \in Accounts :
        (/\ p \in OfKind(Visible, "commitment") /\ chain[p].arg = a
         /\ \E i \in DOMAIN accounts : accounts[i] = a)
        ~> \/ \E n \in notes : n.acct = a /\ n.pos = p
           \/ Blocked \/ Refused(p) \/ Clogged
           \/ []Stopped

SpendsEventuallyMarked ==
    \A q \in 1 .. MaxEvents, a \in Accounts :
        (/\ q \in OfKind(Visible, "nullifier")
         /\ \E n \in notes : n.acct = a /\ n.pos = chain[q].arg)
        ~> \/ \E n \in notes : n.acct = a /\ n.spent = q
           \/ Blocked \/ Clogged
           \/ []Stopped

\* What the chain shows reaches the tables: its events the rows, and its notes
\* the account they are for.
EventuallyMirrored == EventsEventuallyProcessed /\ NotesEventuallyKnown

\* The local tables are a true image of a prefix of the chain: progress is not
\* overstated, leaves have no gap, and an idle processor has left nothing that
\* it can do.
MirrorSound == FullyIndexedComplete /\ LeavesGapFree /\ DrainedMirrors

\* No note, no output and no spend of the user is passed over, on whichever
\* path it is learned.
NothingLost == NoLostNote /\ NoSkippedOutput /\ NoLostSpend
=============================================================================
