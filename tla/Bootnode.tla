------------------------------ MODULE Bootnode ------------------------------
(***************************************************************************)
(* Event history beyond the retention of an RPC node: the bootnode that    *)
(* archives pages of contract events, and the wallet's events listener,    *)
(* which starts on its own RPC node, falls back to the bootnode when that  *)
(* node no longer has the history, and returns after the handoff.          *)
(*                                                                         *)
(* An event is its position in the chain, and chain[p] is its ledger.  A   *)
(* cursor is the ledger and the position up to which a node has been read. *)
(* The deployment ledger is 1.  What the wallet stores of an event, and    *)
(* its crashes between two storage requests, are the subject of LocalStore.*)
(***************************************************************************)
EXTENDS Integers, Sequences, FiniteSets

CONSTANTS
    WalletRetention,    \* ledgers the wallet's RPC node keeps
    UpstreamRetention,  \* ledgers the bootnode's upstream node keeps
    CutoffLedgers,      \* cutoff_ledgers: the redirect window
    PageSize,           \* page_size of bootnode and wallet (300)
    MaxPages,           \* max_pages_per_round (10)
    MaxEvents,          \* bound: events of the chain
    MaxLedger,          \* bound: ledgers that close
    MaxCrashes,         \* bound: crashes of the bootnode
    MaxReloads          \* bound: reloads of the wallet and failed requests

ASSUME LimitsArePositive ==
    /\ {WalletRetention, UpstreamRetention, PageSize, MaxPages, MaxLedger} \subseteq Nat \ {0}
    /\ {CutoffLedgers, MaxEvents, MaxCrashes, MaxReloads} \subseteq Nat

VARIABLES
    chain,     \* ledgers of the contracts' events, in order
    tip,       \* the last closed ledger
    kv,        \* indexer_state: [cursor, fully, tip, inSync]
    ledgerTip, \* AppState::ledger_tip, in memory
    pages,     \* get_events_pages: key |-> [events, cursor]
    bn,        \* the bootnode's indexer: [pc, cursor, left, resp]
    lst,       \* the listener: [pc, url, asked, cause]
    meta,      \* indexing_metadata of the wallet: [cursor, indexed]
    stored,    \* events the wallet has
    crashes, reloads

chainVars == <<chain, tip>>
bootVars == <<kv, ledgerTip, pages, bn>>
walletVars == <<lst, meta, stored>>
vars == <<chainVars, bootVars, walletVars, crashes, reloads>>

MaxOf(S) == CHOOSE x \in S : \A y \in S : y <= x
NoCursor == [ledger |-> 0, pos |-> -1]
Deployment == 1

(***************************************************************************)
(* An RPC node that keeps a number of ledgers: getEvents from a ledger or  *)
(* from a cursor.  A page that is not full ends at the node's last ledger, *)
(* so its cursor moves even when no event was found.                       *)
(***************************************************************************)
Oldest(retention) == IF tip > retention THEN tip - retention + 1 ELSE 1

Visible == {p \in 1 .. Len(chain) : chain[p] <= tip}

Readable(retention, cursor, start) ==
    Oldest(retention) <= (IF cursor = NoCursor THEN start ELSE cursor.ledger)

NodeEvents(cursor, start) ==
    LET S == {p \in Visible : IF cursor = NoCursor THEN chain[p] >= start ELSE p > cursor.pos}
    IN  {p \in S : Cardinality({q \in S : q < p}) < PageSize}

NodeCursor(events) ==
    IF Cardinality(events) = PageSize
    THEN [ledger |-> chain[MaxOf(events)], pos |-> MaxOf(events)]
    ELSE [ledger |-> tip, pos |-> Cardinality(Visible)]

NodePage(cursor, start) ==
    LET events == NodeEvents(cursor, start)
    IN  [events |-> events, cursor |-> NodeCursor(events)]

NoPage == [events |-> {}, cursor |-> NoCursor]

Emit ==
    /\ Len(chain) < MaxEvents
    /\ tip < MaxLedger
    /\ chain' = Append(chain, tip + 1)
    /\ UNCHANGED <<tip, bootVars, walletVars, crashes, reloads>>

CloseLedger ==
    /\ tip < MaxLedger
    /\ tip' = tip + 1
    /\ UNCHANGED <<chain, bootVars, walletVars, crashes, reloads>>

(***************************************************************************)
(* The bootnode's indexer: run_round, one step per database statement.     *)
(***************************************************************************)
StartKey(ledger) == <<"start", ledger>>
CursorKey(cursor) == <<"cursor", cursor>>
KeyOf(cursor) == IF cursor = NoCursor THEN StartKey(Deployment) ELSE CursorKey(cursor)

\* The tip is stored in memory and in the database before the cursor is read.
BeginRound ==
    /\ bn.pc = "sleep"
    /\ ledgerTip' = tip
    /\ kv' = [kv EXCEPT !.tip = tip]
    /\ bn' = [pc |-> "fetch", cursor |-> kv.cursor, left |-> MaxPages, resp |-> NoPage]
    /\ UNCHANGED <<chainVars, pages, walletVars, crashes, reloads>>

\* Mutant: a page that is not full counts as caught up.
FetchUpstreamShort ==
    /\ bn.pc = "fetch"
    /\ LET page == NodePage(bn.cursor, Deployment)
       IN  bn' = [bn EXCEPT !.pc = IF Cardinality(page.events) < PageSize THEN "caught_up"
                                                                        ELSE "unsync",
                            !.resp = page]
    /\ UNCHANGED <<chainVars, kv, ledgerTip, pages, walletVars, crashes, reloads>>

\* A request beyond the upstream's window fails, and the round with it.
FetchUpstream ==
    /\ bn.pc = "fetch"
    /\ bn' = IF ~Readable(UpstreamRetention, bn.cursor, Deployment)
             THEN [bn EXCEPT !.pc = "sleep"]
             ELSE LET page == NodePage(bn.cursor, Deployment)
                  IN  [bn EXCEPT !.pc = IF page.events = {} THEN "caught_up" ELSE "unsync",
                                 !.resp = page]
    /\ UNCHANGED <<chainVars, kv, ledgerTip, pages, walletVars, crashes, reloads>>

ClearInSync ==
    /\ bn.pc = "unsync"
    /\ kv' = [kv EXCEPT !.inSync = FALSE]
    /\ bn' = [bn EXCEPT !.pc = "insert"]
    /\ UNCHANGED <<chainVars, ledgerTip, pages, walletVars, crashes, reloads>>

\* A page that is already cached stays as it is.
Inserted(cursor, page) ==
    LET k == KeyOf(cursor)
    IN  [x \in DOMAIN pages \cup {k} |-> IF x \in DOMAIN pages THEN pages[x] ELSE page]

InsertGetEventsPage ==
    /\ bn.pc = "insert"
    /\ pages' = Inserted(bn.cursor, bn.resp)
    /\ bn' = [bn EXCEPT !.pc = "cursor"]
    /\ UNCHANGED <<chainVars, kv, ledgerTip, walletVars, crashes, reloads>>

UpdateCursor ==
    /\ bn.pc = "cursor"
    /\ kv' = [kv EXCEPT !.cursor = bn.resp.cursor]
    /\ bn' = [bn EXCEPT !.pc = IF bn.left > 1 THEN "fetch" ELSE "sleep",
                        !.cursor = bn.resp.cursor, !.left = @ - 1, !.resp = NoPage]
    /\ UNCHANGED <<chainVars, ledgerTip, pages, walletVars, crashes, reloads>>

\* mark_caught_up is three statements.
CaughtUpCursor ==
    /\ bn.pc = "caught_up"
    /\ kv' = [kv EXCEPT !.cursor = bn.resp.cursor]
    /\ bn' = [bn EXCEPT !.pc = "fully"]
    /\ UNCHANGED <<chainVars, ledgerTip, pages, walletVars, crashes, reloads>>

CaughtUpLedger ==
    /\ bn.pc = "fully"
    /\ kv' = [kv EXCEPT !.fully = bn.resp.cursor.ledger]
    /\ bn' = [bn EXCEPT !.pc = "sync"]
    /\ UNCHANGED <<chainVars, ledgerTip, pages, walletVars, crashes, reloads>>

\* Mutant: the flag is never set.
CaughtUpInSyncNever ==
    /\ bn.pc = "sync"
    /\ bn' = [bn EXCEPT !.pc = "sleep", !.resp = NoPage]
    /\ UNCHANGED <<chainVars, kv, ledgerTip, pages, walletVars, crashes, reloads>>

CaughtUpInSync ==
    /\ bn.pc = "sync"
    /\ kv' = [kv EXCEPT !.inSync = TRUE]
    /\ bn' = [bn EXCEPT !.pc = "sleep", !.resp = NoPage]
    /\ UNCHANGED <<chainVars, ledgerTip, pages, walletVars, crashes, reloads>>

\* setup takes the tip from the database.
CrashBootnode ==
    /\ crashes < MaxCrashes
    /\ crashes' = crashes + 1
    /\ ledgerTip' = kv.tip
    /\ bn' = [pc |-> "sleep", cursor |-> NoCursor, left |-> 0, resp |-> NoPage]
    /\ UNCHANGED <<chainVars, kv, pages, walletVars, reloads>>

(***************************************************************************)
(* The bootnode's answer: get_events_handler.  The page is looked up       *)
(* first; only when it is missing does a second query read in_sync.        *)
(***************************************************************************)
Cutoff == IF ledgerTip > CutoffLedgers THEN ledgerTip - CutoffLedgers ELSE 0

\* Whether the last event before a cursor lies in the redirect window.
CursorInWindow(cursor) ==
    \E k \in DOMAIN pages : /\ pages[k].cursor = cursor
                            /\ chain[MaxOf(pages[k].events)] >= Cutoff

InWindow(cursor, start) ==
    /\ ledgerTip > 0
    /\ IF cursor = NoCursor THEN start >= Cutoff ELSE CursorInWindow(cursor)

RequestKey(cursor, start) == IF cursor = NoCursor THEN StartKey(start) ELSE CursorKey(cursor)

\* cache_miss_or_handoff.
MissAnswer == IF ledgerTip > 0 /\ kv.inSync THEN "handoff" ELSE "miss"

(***************************************************************************)
(* The listener.  ClientStart is the ledger a round or a probe begins      *)
(* with, the last one indexed.                                             *)
(***************************************************************************)
\* Mutant: the redirect threshold of the handoff replaces the last ledger.
ClientStartFromLedger ==
    IF meta.indexed = 0 THEN Deployment
    ELSE IF lst.cause = "handoff" /\ Cutoff > meta.indexed THEN Cutoff ELSE meta.indexed

ClientStart == IF meta.indexed = 0 THEN Deployment ELSE meta.indexed

ClearedCursors == [meta EXCEPT !.cursor = NoCursor]

\* fetch_contract_events on a page: the batch and the progress are saved.
Saved(page, latest) ==
    /\ stored' = stored \cup page.events
    /\ meta' = [cursor |-> page.cursor,
                indexed |-> IF page.events = {} THEN latest
                            ELSE MaxOf({chain[p] : p \in page.events})]

WalletServes == Readable(WalletRetention, NoCursor, ClientStart)

\* main_thread: bootnode_check probes the wallet's node and passes on the
\* bootnode only when the probe meets a gap.
BootnodeCheck ==
    /\ lst.pc = "closed"
    /\ lst' = [pc |-> "init", url |-> ~WalletServes, asked |-> FALSE, cause |-> "none"]
    /\ UNCHANGED <<chainVars, bootVars, meta, stored, crashes, reloads>>

InitWallet ==
    /\ lst.pc = "init"
    /\ \/ /\ WalletServes
          /\ lst' = [lst EXCEPT !.pc = "main"]
          /\ UNCHANGED meta
       \/ /\ ~WalletServes /\ ~lst.url
          /\ lst' = [lst EXCEPT !.pc = "stopped", !.cause = "gap"]
          /\ UNCHANGED meta
       \/ /\ ~WalletServes /\ lst.url
          /\ lst' = [lst EXCEPT !.pc = "probe"]
          /\ meta' = ClearedCursors
    /\ UNCHANGED <<chainVars, bootVars, stored, crashes, reloads>>

\* What the listener does with a page of the bootnode: the probe's is dropped.
TakePage(page) ==
    IF lst.pc = "probe"
    THEN /\ lst' = [lst EXCEPT !.pc = "archive", !.asked = FALSE]
         /\ UNCHANGED <<meta, stored>>
    ELSE /\ lst' = [lst EXCEPT !.asked = FALSE]
         /\ Saved(page, page.cursor.ledger)

\* A handoff ends the use of the bootnode; a miss ends the probe, and otherwise
\* is tried again.
TakeError(answer) ==
    /\ \/ /\ answer = "handoff"
          /\ lst' = [lst EXCEPT !.pc = "back", !.asked = FALSE, !.cause = "handoff"]
          /\ meta' = ClearedCursors
       \/ /\ answer = "miss" /\ lst.pc = "probe"
          /\ lst' = [lst EXCEPT !.pc = "stopped", !.asked = FALSE, !.cause = "miss"]
          /\ UNCHANGED meta
       \/ /\ answer = "miss" /\ lst.pc = "archive"
          /\ lst' = [lst EXCEPT !.asked = FALSE]
          /\ UNCHANGED meta
    /\ UNCHANGED stored

AskBootnode ==
    /\ lst.pc \in {"probe", "archive"} /\ ~lst.asked
    /\ LET k == RequestKey(meta.cursor, ClientStart)
       IN  IF InWindow(meta.cursor, ClientStart) THEN TakeError("handoff")
           ELSE IF k \in DOMAIN pages THEN TakePage(pages[k])
           ELSE lst' = [lst EXCEPT !.asked = TRUE] /\ UNCHANGED <<meta, stored>>
    /\ UNCHANGED <<chainVars, bootVars, crashes, reloads>>

BootnodeMisses ==
    /\ lst.asked
    /\ TakeError(MissAnswer)
    /\ UNCHANGED <<chainVars, bootVars, crashes, reloads>>

BackToWallet ==
    /\ lst.pc = "back"
    /\ lst' = IF WalletServes THEN [lst EXCEPT !.pc = "main"]
              ELSE [lst EXCEPT !.pc = "stopped"]
    /\ UNCHANGED <<chainVars, bootVars, meta, stored, crashes, reloads>>

\* Mutant: the round is not repeated once a cursor is known.
FetchWalletOnce ==
    /\ lst.pc = "main"
    /\ meta.cursor = NoCursor
    /\ Readable(WalletRetention, meta.cursor, ClientStart)
    /\ Saved(NodePage(meta.cursor, ClientStart), tip)
    /\ UNCHANGED <<chainVars, bootVars, lst, crashes, reloads>>

\* A round on the wallet's node; one that meets a gap is logged and repeated.
FetchWallet ==
    /\ lst.pc = "main"
    /\ Readable(WalletRetention, meta.cursor, ClientStart)
    /\ Saved(NodePage(meta.cursor, ClientStart), tip)
    /\ UNCHANGED <<chainVars, bootVars, lst, crashes, reloads>>

\* A failed request stops the listener while it initialises; later it is retried.
InitFails ==
    /\ lst.pc \in {"init", "probe", "back"}
    /\ reloads < MaxReloads
    /\ reloads' = reloads + 1
    /\ lst' = [lst EXCEPT !.pc = "stopped", !.asked = FALSE, !.cause = "failure"]
    /\ UNCHANGED <<chainVars, bootVars, meta, stored, crashes>>

Reload ==
    /\ lst.pc # "closed"
    /\ reloads < MaxReloads
    /\ reloads' = reloads + 1
    /\ lst' = [pc |-> "closed", url |-> FALSE, asked |-> FALSE, cause |-> "none"]
    /\ UNCHANGED <<chainVars, bootVars, meta, stored, crashes>>

Init ==
    /\ chain = <<>>
    /\ tip = 1
    /\ kv = [cursor |-> NoCursor, fully |-> 0, tip |-> 0, inSync |-> FALSE]
    /\ ledgerTip = 0
    /\ pages = [k \in {} |-> NoPage]
    /\ bn = [pc |-> "sleep", cursor |-> NoCursor, left |-> 0, resp |-> NoPage]
    /\ lst = [pc |-> "closed", url |-> FALSE, asked |-> FALSE, cause |-> "none"]
    /\ meta = [cursor |-> NoCursor, indexed |-> 0]
    /\ stored = {}
    /\ crashes = 0 /\ reloads = 0

BootnodeIndexer ==
    \/ BeginRound \/ FetchUpstream \/ ClearInSync \/ InsertGetEventsPage \/ UpdateCursor
    \/ CaughtUpCursor \/ CaughtUpLedger \/ CaughtUpInSync

Listener ==
    \/ BootnodeCheck \/ InitWallet \/ AskBootnode \/ BootnodeMisses \/ BackToWallet
    \/ FetchWallet

Next ==
    \/ Emit \/ CloseLedger
    \/ BootnodeIndexer \/ CrashBootnode
    \/ Listener \/ InitFails \/ Reload

Spec == Init /\ [][Next]_vars

\* The bootnode's indexer and the listener's rounds run for ever on a timer.
FairSpec == Spec /\ WF_vars(BootnodeIndexer) /\ WF_vars(Listener)

-----------------------------------------------------------------------------
(***************************************************************************)
(* Properties.                                                             *)
(***************************************************************************)

Cursors == [ledger : 0 .. MaxLedger, pos : -1 .. MaxEvents]
GetEventsResponse == [events : SUBSET (1 .. MaxEvents), cursor : Cursors]
KvState == [cursor : Cursors, fully : 0 .. MaxLedger, tip : 0 .. MaxLedger, inSync : BOOLEAN]
SyncMetadata == [cursor : Cursors, indexed : 0 .. MaxLedger]

\* The state is well typed: pages left never fall below zero, pages hold events,
\* and a reply is awaited only on the bootnode.
TypeOK ==
    /\ chain \in Seq(1 .. MaxLedger) /\ Len(chain) <= MaxEvents
    /\ tip \in 1 .. MaxLedger /\ ledgerTip \in 0 .. tip
    /\ kv \in KvState
    /\ \A k \in DOMAIN pages : pages[k] \in GetEventsResponse /\ pages[k].events # {}
    /\ bn.left \in 0 .. MaxPages /\ bn.resp \in GetEventsResponse /\ bn.cursor \in Cursors
    /\ meta \in SyncMetadata
    /\ stored \subseteq 1 .. Len(chain)
    /\ lst.asked => lst.pc \in {"probe", "archive"}

\* Every cached page is what the upstream node has between the page's key and
\* its cursor, whatever was emitted, cached or lost in a crash in between.
ArchiveFaithful ==
    \A k \in DOMAIN pages :
        pages[k].events = {p \in 1 .. pages[k].cursor.pos :
            IF k[1] = "start" THEN chain[p] >= k[2] ELSE p > k[2].pos}

\* While the bootnode has not crashed, every event up to the ledger it reports
\* as fully indexed is in its archive.  (After a crash between a page's
\* insertion and the cursor's update the page fetched again may be longer, and
\* the insertion keeps the short one.)
ArchiveComplete ==
    crashes = 0 => \A p \in 1 .. Len(chain) :
        chain[p] <= kv.fully => \E k \in DOMAIN pages : p \in pages[k].events

\* The wallet has every event before the ledger and up to the cursor at which
\* it will continue, through any number of changes between the nodes.
NoSkippedEvents ==
    /\ \A p \in 1 .. Len(chain) : chain[p] < meta.indexed => p \in stored
    /\ 1 .. meta.cursor.pos \subseteq stored

\* A wallet on the bootnode is served or handed off in the end, and the archive
\* phase ends.
ArchivePhaseEnds == (lst.pc = "archive") ~> (lst.pc # "archive")

\* A wallet on its own node gets everything in the end, unless it falls behind
\* the node's window.
MainPhaseSyncs ==
    (lst.pc = "main") ~> \/ stored = Visible
                         \/ lst.pc # "main"
                         \/ ~Readable(WalletRetention, meta.cursor, ClientStart)

\* The archive is what the upstream node had: no page differs from it, and no
\* event the bootnode reports as indexed is missing.
ArchiveSound == ArchiveFaithful /\ ArchiveComplete
=============================================================================
