----------------------------- MODULE Directory -----------------------------
(***************************************************************************)
(* The public key registry contract and the wallet's address book: an      *)
(* owner registers a pair of keys, the contract emits an event when they   *)
(* changed, the wallet's indexer stores the events and the book lists one  *)
(* entry per owner.                                                        *)
(***************************************************************************)
EXTENDS Integers, Sequences, FiniteSets, SequencesExt

CONSTANTS
    Owners,         \* accounts that register
    KeyPairs,       \* pairs of an encryption key and a note key
    MaxRegistrations,\* bound on the calls of register
    MaxKeyLedger,   \* bound on the ledgers
    BookLimit       \* entries the page asks for

VARIABLES
    registered, \* Registration: owner -> key pair, or "none"
    keyEvents,  \* PublicKeyEvents of the contract, in order
    keyLedger,  \* the ledger being filled
    publicKeys, \* rows of public_keys with the ledger of their event: a set
    fetched,    \* events the wallet has fetched
    registrations

directoryVars == <<registered, keyEvents, keyLedger, publicKeys, fetched, registrations>>

DirectoryInit ==
    /\ registered = [o \in Owners |-> "none"]
    /\ keyEvents = <<>>
    /\ keyLedger = 1
    /\ publicKeys = {}
    /\ fetched = 0
    /\ registrations = 0

\* An unchanged registration is no event.
KeysChange(owner, keys) == registered[owner] # keys

Register(owner, keys) ==
    /\ registrations < MaxRegistrations
    /\ registrations' = registrations + 1
    /\ IF KeysChange(owner, keys)
       THEN /\ registered' = [registered EXCEPT ![owner] = keys]
            /\ keyEvents' = Append(keyEvents, [owner |-> owner, keys |-> keys, ledger |-> keyLedger])
       ELSE UNCHANGED <<registered, keyEvents>>
    /\ UNCHANGED <<keyLedger, publicKeys, fetched>>

NextLedger ==
    /\ keyLedger < MaxKeyLedger
    /\ keyLedger' = keyLedger + 1
    /\ UNCHANGED <<registered, keyEvents, publicKeys, fetched, registrations>>

\* A page of events; a page may be fetched again after a crash, its rows are
\* then there already.
SavePublicKeyEventsBatch(from, to) ==
    /\ 1 <= from /\ from <= fetched + 1 /\ fetched < to /\ to <= Len(keyEvents)
    /\ publicKeys' = publicKeys \cup
           {[owner |-> keyEvents[i].owner, keys |-> keyEvents[i].keys,
             ledger |-> keyEvents[i].ledger, event |-> i] : i \in from .. to}
    /\ fetched' = to
    /\ UNCHANGED <<registered, keyEvents, keyLedger, registrations>>

DirectoryNext ==
    \/ \E o \in Owners, k \in KeyPairs : Register(o, k)
    \/ NextLedger
    \/ \E from, to \in 1 .. MaxRegistrations : SavePublicKeyEventsBatch(from, to)

DirectorySpec == DirectoryInit /\ [][DirectoryNext]_directoryVars

\* GROUP BY owner with MAX(ledger): the columns beside the maximum come from a
\* row of the maximal ledger, which one is SQLite's choice.
RowsOf(owner) == {r \in publicKeys : r.owner = owner}
\* Mutant: the first registration of the owner.
FirstRows(owner) == {r \in RowsOf(owner) : \A s \in RowsOf(owner) : r.event <= s.event}
EntryRows(owner) == {r \in RowsOf(owner) : \A s \in RowsOf(owner) : s.ledger <= r.ledger}

\* The owners with the newest entries: at most BookLimit of them.
Listed == {o \in Owners :
    /\ RowsOf(o) # {}
    /\ Cardinality({p \in Owners \ {o} :
          RowsOf(p) # {} /\ \A r \in EntryRows(p), s \in EntryRows(o) : r.ledger >= s.ledger})
         < BookLimit}

(***************************************************************************)
(* Properties                                                              *)
(***************************************************************************)
\* The events are all a wallet needs: once it has them, the book shows for
\* every listed owner the keys the contract holds, however often keys were
\* changed and changed back, whatever page was fetched twice; only of keys
\* registered in one ledger it may show any.
BookIsCurrent ==
    fetched = Len(keyEvents) =>
        \A o \in Listed :
            /\ \E r \in EntryRows(o) : r.keys = registered[o]
            /\ Cardinality(EntryRows(o)) = 1 => \A r \in EntryRows(o) : r.keys = registered[o]
=============================================================================
