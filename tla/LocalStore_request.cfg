SPECIFICATION Spec
CONSTANTS
    Accounts = {alice}
    Stranger = stranger
    NoteOwners = {alice}
    LeafOwners = {alice}
    KeyOwners = {}
    BadOutputs = {{alice}}
    OddKinds = {"malformed", "repeated"}
    Askers = {alice}
    PageSize = 5
    MaxPages = 1
    FetchLimit = 4
    AccountChunk = 4
    MaxEvents = 5
    MaxLedger = 3
    MaxOdd = 1
    MaxFaults = 0
PROPERTIES OfferedNotesUnspent ErrorsExplained
