SPECIFICATION FairSpec
CONSTANTS
    Accounts = {alice}
    Stranger = stranger
    NoteOwners = {alice}
    LeafOwners = {}
    KeyOwners = {stranger}
    BadOutputs = {{alice}}
    OddKinds = {"malformed", "repeated", "unhandled"}
    Askers = {}
    PageSize = 4
    MaxPages = 1
    FetchLimit = 2
    AccountChunk = 1
    MaxEvents = 4
    MaxLedger = 2
    MaxOdd = 1
    MaxFaults = 1
PROPERTIES EventuallyMirrored SpendsEventuallyMarked
