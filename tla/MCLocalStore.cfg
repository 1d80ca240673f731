SPECIFICATION Spec
CONSTANTS
    Accounts = {alice, bob}
    Stranger = stranger
    NoteOwners = {alice, bob}
    LeafOwners = {}
    KeyOwners = {}
    BadOutputs = {{alice}, {bob}}
    OddKinds = {"malformed", "repeated"}
    Askers = {}
    PageSize = 2
    MaxPages = 2
    FetchLimit = 2
    AccountChunk = 1
    MaxEvents = 4
    MaxLedger = 3
    MaxOdd = 1
    MaxFaults = 1
INVARIANTS TypeOK MirrorSound NothingLost
SYMMETRY AccountSymmetry
