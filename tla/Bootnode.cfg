SPECIFICATION FairSpec
CONSTANTS
    WalletRetention = 2
    UpstreamRetention = 9
    CutoffLedgers = 1
    PageSize = 2
    MaxPages = 2
    MaxEvents = 2
    MaxLedger = 4
    MaxCrashes = 1
    MaxReloads = 1
INVARIANTS ArchiveSound NoSkippedEvents
PROPERTIES
    ArchivePhaseEnds
    MainPhaseSyncs
CHECK_DEADLOCK FALSE
