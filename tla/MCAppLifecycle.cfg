CONSTANTS
    Workers = {w1, w2}
    Installs = {i1, i2}
    MaxDownloads = 2
    Phases <- MCPhases
SPECIFICATION LiveSpec
INVARIANTS
    TypeOK
    SetupNeverUnderWork
    HandoffOwned
    ReadyIsInstallable
    DiscardOnlyByConsent
    QuitExcludesHandoff
PROPERTIES
    OwnershipHolds
    HandoffResolves
    SetupClosesGate
