CONSTANTS
    Calls = {c1, c2}
    r1 = r1
    r2 = r2
    Recordings = {r1, r2}
    JobShapes <- MCShapes
    Phases <- MCPhases
    MaxJobs = 2
    MaxRuns = 3
    MaxCrashes = 1
    Chunks = 2
    MaxAttempts = 2
SPECIFICATION LiveSpec
INVARIANTS
    TypeOK
    LinksSurviveCrash
    PublishedWasConfirmed
    KeptSessionHasItsFile
PROPERTIES
    StopEndsItsOwnJob
    TransferEnds
CHECK_DEADLOCK FALSE
