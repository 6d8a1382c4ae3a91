CONSTANTS
    Calls = {c1}
    r1 = r1
    r2 = r2
    Recordings = {r1, r2}
    JobShapes <- MCShapes
    Phases <- MCPhases
    MaxJobs = 2
    MaxRuns = 3
    MaxCrashes = 0
    Chunks = 1
    MaxAttempts = 2
SPECIFICATION Spec
INVARIANTS
    ResumesRatherThanRestarts
CHECK_DEADLOCK FALSE
