CONSTANTS
    c1 = c1
    c2 = c2
    Names <- OneName
    MaxOps = 2
    MaxMoves = 1
    MaxRosters = 2
    MaxEpoch = 1
    MaxFaults = 1
    MaxImports = 0
SPECIFICATION Spec
INVARIANTS TypeOK OneTrueOutcome MemoryIsDisk MovesSurvive
PROPERTY EveryEditAnswered
CHECK_DEADLOCK FALSE
