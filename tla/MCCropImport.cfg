CONSTANTS
    c1 = c1
    Names <- OneName
    MaxOps = 1
    MaxMoves = 1
    MaxRosters = 1
    MaxEpoch = 1
    MaxFaults = 0
    MaxImports = 1
SPECIFICATION ImportSpec
INVARIANT PreImportMoveRefused
CHECK_DEADLOCK FALSE
