CONSTANTS
    MaxClicks = 2
    MaxLive = 2
    MaxFaults = 1
SPECIFICATION Spec
INVARIANTS TypeOK OffIsFinal
PROPERTY OffHolds OffIsSettled
CHECK_DEADLOCK FALSE
