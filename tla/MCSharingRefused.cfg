CONSTANTS
    MaxClicks = 2
    MaxLive = 2
    MaxFaults = 1
SPECIFICATION Spec
PROPERTY OffInhibitsFirst
CHECK_DEADLOCK FALSE
