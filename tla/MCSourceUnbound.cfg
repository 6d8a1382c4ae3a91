CONSTANTS
    MaxEvents = 5
    Folders = 1
    FleetChoices = {TRUE}
    PreviewChoices = {FALSE}
SPECIFICATION Spec
INVARIANTS
    SessionIsBound
CHECK_DEADLOCK FALSE
