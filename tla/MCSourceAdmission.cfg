CONSTANTS
    MaxEvents = 4
    Folders = 2
    FleetChoices <- Switches
    PreviewChoices <- Switches
SPECIFICATION Spec
INVARIANTS
    TypeOK
    AdmittedIsTrue
    NothingForgotten
    BeginNeverRaises
    SubscribersAreServed
PROPERTIES
    RevokedForGood
CHECK_DEADLOCK FALSE
