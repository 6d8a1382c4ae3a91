CONSTANT MaxAlerts = 2
SPECIFICATION FairSpec
INVARIANTS
    TypeOK
    EpisodeIsWingmans
    OnePressPerFight
PROPERTIES
    PressesHitTheirTarget
    EpisodeEnds
