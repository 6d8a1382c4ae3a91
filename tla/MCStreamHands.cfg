CONSTANT MaxAlerts = 1
SPECIFICATION FairSpec
PROPERTIES
    HandStreamsAreLeftAlone
