SPECIFICATION FairSpec
CONSTANTS
    LOG_BUF = 4
    Sizes <- MCSizes
    MaxLost = 2
    RETRY = 2
    SINK = 3
INVARIANTS TypeOK BlockedWatched
PROPERTIES ImplementsEventQueue LogFlowsAgain
