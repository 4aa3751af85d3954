SPECIFICATION CtlFairSpec
CONSTANTS
    NUM = 8
    FD_LIMIT = 8
    FdName = {"a"}
    Starts <- MCStarts
    CLIENTS = 2
    ANC = 1
    LEFT = 1
    Line <- MCLine
    Sent <- MCSent
    Use <- MCUse
INVARIANTS
    NoDescriptorLost
    WholeConnectionsAreOwn
PROPERTIES
    SlotsComeBack
