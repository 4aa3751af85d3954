SPECIFICATION Spec
CONSTANTS
    NUM = 12
    FD_LIMIT = 9
    FdName = {"a", "b", "stderr"}
    Starts <- MCStarts
    Use = {}
    POOL = 14
    TextValue <- MCTextValue
    FdsValue <- MCFdsValue
INVARIANTS
    ChildGetsNamed
    VarsReadBack
    NumbersOwnedOnce
    PeersMutual
    LogFollowsName
