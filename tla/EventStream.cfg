SPECIFICATION FairSpec
CONSTANTS
    CLIENTS = 1
    SEND_BUF = 4
    LARGEST_WRITE = 2
    RECV_BUF = 2
    PIPE = 2
    Lens = {1, 2}
    Timeouts <- MCPairs
    DEFAULT <- MCDefault
    IDLE = 3
INVARIANTS WholeLines BacklogServed
PROPERTIES OverflowReported CommandsProceed ImplementsEventQueue
