SPECIFICATION FairSpec
CONSTANTS
    Name <- MCName
    LINES <- MCLines
    Value = {0, 1}
    SEND_BUF = 1
    PIPE = 1
    RECV_BUF = 1
    CHANGES = 3
INVARIANT CopyExact
PROPERTY CatchesUp
