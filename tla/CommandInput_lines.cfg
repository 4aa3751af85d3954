SPECIFICATION FairSpec
CONSTANTS
    RECV_BUF = 3
    ITERATIONS = 4
    MaxLines = 3
    MaxLen = 4
    Inputs <- MCInputs
INVARIANTS TypeOK CommandsInOrder
PROPERTIES AllExecuted
