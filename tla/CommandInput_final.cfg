SPECIFICATION Spec
CONSTANTS
    RECV_BUF = 5
    ITERATIONS = 3
    MaxLines = 3
    MaxLen = 1
    Inputs <- Unterminated
INVARIANTS DocFinalLine
