SPECIFICATION Spec
CONSTANTS
    NAMES = 8
    FD_NAMES = {2, 5}
    LIMIT = 8
    Node <- MCNode
INVARIANTS RedBlack IndexMatchesList IterationResumes
PROPERTIES ImplementsNameMap
