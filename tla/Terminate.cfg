SPECIFICATION Spec
CONSTANT Codes = {1, 2}
INVARIANT DocInitLoops
CHECK_DEADLOCK FALSE
