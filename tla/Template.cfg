SPECIFICATION Spec
CONSTANTS
    MaxLines = 24
    MaxEntries = 3
INVARIANTS Intact Placed
CHECK_DEADLOCK FALSE
