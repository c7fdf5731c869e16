CONSTANTS
    Scan = {1, 2}
    MaxVerdicts = 1
SPECIFICATION LogSpec
INVARIANT CompleteIsFinal
CHECK_DEADLOCK FALSE
