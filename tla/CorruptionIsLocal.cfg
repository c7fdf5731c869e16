CONSTANTS
    Record = {1, 2}
    Process = {p1}
    Poll = {1}
    MaxTorn = 1
SPECIFICATION Spec
INVARIANT CorruptionIsLocal
CHECK_DEADLOCK FALSE
