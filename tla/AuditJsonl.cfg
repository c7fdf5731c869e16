CONSTANTS
    Record = {1, 2, 3}
    Process = {p1, p2}
    Poll = {1, 2}
    MaxTorn = 2
SPECIFICATION FairSpec
INVARIANTS TypeOK TailHasNoGaps
PROPERTIES ImplementsLog TailCatchesUp
CHECK_DEADLOCK FALSE
