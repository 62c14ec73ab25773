CONSTANTS
    Partitions = {p1}
    Pickups = {2, 5}
    Offset = 1
    Lead = 2
    MaxCalls = 2
    MaxFaults = 0
    MaxTime = 4
    Tolerance = 1
SPECIFICATION Spec
INVARIANT
    Punctual
CHECK_DEADLOCK FALSE
