CONSTANTS
    Partitions = {p1, p2}
    Pickups = {2}
    Offset = 1
    Lead = 2
    MaxCalls = 1
    MaxFaults = 2
    MaxTime = 1
    Tolerance = 1
SPECIFICATION FairSpec
INVARIANTS
    TypeOK
    NothingPassedOver
    RepeatsNeedSetback
    LateOnlyBehindAnother
PROPERTY
    ReminderGetsItsTurn
    ImplementsLine
CHECK_DEADLOCK FALSE
