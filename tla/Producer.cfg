CONSTANTS
    Callers = {c1, c2, c3}
    MaxClients = 2
SPECIFICATION FairSpec
INVARIANTS
    TypeOK
    AnswersAreTrue
    ClientsAreKept
PROPERTY
    LifecycleEnds
CHECK_DEADLOCK FALSE
