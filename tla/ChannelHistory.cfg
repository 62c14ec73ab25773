CONSTANTS
    ann = ann
    bob = bob
    cyd = cyd
    NoUser = NoUser
    Users <- MCUsers
    UserRank <- MCUserRank
    MaxCloses = 5
SPECIFICATION Spec
INVARIANTS
    TypeOK
    FairSpread
    CountsAreHistory
PROPERTIES
    ImplementsRotation
    AssignsAsAsked
CHECK_DEADLOCK FALSE
