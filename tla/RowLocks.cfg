CONSTANTS
    ann = ann
    bob = bob
    Sessions = {s1, s2}
    Runs = {r1}
    Users = {ann, bob}
    UserRank <- MCUserRank
    OrderKey <- MCOrderKey
SPECIFICATION FairSpec
INVARIANTS
    TypeOK
    OrdersNeverDeadlock
    DeadlocksNeedOthers
PROPERTY
    RequestsEnd
CHECK_DEADLOCK FALSE
