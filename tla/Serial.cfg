CONSTANTS
    ann = ann
    bob = bob
    kitchen = kitchen
    NoUser = NoUser
    NoText = NoText
    Users = {ann, bob}
    UserRank <- MCUserRank
    Sessions = {s1}
    Channels = {kitchen}
    Runs = {r1, r2}
    ChannelOf <- MCChannelOf
    Texts = {latte}
    MaxClock = 2
SPECIFICATION Spec
INVARIANTS
    LedgerExact
    ClosedOrdersFinal
    FairSpread
PROPERTIES
    RequestTakesEffect
    CountAccurate
    ImplementsRotation
    ImplementsOrderBook
SYMMETRY SerialSymmetry
CHECK_DEADLOCK FALSE
