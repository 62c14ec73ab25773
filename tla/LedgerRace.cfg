CONSTANTS
    ann = ann
    bob = bob
    kitchen = kitchen
    NoUser = NoUser
    NoText = NoText
    Users = {ann, bob}
    UserRank <- MCUserRank
    Sessions = {s1, s2}
    Channels = {kitchen}
    Runs = {r1}
    ChannelOf <- MCChannelOf
    Texts = {latte}
    MaxClock = 2
SPECIFICATION Spec
INVARIANT
    LedgerExact
CHECK_DEADLOCK FALSE
