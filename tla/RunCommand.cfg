CONSTANTS
    plain = plain
    amended = amended
    flawed = flawed
    broken = broken
    noon = noon
    one = one
    Commands = {plain, amended, flawed, broken}
    TextOf <- MCTextOf
    Values = {noon, one}
    Unreadable = Unreadable
    Unset = Unset
    Unsplittable = Unsplittable
    PoolSize = 1
    MaxCopies = 2
    MaxCrashes = 1
    Free = Free
SPECIFICATION FairSpec
INVARIANTS
    TypeOK
    RunsAreAnnounced
    AnswersAreTrue
    RunsAreAsAsked
    ConnectionsComeBack
PROPERTY
    CommandsAreAnswered
CHECK_DEADLOCK FALSE
