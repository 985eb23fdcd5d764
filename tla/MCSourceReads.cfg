SPECIFICATION FairSpec
CONSTANTS
    Sources <- MCSources
    Items <- MCItems
    Configs = {"old", "new"}
    Bare = {"new"}
    Gone = "gone"
    Clouds <- MCClouds
    PageSize = 2
    MaxItems = 3
    MaxChanges = 2
    MaxCalls = 2
INVARIANTS
    TypeOK
    AnswersOfThisCall
    NothingSteadyMissed
    CapHolds
PROPERTY
    ImplementsAtomicRead
CHECK_DEADLOCK FALSE
