SPECIFICATION FairSpec
CONSTANTS
    Keys <- MCKeys
    Collectors <- MCCollectors
    Tools <- MCTools
    Projects = {p1, p2}
    NoProject = NoProject
    DefaultProject = NoProject
    FixtureKeys <- MCFixtureKeys
    Unconfigured <- MCUnconfigured
    MaxTurns = 2
INVARIANTS
    TypeOK
    IInv
    ReadsReachEngine
    ErrorsAreReal
    SomeFailureDisclosed
    LoneCollectorDisclosed
PROPERTIES
    TurnEnds
    ImplementsLedger
CHECK_DEADLOCK FALSE
