SPECIFICATION Spec
CONSTANTS
    Keys <- _SIGNAL_KEYS
    Collectors <- MCCollectors
    Tools <- CryptojackTools
    Projects = {p1}
    NoProject = NoProject
    DefaultProject = NoProject
    FixtureKeys <- MCNoKeys
    Unconfigured <- MCBudgets
    MaxTurns = 1
INVARIANTS
    NothingCollectedExplained
CHECK_DEADLOCK FALSE
