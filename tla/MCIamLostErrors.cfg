SPECIFICATION Spec
CONSTANTS
    Keys <- _INVENTORY_KEYS
    Collectors <- MCCollectors
    Tools <- IamTools
    Projects = {p1}
    NoProject = NoProject
    DefaultProject = NoProject
    FixtureKeys <- MCNoKeys
    Unconfigured <- MCNoKeys
    MaxTurns = 1
INVARIANTS
    FailuresDisclosed
CHECK_DEADLOCK FALSE
