SPECIFICATION Spec
CONSTANTS
    Project = "demo"
    Public <- MCPublic
    Humans <- MCHumans
    Domain <- MCDomain
    NoDomain = ""
    TrustedDomains = {"example.com"}
    UntrustedDomains = {"gmail.com"}
    Clouds <- MCClouds
    Readable <- MCReadable
    NewAccount = "runtime"
    Queries <- MCQueries
    MaxTop = 3
    MaxDetail = 2
    MaxAudits = 2
INVARIANTS
    TypeOK
    LossNeverInvents
    LossHidesOnlyItsOwn
    RepeatsSayNothingNew
    PathsAcrossBindings
    NothingStrongerHidden
    PlanStartsWithCriticals
    NothingNewAfterFix
    CommandsClose
