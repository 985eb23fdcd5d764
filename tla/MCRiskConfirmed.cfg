SPECIFICATION Spec
CONSTANTS
    web = web
    web10 = web10
    p1 = p1
    p10 = p10
    here = here
    away = away
    keys = keys
    serial = serial
    alice = alice
    bob = bob
    Sources <- MCSources
    Project <- p1
    Findings <- MCFindings
    Measurements <- MCMeasurements
    Instances <- MCInstances
    Quotas <- MCQuotas
    Budgets <- MCBudgets
    Constraints <- MCConstraints
    IamAnalyses <- MCIamAnalyses
    Mentions <- MCMentions
    Queries <- MCQueries
    MaxTop = 3
    MaxDetail = 2
CONSTRAINT Focus
INVARIANT ConfirmedInstanceIsNamed
