SPECIFICATION LiveSpec
CONSTANTS
    Handlers = {h1, h2}
    Workers = {w1}
    Nobody = Nobody
    Plans <- ShortPlans
    PlanLimit = 2
    MaxAttempts = 2
    MaxCrashes = 1
PROPERTIES
    EachAttemptPostedOnce
    OnlyLeaseHolderDecides
    ImplementsPlan
    RunSettles
