SPECIFICATION Spec
CONSTANTS
    Handlers = {h1, h2}
    Workers = {w1}
    Nobody = Nobody
    Plans <- TwoStepPlans
    PlanLimit = 2
    MaxAttempts = 2
    MaxCrashes = 1
INVARIANTS
    SucceededRunsWhole
