SPECIFICATION LiveSpec
CONSTANTS
    w1 = w1
    w2 = w2
    Workers = {w1, w2}
    Removers = {}
    Nobody = Nobody
    MaxAttempts = 3
    Faults <- AllButStall
    MaxFaults = 4
INVARIANTS
    NoOrphans
PROPERTIES
    JobSettles
    ArtifactsExpire
