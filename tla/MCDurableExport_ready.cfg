SPECIFICATION Spec
CONSTANTS
    w1 = w1
    w2 = w2
    r1 = r1
    Workers = {w1, w2}
    Removers = {r1}
    Nobody = Nobody
    MaxAttempts = 3
    Faults <- CrashRaiseStall
    MaxFaults = 4
SYMMETRY Symmetry
INVARIANTS
    ReadyIsDownloadable
PROPERTIES
    ImplementsContract
