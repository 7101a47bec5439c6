SPECIFICATION LiveSpec
CONSTANTS
    s1 = s1
    s2 = s2
    Schedulers = {s1, s2}
    Nobody = Nobody
    Gone = Gone
    NRuns = 3
    TaskOf <- TickThenCleanups
    NTasks = 2
    Native <- OnlyCleanup
    Cleanup = 2
    MaxTaskAttempts = 2
    PassClaims = 1
    ClaimLease = 1
    NativeLease = 3
    HeartbeatEvery = 2
    PublishedLease = 2
    FailedLease = 1
    Punctual = TRUE
    Faults <- CrashAndRaise
    MaxFaults = 2
INVARIANTS
    NativeExclusive
PROPERTIES
    RunsSettle
