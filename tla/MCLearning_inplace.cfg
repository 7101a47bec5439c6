SPECIFICATION Spec
CONSTANTS
    m1 = m1
    m2 = m2
    t1 = t1
    t2 = t2
    Machines = {m1, m2}
    Tenants = {t1, t2}
    Faulty = {t2}
    Free = Free
    Deployments <- OnlyThreat
    MaxRows = 1
    MaxFaults = 1
CHECK_DEADLOCK FALSE
INVARIANTS
    NoneHalfPublished
