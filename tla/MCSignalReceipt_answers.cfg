SPECIFICATION LiveSpec
CONSTANTS
    r1 = r1
    r2 = r2
    c1 = c1
    c2 = c2
    p1 = p1
    p2 = p2
    Requests = {r1, r2}
    Contents = {c1, c2}
    Submissions <- MCSubmissions
    Playbooks = {p1, p2}
    Existing = {p1}
    OpensCase = TRUE
    Absent = Absent
    MaxFaults = 1
    MaxEdits = 2
INVARIANTS
    ResultTrue
    NoneLeftOut
PROPERTIES
    PlanFrozen
    RetryHeals
