CONSTANTS
    t1 = t1
    t2 = t2
    p1 = p1
    p2 = p2
    c1 = c1
    c2 = c2
    Tenants = {t1, t2}
    Pages = {p1, p2}
    Services = {s1}
    Incidents = {i1}
    Callers = {c1}
    Slugs <- MCSlugs
    Platform <- MCPlatform
    Raws <- MCRaws
    Names = {api}
    Reported = {"operational", "maintenance"}
    HistoryDays = 1
    MaxBucket = 1
    MaxAsked = 3
SPECIFICATION Spec
INVARIANT
    GreenShown
CHECK_DEADLOCK FALSE
