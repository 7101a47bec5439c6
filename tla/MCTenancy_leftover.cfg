CONSTANTS
    t1 = t1
    t2 = t2
    a1 = a1
    a2 = a2
    a3 = a3
    c1 = c1
    c2 = c2
    Tenants = {t1, t2}
    Accounts = {a1, a2, a3}
    Users = {u1}
    Machines = {m1}
    Refs = {r1}
    Slugs = {"acme", "platform-status"}
    Reserved = "platform-status"
    Roles = {"owner", "viewer"}
    Sessions = {s1}
    Callers = {c1, c2}
    MaxAsked = 4
SYMMETRY Symmetry
SPECIFICATION Spec
INVARIANT
    NoBatchLeft
CHECK_DEADLOCK FALSE
