SPECIFICATION LiveSpec
CONSTANTS
    e1 = e1  e2 = e2  gA = gA  gB = gB
    h1 = h1  h2 = h2  w1 = w1  w2 = w2  p1 = p1  r1 = r1  r2 = r2
    Events = {e1}
    Groups = {gA, gB}
    GroupOf <- OnlyEvent
    Handlers = {h1}
    Workers = {w1}
    Projectors = {p1}
    Retriers = {r1, r2}
    Nobody = Nobody
    MaxAttempts = 2
    MaxRetries = 2
INVARIANTS
    ResolvedIsProjected
    NoEventForgotten
PROPERTIES
    ImplementsContract
    RetryLeaseRespected
    EveryReceiptSettles
