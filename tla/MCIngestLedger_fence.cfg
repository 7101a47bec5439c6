SPECIFICATION Spec
CONSTANTS
    e1 = e1  e2 = e2  gA = gA  gB = gB
    h1 = h1  h2 = h2  w1 = w1  w2 = w2  p1 = p1  r1 = r1  r2 = r2
    Events = {e1, e2}
    Groups = {gA, gB}
    GroupOf <- OneGroup
    Handlers = {h1, h2}
    Workers = {}
    Projectors = {p1}
    Retriers = {}
    Nobody = Nobody
    MaxAttempts = 1
    MaxRetries = 0
SYMMETRY HandlerSymmetry
INVARIANTS
    ReceiptsPartitionEvents
PROPERTIES
    NothingCommitsBehindCursor
