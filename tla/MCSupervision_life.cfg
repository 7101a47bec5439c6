SPECIFICATION LiveSpec
CONSTANTS
    p1 = p1
    p2 = p2
    h1 = h1
    Workers = {"ingest", "exports"}
    Probes = {p1, p2}
    Handlers = {h1}
    MaxFailures = 1
    MaxFaults = 1
CHECK_DEADLOCK FALSE
INVARIANTS
    OneOfEach
    SchemaHonest
    NoneAfterStop
PROPERTIES
    Recovers
