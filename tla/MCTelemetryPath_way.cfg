SPECIFICATION LiveSpec
CONSTANTS
    r1 = r1
    r2 = r2
    c1 = c1
    c2 = c2
    Relays = {r1, r2}
    Nobody = Nobody
    Former = Former
    MaxAttempts = 2
    Consumers = {c1, c2}
    MaxMessages = 3
    BatchSize = 2
    Garbled <- NoMessages
    Poison <- SecondMessage
    Faults <- AllFaults
    MaxFaults = 2
INVARIANTS
    RowsDecided
    ObservedOnce
PROPERTIES
    ImplementsDelivery
    EventArrives
