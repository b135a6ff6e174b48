SPECIFICATION SubSpec
CONSTANTS
    Subs = {s1}
    Relays = {r1, r2}
    Ids = {e1, e2}
    DedupCap = 1
    MaxWire = 8
    MaxBatch = 2
    MaxChan = 8
    SeenCap = 9
    MaxOpens = 1
    MaxEvents = 3
SYMMETRY Symmetry
CHECK_DEADLOCK FALSE
INVARIANTS
    ShownOnce
    EoseAfterEvents
    
    ClosedOnEose
