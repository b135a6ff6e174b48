SPECIFICATION Spec
CONSTANTS
    Subs = {s1, s2}
    Relays = {r1, r2}
    Ids = {e1, e2}
    DedupCap = 1
    MaxWire = 1
    MaxBatch = 1
    MaxChan = 1
SYMMETRY Symmetry
INVARIANTS
    RelaysExact
PROPERTIES
    OneFeedPerSub
