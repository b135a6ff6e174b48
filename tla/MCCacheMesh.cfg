SPECIFICATION Spec
CONSTANTS
    Subs = {s1, s2}
    Ids = {e1, e2, e3}
    Ttl = 1
    MaxWatches = 1
    WatchCap = 2
    Requests <- MeshRequests
    MaxQueue = 2
    MaxSent = 4
SYMMETRY Symmetry
INVARIANTS
    WatchExact
    LiveIsQueued
