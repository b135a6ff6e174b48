SPECIFICATION SharedSpec
CONSTANTS
    Routes = {r1}
    MaxDirtyRoutes = 1
    MaxControls = 1
    Clients = {c1}
    HostThreads = {h1}
    None = None
    MaxReferences = 2
    MaxCalls = 4
    MaxPackets = 2
INVARIANTS
    NotStranded
    CallbackContextLive
    HandleHeld
CHECK_DEADLOCK FALSE
