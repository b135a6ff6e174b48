SPECIFICATION SharedSpec
CONSTANTS
    Routes = {r1}
    MaxDirtyRoutes = 1
    MaxControls = 1
    Clients = {}
    HostThreads = {h1, h2}
    None = None
    MaxReferences = 1
    MaxCalls = 3
    MaxPackets = 1
PROPERTIES
    LifecycleReturns
CHECK_DEADLOCK FALSE
