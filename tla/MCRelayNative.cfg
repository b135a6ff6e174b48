SPECIFICATION FairSpec
CONSTANTS
    Native = TRUE
    MaxSockets = 2
    Subs = {s1}
    Outgoing <- Publishes
    Healthy = 2
    ColdStart = 1
    AttemptCap = 1
    MaxQueue = 1
    MaxSigning = 0
INVARIANTS SocketsAccounted
PROPERTIES WakeCompletes DrainerReturns
