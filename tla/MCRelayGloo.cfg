SPECIFICATION Spec
CONSTANTS
    Native = FALSE
    MaxSockets = 2
    Subs = {s1}
    Outgoing <- SubFrames
    Healthy = 2
    ColdStart = 1
    AttemptCap = 1
    MaxQueue = 1
    MaxSigning = 1
INVARIANTS RecoveryWorkExact ClosedIsReliable
 
