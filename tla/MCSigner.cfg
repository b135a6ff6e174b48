SPECIFICATION FairSpec
CONSTANTS
    MaxSigners = 2
    MaxLogouts = 1
    MaxRequests = 1
    MaxFrames = 1
INVARIANTS
    LogoutSticks
    RemovedIsTold
PROPERTIES
    NoUseAfterLogout
    CallsReturn
CHECK_DEADLOCK FALSE
