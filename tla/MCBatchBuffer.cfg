SPECIFICATION FairSpec
CONSTANTS
    Subs = {s1, s2}
    Sizes = {1, 3}
    Threshold = 4
    Timeout = 2
    MaxFrames = 3
INVARIANTS Conserved
PROPERTIES EventuallyFlushed
