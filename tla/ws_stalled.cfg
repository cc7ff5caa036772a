SPECIFICATION Spec
CONSTANTS
    h1 = h1
    h2 = h2
    k = k
    Pushers = {h1}
    Closers = {k}
    NoOne = NoOne
    Frames <- ClientFrames
    HasDeadline = TRUE
    MaxPushes = 1
    MaxInbound = 1
    MaxPings = 0
    MaxStalls = 1
PROPERTY CancelEndsLoop
CHECK_DEADLOCK FALSE
