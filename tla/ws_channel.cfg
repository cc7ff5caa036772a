SPECIFICATION SlowPeerSpec
CONSTANTS
    h1 = h1
    h2 = h2
    k = k
    Pushers = {h1}
    Closers = {k}
    NoOne = NoOne
    Frames <- ClientFrames
    HasDeadline = FALSE
    MaxPushes = 1
    MaxInbound = 2
    MaxPings = 1
    MaxStalls = 1
INVARIANT NoFrameOnceClosed
PROPERTY FramesStayWhole
PROPERTY CancelEndsLoop
PROPERTY NothingIsLeftBehind
CHECK_DEADLOCK FALSE
