SPECIFICATION Spec
CONSTANTS
    Nodes = {"root", "button", "mount", "panel"}
    Root = "root"
    Kind <- KindTable
    Declares <- DeclaresTable
    Gated = TRUE
    Grants = {"theme.read"}
    BufferCap = 2
    EventNames = {"click", "toggle"}
    HandlerLists <- EditingAnswers
    Projections <- NoProjection
    AtomicReattach = TRUE
    MaxSeq = 2
    MaxDrops = 0
INVARIANT NoUngrantedMount
CHECK_DEADLOCK FALSE
