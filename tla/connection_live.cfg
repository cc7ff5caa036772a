SPECIFICATION Spec
CONSTANTS
    Nodes = {"root", "button", "mount", "panel"}
    Root = "root"
    Kind <- KindTable
    Declares <- DeclaresTable
    Gated = TRUE
    Grants = {"theme.read"}
    BufferCap = 2
    EventNames = {"click", "toggle"}
    HandlerLists <- HandlerAnswers
    Projections <- NoProjection
    AtomicReattach = TRUE
    MaxSeq = 3
    MaxDrops = 2
INVARIANT NoUngrantedMount
INVARIANT RetainedWindow
INVARIANT FramesReproduceTrees
PROPERTY ImplementsLiveTree
PROPERTY ClientCatchesUp
CHECK_DEADLOCK FALSE
