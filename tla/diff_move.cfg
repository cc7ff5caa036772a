SPECIFICATION Spec
CONSTANTS
    LayoutKinds = {"Stack"}
    MaxNodeDepth = 9
    MaxNodes = 5
    IdsInOrder <- OrderedIds
    Unencodable = {"nil", "foreign"}
    ForkTrees <- Forks
    BranchOps <- Ops
    MaxEdits <- Edits21
INVARIANT RoundTrip
CHECK_DEADLOCK FALSE
