SPECIFICATION Spec
CONSTANTS
    LayoutKinds = {"Stack"}
    MaxNodeDepth = 9
    MaxNodes = 5
    IdsInOrder <- OrderedIds
    Unencodable = {"nil", "foreign"}
    ForkTrees <- Forks
    BranchOps <- Ops
    MaxEdits <- Edits21
INVARIANT NoSeenEditIsLost
INVARIANT EnvelopeIsCanonical
INVARIANT TrivialMergesYield
INVARIANT MergedIsADocument
INVARIANT PrimaryWinsFacets
INVARIANT RoundTripStaying
CHECK_DEADLOCK FALSE
