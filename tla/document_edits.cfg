SPECIFICATION Spec
CONSTANTS
    LayoutKinds = {"Stack"}
    MaxNodeDepth = 3
    MaxNodes = 5
    StartTrees <- RepeatingStarts
    OpSet <- AllOps
    Incoming <- IncomingTrees
    Asked <- AskedIds
INVARIANT AgreesWithFlat
INVARIANT VerbsKeepTheirWord
PROPERTY StaysWithinLimits
 
CHECK_DEADLOCK FALSE
