SPECIFICATION Spec
CONSTANTS
  Subjects <- MCSubjects
  Depth <- MCDepth
  Paired <- MCPaired
  MaxEdits = 2
  IntSlotMax = 5
  PayloadMax = 7
  MaxSkeletonRows = 3
  MaxNodeDepth = 3
  MaxNodes = 4
  MaxJSONDepth = 20
  MaxArrayLength = 12
  MaxExprNodes = 6
INVARIANTS MeaningKept FaultNamed CanonicalStable StackFollowsDepth
