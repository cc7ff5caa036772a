SPECIFICATION Spec
CONSTANTS
  Unit = 2
  MaxInt = 100
  MaxScale = 3
  UnitAtoms <- NoUnits
  Currencies = {"[USD]"}
  PrefixPower <- MCPrefix
  MaxUnitExp = 3
  Names <- MCNames
  InitialTable <- MCTable
  Ops <- MCOps
  Capacity = 2
  MaxEdits = 3
  KeyField = "k"
  EvalPipeline <- ApplyTransform
  Verbs <- MCVerbs
  Preds <- MCPreds
  Orders <- MCOrders
  Other <- MCOther
  JoinOn <- MCJoinOn
  Templates <- MCTemplates
  Settings <- MCSettings
  SomeUnits <- MCUnits
  Targets <- MCTargets
  WithRound = FALSE
INVARIANT TablesStayInOrder
 
INVARIANT RowsAreKept
INVARIANT VerbsAgree
INVARIANT ParamsBindStrictly
INVARIANT UnitsRoundTrip
INVARIANT DeltaIsExact
INVARIANT SchemaDeltasHold
PROPERTY ImplementsTimeline
CHECK_DEADLOCK FALSE
