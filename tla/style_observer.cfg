SPECIFICATION Spec
CONSTANTS
    Nodes = {"a", "b"}
    Inputs = {"legible", "faint", "invisible"}
    None = None
    FlagsOf <- InputFlags
    EmitOnFlagChangeOnly = TRUE
    UnsubscribeInCallback = FALSE
    MaxSubs = 3
    MaxDepth = 2
    MaxChanges = 4
INVARIANT NobodyIsBehind
PROPERTY EachHearsOnce
CHECK_DEADLOCK FALSE
