SPECIFICATION Spec
CONSTANTS
    Nodes = {"a"}
    Inputs = {"legible", "faint", "invisible"}
    None = None
    FlagsOf <- InputFlags
    EmitOnFlagChangeOnly = TRUE
    UnsubscribeInCallback = TRUE
    MaxSubs = 3
    MaxDepth = 2
    MaxChanges = 2
PROPERTY EachHearsOnce
CHECK_DEADLOCK FALSE
