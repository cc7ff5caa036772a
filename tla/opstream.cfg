SPECIFICATION Spec
CONSTANTS
    Writers = {w1, w2, w3}
    PlainWriters = {w3}
    Ops = {a, b}
    Unencodable = {b}
    NoOp = NoOp
    MaxAppendAttempts = 2
    MaxCalls = 1
    MaxTruncations = 1
INVARIANT TypeOK
INVARIANT ChainIntact
INVARIANT HeadNamesLatest
INVARIANT CasNeverDuplicate
INVARIANT ExactlyOnceOrReported
PROPERTY ImplementsLog
CHECK_DEADLOCK FALSE
