CONSTANTS
    w1 = w1  w2 = w2  c1 = c1  c2 = c2  c3 = c3  None = None
    Workers = {w1, w2}
    Channels = {c1, c2, c3}
    MaxConnections = 2
    IdleTimeout = 0
    MaxMsgSize = 256
    BufMinSize = 128
    MsgSizes = {256}
    IdMax = 3
    Verdicts = {"CHRPC_SUCCESS", "CHRPC_BAD_REQUEST"}
    Outcomes <- AllOutcomes
    MaxReqs = 2
    MaxSent = 2
    MaxTime = 0
SPECIFICATION Spec
SYMMETRY Symmetry
PROPERTY ImplementsConnections
INVARIANTS SoleOwner Accounting PushHasRoom IdsFresh AnsweredInOrder NothingAfterLast DeletesEverything
