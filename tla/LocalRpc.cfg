CONSTANTS
    w1 = w1  w2 = w2  c1 = c1  c2 = c2  None = None
    Workers = {w1}
    Channels = {c1, c2}
    MaxConnections = 2
    IdleTimeout = 0
    MaxMsgSize = 256
    BufMinSize = 128
    MsgSizes = {256}
    IdMax = 2
    Verdicts = {"CHRPC_SUCCESS"}
    Outcomes <- SomeOutcomes
    MaxReqs = 2
    MaxSent = 2
    MaxTime = 0
    Cadence = 2
    Timeout = 3
    Word = 8
SPECIFICATION LFairSpec
PROPERTIES OwnAnswer ImplementsServer CallReturns
INVARIANTS OneInFlight CoreOutlivesServer
CHECK_DEADLOCK FALSE
