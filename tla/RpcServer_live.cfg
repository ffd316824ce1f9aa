CONSTANTS
    w1 = w1  w2 = w2  c1 = c1  c2 = c2  c3 = c3  None = None
    Workers = {w1, w2}
    Channels = {c1, c2}
    MaxConnections = 2
    IdleTimeout = 1
    MaxMsgSize = 256
    BufMinSize = 128
    MsgSizes = {127, 128, 257}
    IdMax = 2
    Verdicts = {"CHRPC_SUCCESS"}
    Outcomes <- OnlyKeepAndBye
    MaxReqs = 1
    MaxSent = 1
    MaxTime = 2
SPECIFICATION FairSpec
PROPERTIES IdleOnlyAfterSilence RequestServed CutIsReported DeleteReturns
