CONSTANTS
    Msgs <- SomeMsgs
    Size <- SizeOf
    MaxMsgSize = 2
    Depths = {1, 2, 3}
    BufLens = {1, 2}
    Bufs = {b1, b2, b3}
    None = None
    MaxSends = 4
SPECIFICATION Spec
PROPERTY ImplementsChannel
INVARIANTS BuffersOwned
CHECK_DEADLOCK FALSE
