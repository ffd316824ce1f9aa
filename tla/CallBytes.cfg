CONSTANTS
    None = None
    MaxFields = 3
    MaxSize = 100
    Built <- MCBuilt
    MaxArgs = 2
    BufMin = 16
    MaxCalls = 2
    ClientSizes <- MCSizes
    ServerExtra <- Extra
    Declared <- MCDeclared
    MaxEndpoints = 4
    Calls <- MCCalls
    RawMessages <- MCRawMessages
SPECIFICATION Spec
INVARIANTS CallIsRight RefusalIsRight InsideBuffers NothingLeaks
CHECK_DEADLOCK FALSE
