CONSTANTS
    Msgs <- SmallMsgs
    Junk <- SomeJunk
    LenSize = 2
    MaxMsgSize = 2
    Depths = {2}
    ChunkSize = 7
    BufLens = {1, 2}
    MaxWrites = 3
SPECIFICATION Spec
PROPERTIES ImplementsChannel CannotReadIsFinal
INVARIANTS TypeOK ChunkingInvisible
CHECK_DEADLOCK FALSE
