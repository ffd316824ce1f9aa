CONSTANTS
    i1 = i1  i2 = i2  w1 = w1  w2 = w2  ann = ann  bob = bob  None = None
    Ids = {i1, i2}
    Names = {ann, bob}
    Valid = {ann, bob}
    Workers = {w1, w2}
    PollSize = 5
    Commands <- Typed
    MaxTyped = 1
SPECIFICATION Spec
INVARIANTS NamesMatch MailboxAlive EveryoneHears LockReleased
SYMMETRY Symmetry
CHECK_DEADLOCK FALSE
