CONSTANTS
    p1 = p1  p2 = p2  p3 = p3  t1 = t1  t2 = t2  None = None
    Pids = {p1, p2, p3}
    Root = p1
    Threads = {t1, t2}
    First = t1
    Sig = Sig
    CountMax = 1
    MaxForks = 2
    MaxHeap = 2
    May <- Programs
SPECIFICATION Spec
INVARIANTS STypeOK LockUsable ChildrenListed NoOrphans BlocksCounted
CHECK_DEADLOCK FALSE
