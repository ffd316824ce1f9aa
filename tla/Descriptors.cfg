CONSTANTS
    Conns = {c1, c2, c3}
    Fds = {0, 1, 2, 3}
    Styles = {"dup", "pair"}
    NoFile = NoFile
SPECIFICATION Spec
SYMMETRY Symmetry
INVARIANTS OwnsDescriptors RefreshNeverBlocks
CHECK_DEADLOCK FALSE
