CONSTANTS
    Conns = {c1, c2}
    Fds = {0, 1, 2, 3}
    Styles = {"same"}
    NoFile = NoFile
SPECIFICATION Spec
INVARIANTS NoCrossTalk
CHECK_DEADLOCK FALSE
