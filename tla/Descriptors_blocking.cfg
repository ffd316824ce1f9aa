CONSTANTS
    Conns = {c1}
    Fds = {0, 1, 2, 3}
    Styles = {"dup"}
    NoFile = NoFile
SPECIFICATION Spec
PROPERTIES GivesUpOnlyOnHangup
CHECK_DEADLOCK FALSE
