SPECIFICATION Spec
CONSTANTS
    p1 = p1
    p2 = p2
    x1 = x1
    x2 = x2
    None = None
    Junk = Junk
    Procs = {p1, p2}
    Resources = {x1}
    Ids = {1, 2, 3, 4}
    Keep = {1}
    Faults = {"disk", "crash"}
    MaxResults = 4
    MaxTx = 1
    MaxSecond = 1
INVARIANTS NothingSilentlyLost
PROPERTIES KeepsLog
SYMMETRY Symmetry
CHECK_DEADLOCK FALSE
