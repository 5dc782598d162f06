SPECIFICATION Spec
CONSTANTS
    Procs = {p1, p2}
    Inodes = {i1, i2, i3}
    None = None
    Absent = Absent
    c1 = c1
    c2 = c2
    c3 = c3
    c4 = c4
    Content <- FewContent
    Valid <- FewValid
    Serial <- FewSerial
    Commands <- AllCommands
    ReadOnly = FALSE
    Faults = {"command", "io", "crash", "source"}
    MaxTx = 1
INVARIANTS NothingLost
PROPERTIES WritesAreGuarded
SYMMETRY Symmetric
CHECK_DEADLOCK FALSE
