SPECIFICATION FairSpec
CONSTANTS
    Procs = {p1}
    Inodes = {i1, i2}
    None = None
    Absent = Absent
    c1 = c1
    c2 = c2
    c3 = c3
    c4 = c4
    Content <- FewContent
    Valid <- FewValid
    Serial <- FewSerial
    Commands <- AgreeingCommands
    ReadOnly = FALSE
    Faults = {"command", "io", "finish", "source"}
    MaxTx = 3
PROPERTIES Converges CommandsEnd
CHECK_DEADLOCK FALSE
