SPECIFICATION Spec
CONSTANTS
    p1 = p1
    p2 = p2
    z1 = z1
    z2 = z2
    None = None
    Procs = {p1}
    Zones = {z1, z2}
    Grouped <- MCGrouped
    Assigned <- OneOperator
    Commands <- AllCommands
    Faults = {"command", "io", "undo", "crash"}
    Unreported <- NoRestore
    MaxTx = 3
INVARIANTS OutcomeMatchesDisk DataSurvives ConfigLoads
PROPERTIES KeepsLifecycle
CHECK_DEADLOCK FALSE
