SPECIFICATION FairSpec
CONSTANTS
    Faults = {"command", "io", "undo", "crash"}
    MaxTx = 2
    MaxSerial = 2
    None = None
INVARIANTS OneUpdater
PROPERTIES RolledBackRestores EditsKept Refreshes
CHECK_DEADLOCK FALSE
