SPECIFICATION Spec
CONSTANTS
    p1 = p1
    p2 = p2
    Procs <- MCProcs
    Caches = {c1, c2}
    Resolvers = {c1}
    Commands = {"enable", "confirm", "withdraw", "insecure", "serial", "finalize"}
    Faults = {"command", "io", "undo", "crash", "silent"}
    MaxTx = 2
    MaxEdits = 1
    None = None
INVARIANTS NeverBogus RolledBackRestores
PROPERTIES SerialNeverFalls
CHECK_DEADLOCK FALSE
SYMMETRY Symmetry
