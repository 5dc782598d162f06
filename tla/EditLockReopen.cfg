SPECIFICATION Spec
CONSTANTS
    Procs = {p1, p2, p3}
    Inodes = {i1, i2, i3, i4}
    None = None
    MaxOpens = 2
INVARIANTS ExclusionUntilRelease HolderIsNamed StaleFileAdmits
SYMMETRY Symmetry
CHECK_DEADLOCK FALSE
