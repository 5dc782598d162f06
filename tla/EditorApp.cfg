SPECIFICATION FairSpec
CONSTANTS
    z1 = z1
    z2 = z2
    home = home
    apex = apex
    a = a
    None0 = None0
    None = None
    Gone = Gone
    Owners = {apex, a}
    Apex = apex
    Malformed = {}
    Order <- MCOrder
    Group <- MCGroup
    Records <- MCRecords
    Contents <- MCContents
    Limits <- MCLimits
    Faults = {"command", "io", "report"}
INVARIANTS LocksFollowScreens StatusFresh
PROPERTIES EditsKept SelectionKept ListUsable
CHECK_DEADLOCK FALSE
