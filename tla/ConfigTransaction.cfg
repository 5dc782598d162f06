SPECIFICATION Spec
CONSTANTS
    p1 = p1
    p2 = p2
    here = here
    away = away
    Procs <- MCProcs
    Lists <- MCLists
    Home <- MCHome
    Entries <- MCEntries
    Hosts = {here, away}
    RemoteHosts = {away}
    Admin = {"trusted"}
    Edits <- MCEdits
    Uses = {"secondaries"}
    Faults = {"command", "io", "crash"}
    MaxTx = 2
    MaxVersions = 2
    None = None
INVARIANTS DataSurvives
PROPERTIES RolledBackRestores AccessKept
CHECK_DEADLOCK FALSE
