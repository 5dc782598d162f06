SPECIFICATION Spec
CONSTANTS
    d1 = d1
    d2 = d2
    s1 = s1
    s2 = s2
    None = None
    Data = {d1, d2}
    Timers = {s1, s2}
    SingleLine = FALSE
    PerDay = 2
    MaxSerial = 3
    MaxDay = 1
    MaxEdits = 4
    MaxNodes = 3
    InitialFile <- MCFile
INVARIANTS CandidateIsShown SerialAdvances PreviewIsStable
CHECK_DEADLOCK FALSE
