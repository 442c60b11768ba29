SPECIFICATION Spec
CONSTANTS
    None = None
    Orderly = TRUE
    MaxRevision = 3
    MaxWaits = 3
INVARIANTS
    DisposedSessionIsQuiet
    WaitIsCurrent
    StableStatusIsHonest
PROPERTIES
    DisplayNeverRegresses
    DriveSettles
CHECK_DEADLOCK FALSE
