SPECIFICATION Spec
CONSTANTS
    None = None
    Orderly = FALSE
    MaxRevision = 2
    MaxWaits = 2
PROPERTY
    DisplayNeverRegresses
CHECK_DEADLOCK FALSE
