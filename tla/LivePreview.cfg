SPECIFICATION Spec
CONSTANTS
    None = None
    Contents = {1, 2}
    Fonts <- MCFonts
    Unstable = {1}
    Serial = TRUE
    MaxFaults = 1
    MaxPending = 2
    MaxRevision = 2
    MaxSessions = 2
INVARIANTS
    ShownDocumentIsWhole
    WorkerServesItsRequests
PROPERTIES
    PreviewCatchesUp
CHECK_DEADLOCK FALSE
