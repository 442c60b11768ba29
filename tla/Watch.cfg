SPECIFICATION WatchSpec
CONSTANTS
    MaxEdits = 3
    MaxBatches = 1
    MaxSignals = 1
    Missing = Missing
    NoText = NoText
INVARIANTS
    PatchesApply
    RoundStartsFresh
    StaleOutputIsNoticed
PROPERTIES
    InterruptStops
    EditsReachOutput
CHECK_DEADLOCK FALSE
