SPECIFICATION Spec
CONSTANTS
    AttemptLimit = 2
    PassLimit = 2
    Outputs <- BackendOutputs
    Content = {c1, c2}
    MaxRevision = 2
    None = None
INVARIANTS
    CandidateIsCurrent
    LedgerObservesEachPassOnce
    FixedPointUnlessSuspended
PROPERTIES
    RevisionSettles
