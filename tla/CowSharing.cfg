CONSTANTS
    c1 = c1
    c2 = c2
    Handle = {h1, h2}
    Snap = {s1}
    JobPath = {j1}
    DistributionPath = {d1}
    Content = {c1}
    Size <- MCSize
    MaxOneFile = 2
    MaxGeneratedFiles = 1
    MaxGeneratedBytes = 2
    NoFile = NoFile
    Dropped = Dropped
    NoSnap = NoSnap
    NoTx = NoTx
    NoPending = NoPending
    Base = Base
SPECIFICATION Spec
SYMMETRY Symmetry
INVARIANTS
    CandidateViewsEndWithTransaction
PROPERTIES
    SharingIsInvisible
