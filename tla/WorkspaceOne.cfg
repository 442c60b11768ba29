CONSTANTS
    c1 = c1
    c2 = c2
    Key = {k1, k2, k3}
    Value = {p1, p2}
    JobPath = {j1, j2}
    Content = {c1, c2}
    Size <- MCSize
    NoFile = NoFile
    MaxOneFile = 2
    MaxUserFiles = 2
    MaxUserBytes = 3
    MaxResolvedFiles = 2
    MaxResolvedBytes = 3
    Handle = {h1}
    Dropped = Dropped
    RequestSet <- MCRequestSet
    BatchResponse <- MCAllResponses
    Unbound = Unbound
    Absent = Absent
SPECIFICATION Spec
SYMMETRY Symmetry
INVARIANTS
    TypeOK
    WithinLimits
    FailedAdmissionChangesNothing
    BytesAccounted
