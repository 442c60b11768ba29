CONSTANTS
    c1 = c1
    c2 = c2
    Key = {k1, k2}
    Value = {p1, p2}
    JobPath = {}
    Content = {c1, c2}
    Size <- MCSize
    NoFile = NoFile
    MaxOneFile = 2
    MaxUserFiles = 1
    MaxUserBytes = 1
    MaxResolvedFiles = 2
    MaxResolvedBytes = 3
    Handle = {h1, h2}
    Dropped = Dropped
    RequestSet <- MCSingleRequests
    BatchResponse <- MCNoResponses
    Unbound = Unbound
    Absent = Absent
SPECIFICATION Spec
SYMMETRY Symmetry
INVARIANTS
    AdmittedKeysHaveBytes
    KnownExistsIsUnbound
PROPERTIES
    BindingsAreWriteOnce
