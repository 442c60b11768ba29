CONSTANTS
    Proc = {a, b}
    Payload = {v1, v2}
    Stale = Stale
    Corrupt = Corrupt
    None = None
    MaxDamage = 1
    MaxCrash = 2
SPECIFICATION Spec
INVARIANTS
    EntriesAreComplete
    PublishedIsDurable
    AuditTrustsHealthyStore
PROPERTIES
    ValidEntriesStay
    LockIsReleased
