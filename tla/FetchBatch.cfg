CONSTANTS
    N = 3
    Concurrency = 2
    Retries = 1
    ObjectOf <- MCObjectOf
SPECIFICATION BatchSpec
INVARIANTS
    SuccessIsComplete
PROPERTIES
    CancelledBytesStayPrivate
    BatchReturns
