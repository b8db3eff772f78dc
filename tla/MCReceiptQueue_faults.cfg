SPECIFICATION Spec
CONSTANTS
    c1 = c1  c2 = c2  a1 = a1  a2 = a2  t1 = t1  t2 = t2  none = none
    MaxReceipts = 1
    Clients <- OneClient
    NoClient = none
    Decodable <- OneClient
    Requests <- TwoRequests
    Tokens <- TwoTokens
    NoToken = none
    Total = 2
    ChildRows = {"sheet_job", "tags"}
    MaxRows = 3
    MaxRetry = 2
    MaxCrashes = 1
    Faults = {"error", "cancel", "drain_error", "requeue"}
SYMMETRY Symmetry
INVARIANTS JobXorExpenses BookedOnce OneWorker
PROPERTIES ImplementsLedger
CHECK_DEADLOCK FALSE
