SPECIFICATION LiveSpec
CONSTANTS
    c1 = c1  c2 = c2  a1 = a1  a2 = a2  t1 = t1  t2 = t2  none = none
    MaxReceipts = 2
    Clients <- TwoClients
    NoClient = none
    Decodable = {}
    Requests <- OneRequest
    Tokens <- TwoTokens
    NoToken = none
    Total = 1
    ChildRows = {}
    MaxRows = 1
    MaxRetry = 1
    MaxCrashes = 1
    Faults = {}
INVARIANTS NoLostWakeup
PROPERTIES ClaimsEnd DueIsPickedUp
