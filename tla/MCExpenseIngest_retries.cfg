CONSTANTS
    coffee = coffee hotel = hotel trip = trip holiday = holiday
    Clients = {coffee, hotel}
    Events = {trip}
    Tags = {holiday}
    Payload <- MCPayload
    FirstCategory = {"inactive"}
    FirstRates = {"stale"}
    Tabs = {tab1, tab2}
    Requests = {p1, p2}
    MaxRows = 3
    MaxFaults = 1
    MaxChanges = 1
    NoRow = NoRow NoEvent = NoEvent NoTab = NoTab NoClient = NoClient
SPECIFICATION FairSpec
INVARIANTS NothingLost RecordedOnce
PROPERTIES ReplayPasses ConflictHasCause QueueEmpties
CHECK_DEADLOCK FALSE
