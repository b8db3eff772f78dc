CONSTANTS
    food = food fun = fun trip = trip holiday = holiday other = other
    shop = shop envelope = envelope
    Categories = {food, fun}
    Events = {trip}
    Tags = {holiday}
    Names <- MCNames
    FirstName <- MCFirstName
    Wild = Wild
    Gone = Gone
    Cells = {shop, envelope}
    Tabs <- MCTabs
    NoTab = NoTab
    Times = {t1, t2, t3, t4, t5}
    NoTime = NoTime
    MaxEdits = 2
    MaxChanges = 1
    MaxFaults = 1
SPECIFICATION FairSpec
INVARIANTS CacheVouches MappingRefersToCatalog ProjectionsAgree
PROPERTIES EditReachesTables
CHECK_DEADLOCK FALSE
