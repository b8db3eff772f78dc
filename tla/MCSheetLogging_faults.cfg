SPECIFICATION FairSpec
CONSTANTS
    MaxExpenses = 2
    MaxKeys = 2
    PerMonth = 1
    Cap = 2
    Unrated = {1}
    MaxFaults = 2
    MaxCrashes = 1
    Faults = {"transient", "lost", "permanent", "norate", "locked", "requeue", "remap"}
PROPERTIES ImplementsOutbox QueueMoves
CHECK_DEADLOCK FALSE
