SPECIFICATION Spec
CONSTANTS
    MaxExpenses = 3
    MaxKeys = 3
    PerMonth = 2
    Cap = 2
    Unrated = {}
    MaxFaults = 2
    MaxCrashes = 0
    Faults = {"transient", "lost"}
INVARIANTS LoggedOnce SheetInOrder SnapshotCurrent
CHECK_DEADLOCK FALSE
