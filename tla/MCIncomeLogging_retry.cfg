SPECIFICATION FairIncomeSpec
CONSTANTS
    Incomes = {1, 2}
    MaxMonth = 2
    InYear = 1
    Undated = {}
    MaxAmount = 1
    MaxFailures = 2
    MaxOutages = 1
    Failures = {"transient", "lost", "permanent", "locked", "requeue", "norate"}
INVARIANTS SheetCurrent
PROPERTIES PendingIsTried
CHECK_DEADLOCK FALSE
