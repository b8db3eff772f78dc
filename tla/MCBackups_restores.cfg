SPECIFICATION Spec
CONSTANTS
    MaxDay = 4
    WeekOf <- Weeks
    MonthOf <- Months
    YearOf <- Years
    Daily = 2
    Weekly = 2
    Monthly = 1
    StaleDays = 1
    MaxWrites = 1
    MaxSnapshots = 4
    MaxCommands = 2
    Faults = {}
INVARIANTS HistoryKept NothingWithoutTrace ProdRunsAgain StatusIsTrue
CHECK_DEADLOCK FALSE
