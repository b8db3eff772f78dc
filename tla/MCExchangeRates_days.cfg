CONSTANTS
    eur = eur usd = usd
    Currencies = {eur, usd}
    Pairs <- MCPairs
    Home <- Direct
    LastDay = 3
    Working = {1, 2}
    Lookback = 3
    Threads = {drain}
    Prefetch = prefetch
    MaxOutages = 1
SPECIFICATION FairSpec
INVARIANTS NothingMasquerades
PROPERTIES RateOfTheDay
CHECK_DEADLOCK FALSE
