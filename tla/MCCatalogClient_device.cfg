CONSTANTS
    food = food pets = pets home = home base = base mine = mine
    lake = lake red = red simple = simple
    FactoryCodes = {food}
    UserCodes = {pets}
    MatchU = {}
    GroupCodes = {home}
    Labels = {base, mine}
    GroupNames = {home}
    EventNames = {lake}
    TagNames = {red}
    Templates <- OneTemplate
    Releases <- OneRelease
    MaxGroups = 1
    MaxEvents = 1
    MaxTags = 1
    MaxExpenses = 0
    MaxVersion = 3
    MaxBoots = 1
    NoRow = NoRow NoCode = NoCode NoTemplate = NoTemplate Same = Same
SPECIFICATION ClientSpec
INVARIANTS CurrentUnlessMissed
CHECK_DEADLOCK FALSE
