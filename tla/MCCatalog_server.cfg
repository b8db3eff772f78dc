CONSTANTS
    food = food fruit = fruit utilities = utilities pets = pets
    home = home fun = fun base = base mine = mine lake = lake red = red blue = blue
    simple = simple family = family
    FactoryCodes = {food, fruit, utilities}
    UserCodes = {pets}
    MatchU = {utilities}
    GroupCodes = {home, fun}
    Labels = {base, mine}
    GroupNames = {home, fun}
    EventNames = {lake}
    TagNames = {red}
    Templates <- MCTemplates
    Releases <- MCReleases
    MaxGroups = 2
    MaxEvents = 1
    MaxTags = 1
    MaxExpenses = 1
    MaxVersion = 4
    MaxBoots = 1
    NoRow = NoRow NoCode = NoCode NoTemplate = NoTemplate Same = Same
SPECIFICATION Spec
INVARIANTS Consistent
PROPERTIES VersionMarks UsedStaysActive HiddenSticky
CHECK_DEADLOCK FALSE
