CONSTANTS
    maxi = maxi Maxi = Maxi Mini = Mini milk = milk
    food = food home = home r1 = r1 r2 = r2
    Receipts = {r1, r2}
    Lines = {11, 12, 21}
    ReceiptOf <- MCReceiptOf
    Name <- MCName
    Names = {milk}
    Blank = Blank
    Shop <- MCShop
    Shops = {maxi}
    NoShop = NoShop
    Legacy = {maxi}
    Chains = {Maxi, Mini}
    NoChain = NoChain
    Journal <- MCJournal
    OldReceipts = {r1}
    Categories = {food, home}
    Answers <- MCAnswers
    MaxCalls = 2
    MaxRules = 2
    MaxTouches = 2
    NoRow = NoRow
SPECIFICATION Spec
INVARIANTS Consistent BookedRulesListed RatedOnce RatingsFair FeedPagesComplete
PROPERTIES SettledBeforePass
SYMMETRY MCSymmetry
CHECK_DEADLOCK FALSE
