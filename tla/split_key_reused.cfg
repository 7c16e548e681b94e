CONSTANTS
    Purchases = {1, 2}
    Goods = {}
    Creators = {1, 2}
    CreatorOf <- TwoCreators
    Earnings <- SameEarnings
    Hooks = {h1}
    Routes = {}
    Jobs = {j1}
    May = {}
    MaxDeaths = 1
    MaxLosses = 0
SPECIFICATION Spec
INVARIANT StampIsTheTransfer
CHECK_DEADLOCK FALSE
