CONSTANTS
    Purchases = {1, 2}
    Goods = {2}
    Creators = {1, 2}
    CreatorOf <- TwoCreators
    Earnings <- PriceOfId
    Hooks = {h1}
    Routes = {}
    Jobs = {}
    May = {"dashboard"}
    MaxDeaths = 0
    MaxLosses = 0
SPECIFICATION Spec
INVARIANT HoldGoesWithRefund
CHECK_DEADLOCK FALSE
