CONSTANTS
    Purchases = {1, 2}
    Goods = {}
    Creators = {1, 2}
    CreatorOf <- TwoCreators
    Earnings <- PriceOfId
    Hooks = {h1}
    Routes = {r1}
    Jobs = {j1}
    May = {"overlap", "duplicate", "refund", "underfund", "dashboard", "dispute", "unfit"}
    MaxDeaths = 1
    MaxLosses = 0
SPECIFICATION Spec
INVARIANTS RecoveredOneWay ShareRecovered BookedOnce AccessFollowsMoney
CHECK_DEADLOCK FALSE
