CONSTANTS
    Purchases = {1, 2, 3}
    Goods = {3}
    Creators = {1, 2}
    CreatorOf <- TwoCreators
    Earnings <- PriceOfId
    Hooks = {h1, h2}
    Routes = {}
    Jobs = {j1}
    May = {"overlap", "duplicate", "restrict", "unfit"}
    MaxDeaths = 1
    MaxLosses = 1
SPECIFICATION Spec
INVARIANTS TypeOK GoodsHeld GoodsOwed ReceiptsOwed AccessFollowsMoney
CHECK_DEADLOCK FALSE
