CONSTANTS
    Purchases = {1, 2}
    Goods = {2}
    Creators = {1}
    CreatorOf <- TwoCreators
    Earnings <- PriceOfId
    Hooks = {h1}
    Routes = {r1}
    Jobs = {j1}
    May = {"decline", "restrict", "refund", "underfund", "unfit"}
    MaxDeaths = 2
    MaxLosses = 1
SPECIFICATION FairSpec
INVARIANTS HoldGoesWithRefund ShareRecovered
PROPERTIES ChargeCompletes DebtsArePaid
CHECK_DEADLOCK FALSE
