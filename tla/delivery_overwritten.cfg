CONSTANTS
    Parts = {"shipments"}
    Goods = {"tee", "mug"}
    Stock <- TwoTeesOneMug
    Buyers = {1, 2}
    Baskets <- SmallAndBig
    Visits = {1, 2}
    VisitorOf <- OneTabEach
    Sessions = {1, 2}
    Sweeps = {1}
    MaxEdits = 0
    MaxMishaps = 0
    Parcels = {1}
    Clerks = {1, 2}
    Fallback = 2
    Window = 3
    Lag = 1
    MaxMissed = 1
    LastDay = 10
    Entries = {"book", "game"}
    Library = {"book"}
    MaxAttempts = 2
    MaxChanges = 2
    MaxQueued = 2
    MaxStops = 1
    MaxFaults = 2
    Supporters = {"sam", "tom"}
    Creators = {"ann", "bob"}
    Invoices = {1, 2}
    PayerOf <- SamPays
    PaysTo <- AnnThenBob
    Stickers = {1}
    GiverOf <- SamGives
    RecipientOf <- ToBob
    Watched <- TheyWatch
    MaxUpsets = 1
    MaxFailures = 1
SPECIFICATION Spec
PROPERTY DeliveryKept
CHECK_DEADLOCK FALSE
