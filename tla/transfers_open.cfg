CONSTANTS
    Credits <- MCCredits
    Sales <- MCSales
    Nettings <- MCNettings
    Disputes <- MCDisputes
    Price <- MixedPrice
    Share <- MCShare
    CompensationOf <- MCCompensationOf
    RefundOf <- MCRefundOf
    MaxFaults = 2
    Quiet = FALSE
SPECIFICATION Spec
INVARIANTS TypeOK CoveredOnce RecordMatchesStripe NettedWithTheMove NettingWithinBounds BooksBalance
