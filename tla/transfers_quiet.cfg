CONSTANTS
    Credits <- MCCredits
    Sales <- MCSales
    Nettings <- MCNettings
    Disputes <- MCDisputes
    Price <- PositivePrice
    Share <- MCShare
    CompensationOf <- MCCompensationOf
    RefundOf <- MCRefundOf
    MaxFaults = 2
    Quiet = TRUE
SPECIFICATION FairSpec
INVARIANTS PaidOnce WonDisputeRepays
PROPERTIES LedgerSpec DueCreditsSettle
