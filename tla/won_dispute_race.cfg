CONSTANTS
    Credits <- MCCredits
    Sales <- MCSales
    Nettings <- MCNettings
    Disputes <- MCDisputes
    Price <- PositivePrice
    Share <- MCShare
    CompensationOf <- MCCompensationOf
    RefundOf <- MCRefundOf
    MaxFaults = 1
    Quiet = FALSE
SPECIFICATION Spec
INVARIANT WonDisputeRepays
