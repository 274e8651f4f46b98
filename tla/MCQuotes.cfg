CONSTANTS
    Routes <- EveryRoute
    MaxDecimals = 1
    Decimals = {0, 1, 2, 3}
    Texts <- SomeTexts
    GasShares = {0, 2500, 9999, 10000}
    RelayerFees = {20, 40}
    Limits = {30, 500}
    DeciBps = {0, 12500, 33333, 100000}
    NativeFees = {0, 7}
    Costs = {3}
    MessageFee = 1
SPECIFICATION Spec
INVARIANT ScaleIsExact DisplayParses QuoteIsDelivered PaysWhatIsQuoted ResumeFindsAmount ValidatedIsAccepted
\* a transfer that was initiated or refused is done
CHECK_DEADLOCK FALSE
