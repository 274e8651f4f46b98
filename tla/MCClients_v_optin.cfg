CONSTANTS
    Plans = {"AlgorandRedeem"}
    Faults = FALSE
    MaxRuns <- TwoRunsAndOne
SPECIFICATION Spec
INVARIANT OptInIsSeen
CHECK_DEADLOCK FALSE
