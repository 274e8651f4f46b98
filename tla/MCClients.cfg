CONSTANTS
    Plans <- Operations
    Faults = TRUE
    MaxRuns <- TwoRunsAndOne
SPECIFICATION Spec
INVARIANT CleanRunSucceeds NoApprovalLeft
PROPERTY ImplementsOperation
\* the runs of the parties are bounded
CHECK_DEADLOCK FALSE
