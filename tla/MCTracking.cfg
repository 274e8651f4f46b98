CONSTANTS
    Protocols = {"TokenBridge", "ExecutorTokenBridge"}
    Drivers = {"track", "check"}
    Starts = {"initiate", "resume", "identifier"}
    Signers = {TRUE, FALSE}
    Redeemers = {TRUE, FALSE}
    Failures = {TRUE, FALSE}
SPECIFICATION FairSpec
INVARIANT TypeOK UserRedeemsOnce
PROPERTY ImplementsView RedeemedIsShown RelayFailureIsShown AttestedIsFinalized
\* a transfer shown as final is not asked about again
CHECK_DEADLOCK FALSE
