CONSTANTS
    Protocols = {"ExecutorTokenBridge"}
    Drivers = {"track"}
    Starts = {"identifier"}
    Signers = {FALSE}
    Redeemers = {TRUE}
    Failures = {FALSE}
SPECIFICATION Spec
INVARIANT OriginAtHand
\* a transfer shown as final is not asked about again
CHECK_DEADLOCK FALSE
