CONSTANTS
    Protocols = {"TokenBridge"}
    Drivers = {"check"}
    Starts = {"initiate"}
    Signers = {TRUE}
    Redeemers = {FALSE}
    Failures = {FALSE}
SPECIFICATION FairSpec
PROPERTY OpportunityTaken
\* a transfer shown as final is not asked about again
CHECK_DEADLOCK FALSE
