CONSTANTS
    alice = alice
    bob = bob
    Callers = {alice}
    Directions = {"in"}
    Starts = {"transaction"}
    Fees = {1}
    Payloads = {FALSE}
    Faults = FALSE
    MaxTransfers = 1
SPECIFICATION FairSpec
PROPERTY InFlightIsFound
\* a transfer that is complete has nothing left to do
CHECK_DEADLOCK FALSE
