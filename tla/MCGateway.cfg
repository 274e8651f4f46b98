CONSTANTS
    alice = alice
    bob = bob
    Callers <- TwoCallers
    Directions = {"in", "out", "hop"}
    Starts = {"details", "transaction"}
    Fees = {0}
    Payloads = {FALSE}
    Faults = TRUE
    MaxTransfers = 2
SPECIFICATION FairSpec
INVARIANT HopsAreMine StateIsTrue
PROPERTY AttestedIsWhole StateImplementsView AttestationArrives
\* a transfer that is complete has nothing left to do
CHECK_DEADLOCK FALSE
