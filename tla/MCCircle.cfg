CONSTANTS
    alice = alice
    bob = bob
    Callers <- TwoCallers
    Starts = {"details", "message", "transaction"}
    Faults = TRUE
    MaxTransfers = 2
SPECIFICATION FairSpec
INVARIANT AttestedIsRedeemable StateIsTrue
PROPERTY ReceiptImplementsView TrackImplementsView RedeemedIsShown AutomaticIsAttested CompletionIsSeen
\* a final transfer has nothing left to do
CHECK_DEADLOCK FALSE
