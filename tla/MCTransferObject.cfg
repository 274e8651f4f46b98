CONSTANTS
    alice = alice
    bob = bob
    carol = carol
    Callers <- ThreeCallers
    Starts = {"details", "identifier", "transaction"}
    Faults = TRUE
    MaxTransfers = 2
SPECIFICATION Spec
INVARIANT AttestedCanComplete StateIsTrue
PROPERTY StateImplementsView ReceiptImplementsView
SYMMETRY Symmetry
\* a completed transfer has nothing left to do
CHECK_DEADLOCK FALSE
