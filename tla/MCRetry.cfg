CONSTANTS
    Timeout = 7
    Interval = 2
    Latency = 2
SPECIFICATION FairSpec
INVARIANT TypeOK
INVARIANT Deadline
PROPERTY NoCallAfterSettled
PROPERTY ImplementsContract
PROPERTY Settles
\* the loop ends once the promise is settled and no call is in flight
CHECK_DEADLOCK FALSE
