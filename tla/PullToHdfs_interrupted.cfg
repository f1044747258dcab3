CONSTANTS
    Collector = {c1, c2}
    Size = 2
    Retries = 2
    MaxFaults = 5
    MaxTogether = 1
SPECIFICATION FairSpec
INVARIANTS TypeOK Complete Kept OneReader
PROPERTY Recovers
CHECK_DEADLOCK FALSE
