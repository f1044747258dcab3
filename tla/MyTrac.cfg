CONSTANTS
    p1 = p1
    p2 = p2
    f1 = f1
    f2 = f2
    NoOne = NoOne
    Process <- Processes
    File <- Files
    Transaction <- Transactions
    Mode = {"async", "sync"}
    MaxTransactions = 3
    MaxFaults = 1
    MaxInodes = 6
SPECIFICATION ReducedSpec
INVARIANTS TypeOK Agree AbortedGone
PROPERTIES CommitsOwn Ends
CHECK_DEADLOCK FALSE
