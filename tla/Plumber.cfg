CONSTANTS
    Request = {r1, r2}
    Cookie = {k1, k2}
    FreshCookies = TRUE
    MaxCalls = 2
SPECIFICATION FairSpec
INVARIANTS TypeOK Accounted NothingRepeated AcknowledgedFirst
PROPERTY ExitReported
CHECK_DEADLOCK FALSE
