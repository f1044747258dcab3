CONSTANTS
    Collector = {c1, c2}
    Size = 2
    Retries = 2
    MaxFaults = 0
    MaxTogether = 0
SPECIFICATION Spec
SYMMETRY Symmetric
INVARIANT Whole
CHECK_DEADLOCK FALSE
