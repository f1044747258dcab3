CONSTANTS
    Server = {s1, s2}
    Client = {c1, c2}
    Roaming = TRUE
    Deletes = {}
    MaxWrites = 5
SPECIFICATION Spec
SYMMETRY Symmetric
INVARIANT NoSilentLoss
CHECK_DEADLOCK FALSE
