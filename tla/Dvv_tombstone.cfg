CONSTANTS
    Server = {s1, s2}
    Client = {c1, c2}
    Roaming = FALSE
    Deletes = {"soft"}
    MaxWrites = 3
SPECIFICATION Spec
SYMMETRY Symmetric
INVARIANT NoSilentLoss
CHECK_DEADLOCK FALSE
