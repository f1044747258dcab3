CONSTANTS
    Server = {s1, s2, s3}
    Client = {c1, c2}
    Roaming = FALSE
    Deletes = {"soft"}
    MaxWrites = 4
SPECIFICATION Spec
SYMMETRY Symmetric
PROPERTY ImplementsRegister
CHECK_DEADLOCK FALSE
