CONSTANTS
    Server = {s1, s2}
    Client = {c1, c2}
    Roaming = FALSE
    Deletes = {"soft", "hard", "siblings"}
    MaxWrites = 4
SPECIFICATION FairSpec
INVARIANTS TypeOK CountersAreGtids OnlyDeletionsLose NoFalseConflict SiblingsAnnounced Convergence
PROPERTIES CountersGrow EverythingReplicated
CHECK_DEADLOCK FALSE
