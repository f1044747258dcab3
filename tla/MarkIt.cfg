CONSTANTS
    w1 = w1
    w2 = w2
    m1 = m1
    m2 = m2
    Window <- Windows
    Mark = {m1, m2}
    Unreadable = {m2}
    MaxClicks <- Clicks
    MaxSaves = 2
    MaxEdits = 2
SPECIFICATION OpenThenUseSpec
INVARIANTS TypeOK OneDialog LoadingIsLoading NoDuplicates
PROPERTIES NothingForgotten TagsKept Appears
CHECK_DEADLOCK FALSE
