CONSTANTS
    Engine = {e1}
    Process = {1, 2, 3, 4, 5, 6}
    Rule = {r1, r2, r3}
    Concurrent = 2
SPECIFICATION FairBriskSpec
INVARIANT AtMostConcurrent
PROPERTY EngineFinishes
CHECK_DEADLOCK FALSE
