CONSTANTS
    Engine = {e1, e2}
    Process = {1, 2, 3}
    Rule = {r1, r2}
    Concurrent = 1
SPECIFICATION EngineSpec
SYMMETRY Symmetric
INVARIANTS EngineTypeOK Exclusive Undoable DependenciesFirst ToldTheTruth
PROPERTY RollbackFirst
CHECK_DEADLOCK FALSE
