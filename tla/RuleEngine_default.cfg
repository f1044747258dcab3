CONSTANTS
    Engine = {e1}
    Process = {1, 2, 3, 4}
    Rule = {r1, r2}
    Concurrent = 5
SPECIFICATION EngineSpec
SYMMETRY Symmetric
INVARIANT DependenciesFirst
CHECK_DEADLOCK FALSE
