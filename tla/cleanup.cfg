SPECIFICATION Spec
CONSTANTS
    Services = {s1}
    Shells = {c1}
    NoProcess = none
    NumRobots = 1
    HaltOnShutdown = TRUE
CHECK_DEADLOCK FALSE
INVARIANTS
    CleanedUpBeforeHandover
