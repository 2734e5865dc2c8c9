SPECIFICATION FairSpec
CONSTANTS
    Services = {s1}
    Shells = {c1}
    NoProcess = none
    NumRobots = 2
    HaltOnShutdown = TRUE
CHECK_DEADLOCK FALSE
INVARIANTS
    TypeOK
    OneExecutor
    ModeTellsTruth
    PhaseTellsTruth
PROPERTIES
    WaitingEnds
    ShutdownEnds
