SPECIFICATION Spec
CONSTANTS
    Watches = {w1, w2, w3}
    NoWatch = none
    NumRobots = 3
    ActionTimeout = 2
    SlowestCapability <- MCSlowestCapability
    ConnectTimeout = 1
    ObserveTimeout = 1
    HeartbeatTimeout = 1
    HaltTimeout = 3
    Slack = 6
    Floor = 3
    TickPeriod = 1
    Lag = 1
SYMMETRY Sessions
CHECK_DEADLOCK FALSE
INVARIANTS
    TypeOK
    CallsUnderLease
    LeaseOutlastsRuntime
