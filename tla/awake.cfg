SPECIFICATION Spec
CONSTANTS
    NumActions = 3
    Robots = {r1, r2}
    RobotOf <- MCRobotOf
    DependsOn <- MCDependsOn
    Proposals = {plan, extra}
    ProposalOf <- MCProposalOf
    Watches = {w1, w2}
    NoWatch = none
    Policies = {strict, lax}
    Malformed = malformed
    RequiresApproval <- MCRequiresApproval
    Unguided <- MCUnguided
    AllowsReplay = {}
    BlockableRobots = {r1}
    MaySuspend = FALSE
    MaxEdits = 2
    MaxFaults = 1
    strict = strict
    lax = lax
    r1 = r1
    r2 = r2
    plan = plan
    extra = extra
SYMMETRY Sessions
CHECK_DEADLOCK FALSE
INVARIANTS
    OneClaimPerRobot
    SoleHardwareUser
    RunsOnStandingClaim
PROPERTIES
    KeepsPromise
