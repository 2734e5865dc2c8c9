SPECIFICATION DriftSpec
CONSTANTS
    NumActions = 2
    Robots = {r1, r2}
    RobotOf <- DriftRobotOf
    DependsOn <- DriftDependsOn
    Proposals = {plan, extra}
    ProposalOf <- DriftProposalOf
    Watches = {w1, w2}
    NoWatch = none
    Policies = {strict, lax}
    Malformed = malformed
    RequiresApproval <- NoRestriction
    Unguided <- NoRestriction
    AllowsReplay = {}
    BlockableRobots = {}
    MaySuspend = FALSE
    MaxEdits = 1
    MaxFaults = 0
    strict = strict
    lax = lax
    r1 = r1
    r2 = r2
    plan = plan
    extra = extra
CHECK_DEADLOCK FALSE
PROPERTIES
    DriftRefusesProposal
