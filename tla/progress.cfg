SPECIFICATION FairSpec
CONSTANTS
    NumActions = 2
    Robots = {r1, r2}
    RobotOf <- MCRobotOf
    DependsOn <- MCDependsOn
    Proposals = {plan, extra}
    ProposalOf <- MCProposalOf
    Watches = {w1, w2}
    NoWatch = none
    Policies = {strict, lax}
    Malformed = malformed
    RequiresApproval <- MCRequiresApproval
    Unguided <- MCUnguided
    AllowsReplay = {lax}
    BlockableRobots = {}
    MaySuspend = FALSE
    MaxEdits = 1
    MaxFaults = 1
    strict = strict
    lax = lax
    r1 = r1
    r2 = r2
    plan = plan
    extra = extra
CHECK_DEADLOCK FALSE
PROPERTIES
    EveryActionSettles
    ClaimsAreReturned
