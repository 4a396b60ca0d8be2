CONSTANTS
    h1 = h1
    Hubs = {h1}
    N = 4
    Edges <- JoinEdges
    Verdicts <- JoinVerdicts
    Kind <- JoinKind
    Gate <- JoinGates
    JoinAll = {}
    Continue = {2, 3}
    Omit = {}
    Required = {}
    Parallel = 1
    MaxAttempts = 2
    NodeAttempts <- TwoAttempts
    Outcomes <- AllOutcomes
    CommandKinds = {"approve", "reject", "pause", "resume", "cancel", "retry"}
    MaxCommands = 2
    MaxRevision = 10
    MaxCrashes = 1
    IdleTicks = FALSE
    LeasesExpire = TRUE
    Gatewayed = {3}
    SideEffects = {2}
    Refusable = {3}
SPECIFICATION FairSpec
INVARIANTS
    MergedBranchesComplete
    ParallelBounded
PROPERTIES
    RunSettles
CHECK_DEADLOCK FALSE
