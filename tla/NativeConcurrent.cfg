CONSTANTS
    h1 = h1
    h2 = h2
    Hubs = {h1, h2}
    N = 1
    Edges <- NoEdges
    Verdicts <- NoVerdicts
    Kind <- Tasks
    Gate <- NoGates
    JoinAll = {}
    Continue = {}
    Omit = {}
    Required = {}
    Parallel = 2
    MaxAttempts = 2
    NodeAttempts <- TwoAttempts
    Outcomes <- AllOutcomes
    CommandKinds = {"cancel", "retry"}
    MaxCommands = 2
    MaxRevision = 3
    MaxCrashes = 1
    IdleTicks = FALSE
    LeasesExpire = TRUE
    Gatewayed = {1}
    SideEffects = {1}
    Refusable = {}
SPECIFICATION Spec
INVARIANTS
    CheckpointChain
    CheckpointReplaysLog
    CommandOnce
    OwnershipAgrees
    KnownDelegationsFenced
PROPERTIES
    CompletedIsFinal
SYMMETRY HubSymmetry
CHECK_DEADLOCK FALSE
