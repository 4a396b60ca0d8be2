SPECIFICATION Spec

CONSTANTS
    t1 = t1
    t2 = t2
    NoOne = NoOne
    Tasks = {t1, t2}
    Early = {t2}
    DependsOn <- Chain
    Threads = {th1, th2}
    Agents = {w1, w2}
    Online = {w1}
    Destined = {t2}
    HumanReview = TRUE
    OnDeclined = {"needs_review", "failed", "advisory"}
    Concurrency = 2
    Attempts = 1
    ActiveRetries = 1
    ReviewRetries = 1
    RepairRounds = 1
    Results = {"completed", "failed", "todo", "waiting", "blocked"}
    Interventions = {"cancel", "pause", "resume", "retry", "approve"}
    MaxClaims = 2
    MaxOperations = 2
    MaxFaults = 2
    MaxAborts = 1
    MaxCrashes = 1
    MaxEvents = 2

CHECK_DEADLOCK FALSE

SYMMETRY ThreadSymmetry
INVARIANTS
    TypeOK
    
    DispatchedDependentsWait

