SPECIFICATION FairSpec

CONSTANTS
    t1 = t1
    t2 = t2
    NoOne = NoOne
    Tasks = {t1, t2}
    Early = {t1, t2}
    DependsOn <- Chain
    Threads = {th1, th2}
    Agents = {w1}
    Online = {w1}
    Destined = {t2}
    HumanReview = TRUE
    OnDeclined = {"needs_review", "failed", "advisory"}
    Concurrency = 2
    Attempts = 1
    ActiveRetries = 1
    ReviewRetries = 1
    RepairRounds = 1
    Results = {"completed", "failed"}
    Interventions = {"cancel"}
    MaxClaims = 0
    MaxOperations = 1
    MaxFaults = 1
    MaxAborts = 0
    MaxCrashes = 1
    MaxEvents = 9

CHECK_DEADLOCK FALSE

PROPERTIES
    TaskSettles
