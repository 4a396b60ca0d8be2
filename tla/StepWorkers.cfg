CONSTANTS
    s1 = s1
    w1 = w1
    w2 = w2
    p1 = p1
    Steps = {s1}
    Threads = {w1, w2}
    Processes = {p1}
    ProcessOf <- OneProcess
    RetryIds = {provider}
    provider = provider
    MaxAttempts = 3
    MaxDeliveries = 3
    MaxRestarts = 1
    MaxLost = 1
    LeasesExpire = TRUE
SPECIFICATION Spec
INVARIANTS
    NoRepeatWithNonces
    LedgerTruthful
    AcknowledgedIsDone
    RetriesWithinBudget
SYMMETRY ThreadSymmetry
CHECK_DEADLOCK FALSE
