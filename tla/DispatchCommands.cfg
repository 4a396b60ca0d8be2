CONSTANTS
    None = None
    c1 = c1
    c2 = c2
    a1 = a1
    r1 = r1
    d1 = d1
    t1 = t1
    Commands = {c1, c2}
    Plain = {a1}
    Requests = {r1}
    Drains = {d1}
    Tickers = {t1}
    Denied = {c2}
    Last = 3
    MaxRequests = 2
    MaxCrashes = 1
    MaxSlow = 1
    ClaimsExpire = FALSE
SPECIFICATION FairSpec
INVARIANTS
    AppliedOnce
    CompletedWasApplied
PROPERTIES
    ReceiptSettles
    StatusCatchesUp
CHECK_DEADLOCK FALSE
