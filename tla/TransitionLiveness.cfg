CONSTANTS
    Runners = {r1, r2}
    Owners = {hub}
    OwnerOf <- MCOwnerOf
    Transitions = {c1}
    Commands = {c1}
    LastEffect = 1
    MaxAttempts = 2
    LeaseSeconds = 1
    MaxDelay = 1
    MaxRevision = 1
    MaxFaults = 2
    None = None
SPECIFICATION FairSpec
PROPERTIES
    StagedSettles
CHECK_DEADLOCK FALSE
