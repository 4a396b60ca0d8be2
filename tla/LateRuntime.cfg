CONSTANTS
    Runners = {r1}
    Owners = {hub}
    OwnerOf <- MCOwnerOf
    Transitions = {c1}
    Commands = {c1}
    LastEffect = 1
    MaxAttempts = 2
    LeaseSeconds = 1
    MaxDelay = 1
    MaxRevision = 1
    MaxFaults = 0
    None = None
SPECIFICATION Spec
INVARIANT LateRuntimeRetried
CHECK_DEADLOCK FALSE
