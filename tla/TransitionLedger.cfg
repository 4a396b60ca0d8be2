CONSTANTS
    Runners = {r1, r2}
    Owners = {hub}
    OwnerOf <- MCOwnerOf
    Transitions = {c1}
    Commands = {c1}
    LastEffect = 2
    MaxAttempts = 2
    LeaseSeconds = 2
    MaxDelay = 1
    MaxRevision = 1
    MaxFaults = 2
    None = None
SPECIFICATION Spec
SYMMETRY RunnerSymmetry
INVARIANTS
    TypeOK
    ReceiptMirrors
    OrderedLedger
    EffectProven
    AggregateReadable
    FencingTokenUnique
    SnapshotStillCurrent
    ReservedWithinBudget
    ClaimsWithinBudget
CHECK_DEADLOCK FALSE
