CONSTANTS
    Runners = {r1, r2}
    Owners = {hub}
    OwnerOf <- MCOwnerOf
    Transitions = {c1, t1}
    Commands = {c1}
    LastEffect = 1
    MaxAttempts = 2
    LeaseSeconds = 1
    MaxDelay = 1
    MaxRevision = 2
    MaxFaults = 1
    None = None
SPECIFICATION Spec
SYMMETRY RunnerSymmetry
INVARIANTS
    MarkerExclusive
    BindingFrozen
    ReservationRaceConfined
PROPERTIES
    SettledForGood
    DurableEffects
CHECK_DEADLOCK FALSE
