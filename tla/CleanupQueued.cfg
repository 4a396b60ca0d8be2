SPECIFICATION Spec

CONSTANTS
    NoOne = NoOne
    Tasks = {t1, t2}
    Artifacts = {a1, a2}
    Registered = {a1}
    Clients = {c1, c2}
    MaxRequests = 2
    MaxCrashes = 1

CHECK_DEADLOCK FALSE
SYMMETRY ClientSymmetry

INVARIANT
    QueuedHasTask
