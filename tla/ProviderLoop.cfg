SPECIFICATION Spec
CONSTANTS
    Run = run
    None = none
    Nodes = {n1, n2}
    Plan <- TwoThenOne
    Reserve <- OnePerCall
    Usages = {1, 3}
    RunLimit <- TightRun
    NodeLimit <- NodeShare
    Tries = 2
    MaxTurns = 2
    MaxFaults = 1
    UnreportedIsZero = FALSE
SYMMETRY NodeSymmetry
CHECK_DEADLOCK FALSE
INVARIANTS
    ChargesAddUp
    CallsWithinPlan
    WithinBudget
    SpendIsCharged
