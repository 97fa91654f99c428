CONSTANTS
    Vaults = {a, b}
    Workloads <- Loads
    MaxGen = 2
SPECIFICATION Spec
INVARIANTS
    RerunIsClean
CHECK_DEADLOCK FALSE
