CONSTANTS
    Vaults = {a, b}
    Workloads <- LoadsForced
    MaxGen = 2
SPECIFICATION Spec
INVARIANTS
    VaultsKept
CHECK_DEADLOCK FALSE
