CONSTANTS
    Vaults = {a, b}
    Workloads <- LoadsRace
    MaxGen = 2
SPECIFICATION Spec
INVARIANTS
    VaultsKept
CHECK_DEADLOCK FALSE
