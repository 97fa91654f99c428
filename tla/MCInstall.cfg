CONSTANTS
    Vaults = {a, b}
    Workloads <- Loads
    MaxGen = 2
SPECIFICATION Spec
ACTION_CONSTRAINT Undisturbed
INVARIANTS
    VaultsKept
    ServiceHasTheVaults
    SetupReachesTheOwner
CHECK_DEADLOCK FALSE
