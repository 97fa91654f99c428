SPECIFICATION ESpec
CONSTANTS
    Callers = {"agent", "owner"}
    ProjNames = {"default", "web", "api"}
    DefProj = "default"
    EnvNames = {"default", "prod", "old"}
    DefEnv = "default"
    ProdEnv = "prod"
    VarNames = {"x", "y"}
    Manifests <- MCManifests
    LegacyRows <- MCLegacyRows
    MaxProj = 2
    MaxEnv = 3
    MaxOps = 3
    CredsOf <- MCCredsOf
INVARIANTS RowsOpen WildcardDelivers OwnValuesOnly
