SPECIFICATION HSpec
CONSTANTS
  c1 = c1
  c2 = c2
  Conns <- MCConns
  Envs <- MCEnvs
  Names <- MCNames
  PutCarries <- MCPutCarries
  Workloads <- MCWorkloads
  Targets <- MCTargets
  MaxNotes = 1
  UpdateIsFree = FALSE
  MaxRequests = 4
SYMMETRY ConnSymmetry
INVARIANTS TrailTells OfItsObject RevealIsOfTheRun
CHECK_DEADLOCK FALSE
