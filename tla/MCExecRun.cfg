SPECIFICATION Spec
CONSTANTS
  r1 = r1
  r2 = r2
  Runs = {r1, r2}
  Workloads <- MCWorkloads
  Hosts <- MCHosts
  Platform = "linux"
  MaxPolls = 2
  MaxCrashes = 1
INVARIANTS
  OwnerRunIsVouched
  SubtreeReaped
  LapsedTokenStartsNothing
PROPERTY RunsSettle
CHECK_DEADLOCK FALSE
