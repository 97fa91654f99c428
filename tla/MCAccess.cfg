SPECIFICATION Spec
CONSTANTS
  v1 = v1
  v2 = v2
  t1 = t1
  t2 = t2
  s1 = s1
  c1 = c1
  r1 = r1
  r2 = r2
  Vaults = {v1, v2}
  Absent = none
  Terminals = {t1, t2}
  Scripts = {s1}
  Portal = portal
  Reqs = {r1, r2}
  Creds = {c1}
  Texts <- MCTexts
  StartText <- MCStartText
  Workloads <- MCWorkloads
  SessionTTL = 2
  SessionIdle = 1
  OnceTTL = 1
  BackoffBase = 1
  BackoffMax = 2
  MaxTime = 3
  MaxTokens = 2
  MaxOnce = 3
  MaxAgain = 1
INVARIANT
  UnlockRecordsBelong
PROPERTIES
  BackoffHolds
  SessionsAreEarned
CHECK_DEADLOCK FALSE
SYMMETRY Symmetry
