SPECIFICATION GSpec
CONSTANTS
    q1 = q1
    q2 = q2
    s1 = s1
    NoAgent = NoAgent
    Agents = {}
    Questions = {q1}
    Subjects = {s1}
    SubjectOf <- MCSubjectOf
    KindOf <- MCKindOf
    DefaultTTL = 1
    ActionGrantFor = 1
    AdhocGrantFor = 1
    OnceGrantWindow = 1
    DenialHoldFor = 1
    MaxPendingPerProject = 2
    MaxDenialsBeforeHold = 2
    GrantWindows <- MCGrantWindows
    AskOnceChoices = {FALSE}
    StoreMayFail = FALSE
    e1 = e1
    e2 = e2
    Execs = {e1, e2}
    Approvers = {h1}
    MaxRequests = 2
    MaxTime = 3
INVARIANT OnceRunsOnce
CHECK_DEADLOCK FALSE
