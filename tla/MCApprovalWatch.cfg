SPECIFICATION WSpec
CONSTANTS
    q1 = q1
    s1 = s1
    NoAgent = NoAgent
    Agents = {}
    Questions = {q1}
    Subjects = {s1}
    SubjectOf <- MCSubjectOf
    KindOf <- MCKindOf
    DefaultTTL = 1
    ActionGrantFor = 1
    AdhocGrantFor = 1
    DenialHoldFor = 1
    MaxPendingPerProject = 1
    MaxDenialsBeforeHold = 2
    GrantWindows <- MCGrantWindows
    AskOnceChoices = {FALSE}
    MaxRequests = 2
    MaxTime = 3
    Watchers = {w1}
    Deciders = {d1, d2}
INVARIANTS NoLostWakeup DecisionIsAnEnd
PROPERTIES EndIsReported
CHECK_DEADLOCK FALSE
