SPECIFICATION QSpec
CONSTANTS
    q1 = q1
    q2 = q2
    s1 = s1
    NoAgent = NoAgent
    Agents = {}
    Questions = {q1, q2}
    Subjects = {s1}
    SubjectOf <- MCSubjectOf
    KindOf <- MCKindOf
    DefaultTTL = 1
    ActionGrantFor = 2
    AdhocGrantFor = 1
    DenialHoldFor = 1
    MaxPendingPerProject = 1
    MaxDenialsBeforeHold = 2
    GrantWindows <- MCGrantWindows
    AskOnceChoices = {FALSE}
    MaxRequests = 3
    MaxTime = 3
INVARIANT WallSurvivesWithdrawal
CHECK_DEADLOCK FALSE
