SPECIFICATION LSpec
CONSTANTS
    a = a
    b = b
    c1 = c1
    c2 = c2
    None = None
    Names <- MCNames
    Conns <- MCConns
    MaxTokens = 1
INVARIANTS SessionsFollowTheKey MismatchHasACause
SYMMETRY LifecycleSymmetry
CHECK_DEADLOCK FALSE
