CONSTANTS
    Paths = {p1, p2}
    Worked = {p1}
    Names = {"n1", "n2"}
    Acts = {"run"}
    Aliases = {"go"}
    Dirs = {"dir"}
    Ops <- MCOps
    Scopes <- MCScopes
    Home = "home"
    Star = "*"
    NoAct = "none"
    Files <- MCFiles
    Granted <- MCGranted
    Agents = {a1}
    Conns = {c1, c2}
    NoRec = NoRec
    MaxOps = 2
SPECIFICATION TSpec
PROPERTY RollbackTouchesNoGrant
CHECK_DEADLOCK FALSE
