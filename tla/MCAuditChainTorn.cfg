SPECIFICATION ASpec
CONSTANTS
    MaxEvents = 6
    MayTear = TRUE
INVARIANT AppendedIsReadable
CHECK_DEADLOCK FALSE
