SPECIFICATION ASpec
CONSTANTS
    MaxEvents = 6
    MayTear = TRUE
INVARIANT BreaksAreForks
PROPERTIES VerifiedPrefixStays ResealAdvances
CHECK_DEADLOCK FALSE
