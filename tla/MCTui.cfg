SPECIFICATION TuiSpec
CONSTANTS
    s1 = s1
    s2 = s2
    s3 = s3
    n1 = n1
    None = None
    Fresh = Fresh
    Scopes = {s1, s2, s3}
    Existing = {s1, s2}
    Default = s1
    Names = {n1}
    RevealTicks = 1
    MaxKeys = 6
    MaxFlight = 2
INVARIANTS ListingIsOfTheScope RetryRepeatsARefusedCall
PROPERTY RevealEnds
CHECK_DEADLOCK FALSE
