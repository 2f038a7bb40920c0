SPECIFICATION ScenesSpec
CONSTANTS
    Items = {x1, x2}
    None = None
    MaxId = 3
    MaxCrashes = 2
    SameFile = TRUE
    Commands = {"sendto", "link", "share", "dl", "early", "seed", "pause", "suspend", "full", "cancel"}
    Offer = {o1}
    Device = {d1, d2}
    Notify = {w1}
SYMMETRY Names
INVARIANTS DiskAgrees 
PROPERTIES DevicesClimb
CHECK_DEADLOCK FALSE
