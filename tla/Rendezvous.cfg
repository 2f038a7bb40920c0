SPECIFICATION BoundedSpec
CONSTANTS
    Slot = {4821}
    Sender = {s1, s2}
    Receiver = {r1}
    Kinds = {"send", "contact", "device"}
    None = None
    MaxSessions = 1
    MaxFailures = 1
    Lease = 2
    Ceiling = 3
    Ttl = 1
    MaxKeys = 8
    MaxTries = 1
    Versions = {"v1", "v2"}
    Commands = {"cancel"}
    MaxTime = 2
    MaxFaults = 1
    MaxRestarts = 1
SYMMETRY Names
INVARIANTS BudgetsHold ExchangesAreSound
 
CHECK_DEADLOCK FALSE
