CONSTANTS
    Recv = {"a", "b"}
    N = 2
    Kinds = {TRUE, FALSE}
    Releasing = {"b"}
    SEED_BATCH = 2
    Cap = 3
    MaxAttempts = 2
    MaxFaults = 2
    None = None
SPECIFICATION Spec
INVARIANTS CopiesAccounted
PROPERTIES  ServeSettles
CHECK_DEADLOCK FALSE
