SPECIFICATION PresenceSpec
CONSTANTS
    Offer = {o1, o2}
    Ticket = {t1, t2}
    Blob = {b1}
    None = None
    Commands = {"pause", "resume", "cancel", "remove"}
    Env = {"relay_down", "drop", "expire"}
    LiveOnly = FALSE
    MaxRestarts = 1
    Notice = {n1}
    Epoch = 5
    DefaultTtl = 2
    RelayTtl = 8
    Ttl = {0, 8}
    LongPoll = 1
    MinRound = 1
    Backoff = 1
    BackfillEvery = 2
    SessionTtl = 4
    SessionSlack = 1
    MaxRowSlots = 2
    Flight = 1
    MaxClock = 16
    MaxRelayRestarts = 1
    MaxRuns = 1
    PresenceEpoch = 12
    PresenceGrace = 5
    PresenceTtl = 3
    Refresh = 1
    Slow = 3
    Fast = 5
    MaxBeacons = 3
    Crowd = 3
    MaxMissed = 2
    BeaconEnd = 31
SYMMETRY Names
INVARIANTS  RestartIsSafe OffersAreSeen PresenceIsTold
CHECK_DEADLOCK FALSE
