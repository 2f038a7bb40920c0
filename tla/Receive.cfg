CONSTANTS
    Ticket = {"t1"}
    N = 2
    Peer = {"p1"}
    Liars = {"p1"}
    Holds <- MCHolds
    Dests = {"file", "dir"}
    Levels = {"length", "deep"}
    ENDGAME_PIECES = 2
    ENDGAME_PARALLEL = 2
    Concurrency = 2
    Rates = {0, 1, 8}
    Nothing = Nothing
    MaxFaults = 2
SPECIFICATION ReceiveSpec
INVARIANTS  PiecesAccounted
PROPERTIES DownloadEnds
CHECK_DEADLOCK FALSE
