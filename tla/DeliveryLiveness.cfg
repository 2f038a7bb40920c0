SPECIFICATION LoopSpec
CONSTANTS
    Offer = {o1, o2, o3}
    Ticket = {t1}
    Blob = {b1}
    None = None
    Commands = {"pause", "cancel", "clear", "remove", "deposit_now"}
    Env = {"drop", "too_large", "capped", "give_up", "abort", "fatal", "reject"}
    LiveOnly = FALSE
    MaxRestarts = 0
INVARIANTS NoOfferLeftBehind
  
CHECK_DEADLOCK FALSE
