SPECIFICATION MCSpec
CONSTANTS
    Devices = {1, 2}
    Host = 1
    Names = {1, 2}
    Keys = {1}
    MarkKinds = {"verified"}
    Labels = {1}
    Relays = {1}
    Unset = Unset
    OldNotes <- LeftBehind
    OldName <- SecondHasAName
    MaxEvents = 2
INVARIANTS  LastWordWins
PROPERTIES MovesForward 
CHECK_DEADLOCK FALSE
