SPECIFICATION SpecRaces
CONSTANTS
    a = a
    b = b
    Process = {p1, p2}
    Key = {a}
    Inode = {1, 2, 3}
    Input = {}
    Manual = {a}
    Gated = {}
    Repeatable = {}
    Routed = {a}
    Slot <- OneSlot
    MaxAttempts = 2
    CancelMayFail = TRUE
    MaxKills = 1
    MaxRetries = 1
PROPERTIES WithdrawnNeverStarts
CHECK_DEADLOCK FALSE
