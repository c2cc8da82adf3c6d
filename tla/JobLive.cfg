SPECIFICATION SpecLive
CONSTANTS
    a = a
    b = b
    Process = {p1}
    Key = {a, b}
    Inode = {1, 2}
    Input = {a, b}
    Manual = {}
    Gated = {}
    Repeatable = {a}
    Routed = {a, b}
    Slot <- OneSlot
    MaxAttempts = 2
    CancelMayFail = FALSE
    MaxKills = 1
    MaxRetries = 0
INVARIANTS SlotOrder
PROPERTIES JobsResolve

CHECK_DEADLOCK FALSE
