SPECIFICATION SpecRaces
CONSTANTS
    a = a
    b = b
    Process = {p1, p2, p3}
    Key = {a}
    Inode = {1, 2, 3, 4}
    Input = {}
    Manual = {}
    Gated = {a}
    Repeatable = {}
    Routed = {a}
    Slot <- OneSlot
    MaxAttempts = 2
    CancelMayFail = FALSE
    MaxKills = 1
    MaxRetries = 1
SYMMETRY Processes
INVARIANTS TypeOK HarnessBudget OneAttempt CompleteIsRecorded
PROPERTIES FinishedStays AnswerIsKept
CHECK_DEADLOCK FALSE
