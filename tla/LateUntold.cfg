SPECIFICATION SpecLate
CONSTANTS
    Process = {p1, p2}
    Actor = {a1, a2, a3}
    Key = {m1}
    Inode = {1, 2, 3, 4}
    Repeatable = {}
    Owned = {m1}
    MaxAttempts = 2
    MaxKills = 2
    MaxRetries = 2
INVARIANT LatenessIsTold
CHECK_DEADLOCK FALSE
