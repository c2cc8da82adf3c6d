SPECIFICATION SpecKinds
CONSTANTS
    p1 = p1
    p2 = p2
    p3 = p3
    Process = {p1, p2, p3}
    Path = {f}
    Note = {f}
    Does <- OneReader
    MaxChanges = 1
    MaxEdits = 1
    MaxKills = 0
    MaxDamage = 0
INVARIANTS AnswersAreFresh
