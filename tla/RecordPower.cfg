SPECIFICATION Spec
CONSTANTS
    Record = {r1, r2}
    Value = {v1, v2}
    Absent = Absent
    Faults = {"kill", "power"}
    MaxFaults = 2
INVARIANTS OriginalsKept
