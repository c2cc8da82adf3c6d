SPECIFICATION SpecUpkeep
CONSTANTS
    Record = {r1, r2}
    Value = {v1}
    Absent = Absent
    Faults = {"kill", "error", "power"}
    MaxFaults = 3
INVARIANTS OutcomeTold RunsEndClean
PROPERTIES ImplementsAtomicRecords RecoveryEnds WorkResolves FailuresAreTold
CHECK_DEADLOCK FALSE
