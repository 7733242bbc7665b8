SPECIFICATION Spec
CONSTANTS
    Requests = {r1, r2, r3}
    Workload <- MCEdits
    MaxWrites = 2
    Faults = TRUE
    Absent = Absent
SYMMETRY RequestSymmetry
INVARIANTS TypeOK StaleIsDropped
CHECK_DEADLOCK FALSE
