CONSTANTS
    Procs = {p1, p2}
    TableLoadOrder <- MCTables
    Versions = {v1, v2}
    MaxJobs = 3
    MaxFaults = 2
SPECIFICATION Spec
SYMMETRY MCSymmetry
INVARIANTS SnapshotWhole
PROPERTIES RolledBackExactly VerifiedTruthful
