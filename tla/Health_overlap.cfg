CONSTANTS
    Probers = {p1, p2}
    Window = 2
    MaxSamples = 3
    MaxTime = 3
    MaxRecords = 5
SYMMETRY ProberSymmetry
SPECIFICATION Spec
INVARIANTS TypeOK OnlyRecorded
PROPERTIES SnapshotExact ReportSound
CHECK_DEADLOCK FALSE
