CONSTANTS
    Workloads = {"u", "v"}
    Callers = {c1, c2, c3}
    Driver = "kubernetes"
    MaxCount = 3
    MaxUnseen = 1
    MaxStarts = 2
SPECIFICATION FairSpec
INVARIANTS TypeOK NeverUnderReports
PROPERTIES StopEndsLoops
