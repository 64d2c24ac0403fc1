CONSTANTS
    EnvIDs = {1, 2, 3}
    Callers = {c1, c2}
    Cleaner = cleaner
    None = None
    PR = PR
    Specs <- NamedAndOther
    MaxLimit = 2
    Driver = "docker"
    DriverFails = TRUE
SYMMETRY CallerSymmetry
VIEW Relevant
SPECIFICATION Spec
INVARIANTS TypeOK UnderLock WithinLimit HeldIsDeployed LeaksAreRecorded
PROPERTIES ForwardOnly PoolSpec
