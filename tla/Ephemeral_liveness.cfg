CONSTANTS
    EnvIDs = {1, 2}
    Callers = {c1, c2}
    Cleaner = cleaner
    None = None
    PR = PR
    Specs <- OneSpec
    MaxLimit = 0
    Driver = "podman"
    DriverFails = TRUE
SPECIFICATION FairSpec
PROPERTIES CallsReturn ExpiredLeavesReady
