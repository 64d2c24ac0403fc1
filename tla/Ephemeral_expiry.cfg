CONSTANTS
    EnvIDs = {1, 2}
    Callers = {c1}
    Cleaner = cleaner
    None = None
    PR = PR
    Specs <- OneSpec
    MaxLimit = 0
    Driver = "docker"
    DriverFails = TRUE
SPECIFICATION FairSpec
PROPERTY ExpiredIsTerminated
