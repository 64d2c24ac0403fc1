CONSTANTS
    Hosts = {"docker", "kubernetes", "remote"}
    Home = "docker"
    Migrations = {m1}
    None = None
    CallsFail = TRUE
    MayCancel = TRUE
SPECIFICATION FairSpec
INVARIANTS NeverLost
PROPERTIES CompletedIsMoved EveryMigrationEnds
