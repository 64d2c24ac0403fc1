CONSTANTS
    Callers = {c1, c2}
    Volumes = {"v", "w"}
    Replicas = {0, 2}
    Traffic = {TRUE, FALSE}
    AutoCleanup = TRUE
    CallsFail = TRUE
    MaxVersion = 3
SYMMETRY CallerSymmetry
SPECIFICATION Spec
INVARIANTS TypeOK ZeroIsRecorded DestroyedOnce NoOrphanClaims
PROPERTY UpdatesCompose
