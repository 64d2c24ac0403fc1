CONSTANTS
    Hosts = {"docker", "kubernetes", "podman"}
    Home = "podman"
    Migrations = {m1, m2}
    None = None
    CallsFail = TRUE
    MayCancel = FALSE
SYMMETRY MigrationSymmetry
VIEW Relevant
SPECIFICATION Spec
INVARIANTS TypeOK Covered StartedRemains
