CONSTANTS
    Pods = {"app", "agent", "proxy"}
    DaemonPods = {"agent"}
    ProxyPods = {"proxy"}
    Tolerant = {"agent", "proxy"}
    Drainers = {d1, d2}
    CallsFail = TRUE
    MaxVersion = 3
SYMMETRY DrainerSymmetry
SPECIFICATION Spec
INVARIANTS TypeOK DrainedIsDeleted CordonKept
PROPERTY NoLostUpdate
