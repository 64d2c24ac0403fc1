CONSTANTS
    Callers = {c1}
    Volumes = {"v"}
    Replicas = {2}
    Traffic = {FALSE}
    AutoCleanup = TRUE
    CallsFail = TRUE
    MaxVersion = 3
SPECIFICATION Spec
PROPERTY RestartRollsOut
