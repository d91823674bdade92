\* Two instances, one of two ports taken by another program, a crash, a docker that may refuse and an
\* attempt that may hang: the worker alone.
CONSTANTS
    i1 = i1
    i2 = i2
    p1 = p1
    p2 = p2
    None = None
    Instances = {i1, i2}
    Ports = {p1}
    Occupied = {}
    MaxAttempts = 2
    ExtraAttempts = 1
    MaxCleanups = 2
    DockerFails = TRUE
    Modes = {"delete"}
    MaxRemovals = 0
    MaxRetries = 1
    MaxCrashes = 1
    Stalls = TRUE
    Reconciles = FALSE
SPECIFICATION Spec
INVARIANTS
    TypeOK
    OneDeploymentAtATime
    ActiveIsCurrent
PROPERTIES
    SuccessIsFinal
CHECK_DEADLOCK FALSE
