\* A deletion, with a crash, a docker that may refuse and the reconciler: does it end?
CONSTANTS
    i1 = i1
    p1 = p1
    None = None
    Instances = {i1}
    Ports = {p1}
    Occupied = {}
    MaxAttempts = 1
    ExtraAttempts = 1
    MaxCleanups = 2
    DockerFails = TRUE
    Modes = {"delete"}
    MaxRemovals = 1
    MaxRetries = 0
    MaxCrashes = 1
    Stalls = FALSE
    Reconciles = TRUE
SPECIFICATION FairSpec
PROPERTIES
    DeletingEnds
CHECK_DEADLOCK FALSE
