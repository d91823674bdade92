\* A deletion is asked for during a deployment, and the server dies.
CONSTANTS
    i1 = i1
    p1 = p1
    p2 = p2
    None = None
    Instances = {i1}
    Ports = {p1, p2}
    Occupied = {}
    MaxAttempts = 2
    ExtraAttempts = 1
    MaxCleanups = 2
    DockerFails = FALSE
    Modes = {"delete"}
    MaxRemovals = 1
    MaxRetries = 0
    MaxCrashes = 1
    Stalls = TRUE
    Reconciles = FALSE
SPECIFICATION FairSpec
PROPERTIES
    DeploymentSettles
CHECK_DEADLOCK FALSE
