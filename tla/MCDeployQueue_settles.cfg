\* A conflict of ports, a crash, hung attempts and refused compensations, nobody removing the instance:
\* do its task and its status settle?
CONSTANTS
    i1 = i1
    p1 = p1
    p2 = p2
    None = None
    Instances = {i1}
    Ports = {p1, p2}
    Occupied = {p1}
    MaxAttempts = 2
    ExtraAttempts = 1
    MaxCleanups = 2
    DockerFails = TRUE
    Modes = {"delete"}
    MaxRemovals = 0
    MaxRetries = 0
    MaxCrashes = 1
    Stalls = TRUE
    Reconciles = TRUE
SPECIFICATION FairSpec
PROPERTIES
    DeploymentSettles
    InstanceSettles
    FailedLeavesNothing
    WaitingHoldsItsPort
CHECK_DEADLOCK FALSE
