\* An instance is archived and deleted while it is deployed, retried on another port and compensated.
CONSTANTS
    i1 = i1
    p1 = p1
    p2 = p2
    None = None
    Instances = {i1}
    Ports = {p1, p2}
    Occupied = {p1}
    MaxAttempts = 2
    ExtraAttempts = 1
    MaxCleanups = 2
    DockerFails = TRUE
    Modes = {"delete", "archive"}
    MaxRemovals = 2
    MaxRetries = 0
    MaxCrashes = 1
    Stalls = TRUE
    Reconciles = FALSE
SPECIFICATION Spec
INVARIANTS
    DeletingIsQueued
PROPERTIES
    SuccessServes
CHECK_DEADLOCK FALSE
