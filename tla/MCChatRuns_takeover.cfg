\* Two processes, leases that expire under a job at work, crashes, and a stop:
\* the run is taken over in the middle of every step.
CONSTANTS
    p1 = p1
    p2 = p2
    r1 = r1
    r2 = r2
    i1 = i1
    None = None
    Runs = {r1}
    Reconcilers = {p1, p2}
    InstanceOf <- OneInstance
    Outcomes = {"completed", "failed", "gone"}
    ListsRuns = TRUE
    BatchModes = FALSE
    Entries = {}
    Backlog = {r1}
    Rebinds = FALSE
    StaleRuns = {}
    Deletable = {}
    MaxAttempts = 2
    MaxResubmits = 0
    MaxClicks = 1
    MaxStalls = 1
SPECIFICATION Spec
INVARIANTS
    OneAnswer
    EndedRunsAreUnowned
    BoundWhenRunning
PROPERTIES
    ImplementsLifecycle
SYMMETRY Symmetric
CHECK_DEADLOCK FALSE
