\* Two runs of one instance, one process: the second is accepted while jobs of the
\* first, ended or deleted, are still at work.
CONSTANTS
    p1 = p1
    p2 = p2
    r1 = r1
    r2 = r2
    i1 = i1
    None = None
    Runs = {r1, r2}
    Reconcilers = {p1}
    InstanceOf <- OneInstance
    Outcomes = {"completed"}
    ListsRuns = TRUE
    BatchModes = FALSE
    Entries = {"channel"}
    Backlog = {r1}
    Rebinds = FALSE
    StaleRuns = {}
    Deletable = {r1}
    MaxAttempts = 1
    MaxResubmits = 0
    MaxClicks = 0
    MaxStalls = 0
SPECIFICATION Spec
INVARIANTS
    OneActivePerInstance
CHECK_DEADLOCK FALSE
