\* Every run ends, under fairness, with a crash and a stop, although the runtime does
\* not list the run and may never answer.
CONSTANTS
    p1 = p1
    p2 = p2
    r1 = r1
    r2 = r2
    i1 = i1
    None = None
    Runs = {r1}
    Reconcilers = {p1, p2}
    InstanceOf <- OneInstance
    Outcomes = {"completed", "gone"}
    ListsRuns = FALSE
    BatchModes = FALSE
    Entries = {}
    Backlog = {r1}
    Rebinds = FALSE
    StaleRuns = {}
    Deletable = {}
    MaxAttempts = 2
    MaxResubmits = 0
    MaxClicks = 1
    MaxStalls = 0
SPECIFICATION FairSpec
PROPERTIES
    RunSettles
CHECK_DEADLOCK FALSE
