\* One process: the cycle and the targeted handler of a new run, every way an
\* execution may complete, synchronous ones, a lost session, a deleted conversation.
CONSTANTS
    p1 = p1
    p2 = p2
    r1 = r1
    r2 = r2
    i1 = i1
    None = None
    Runs = {r1}
    Reconcilers = {p1}
    InstanceOf <- OneInstance
    Outcomes = {"completed", "empty", "leaked"}
    ListsRuns = TRUE
    BatchModes = TRUE
    Entries = {"chat"}
    Backlog = {}
    Rebinds = TRUE
    StaleRuns = {r1}
    Deletable = {r1}
    MaxAttempts = 2
    MaxResubmits = 1
    MaxClicks = 0
    MaxStalls = 0
SPECIFICATION Spec
INVARIANTS
    TypeOK
    AttemptWrittenAhead
    AnswerOfTheBoundExecution
CHECK_DEADLOCK FALSE
