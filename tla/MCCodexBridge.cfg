\* Two runs of a session, one record kept and two keys remembered, a crash or an exit of the
\* app-server, a turn that asks for something, and any request that is not answered in time.
CONSTANTS
    k1 = k1
    k2 = k2
    s1 = s1
    Keys = {k1, k2}
    Sessions = {s1}
    SessionOf <- OneSession
    MaxRetained = 1
    MaxTombstones = 2
    Requests = {"approval", "question", "tool", "foreign"}
    MaxTurns = 2
    MaxRequests = 1
    MaxMishaps = 1
SPECIFICATION FairSpec
INVARIANTS
    TypeOK
    NeverReplayed
    EndedByItsTurn
    EndIsConfirmed
    StopReachesTheTurn
    NothingWaitsSilently
PROPERTIES
    ImplementsRuntime
    RunSettles
CHECK_DEADLOCK FALSE
