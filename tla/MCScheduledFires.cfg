\* A job that is due behind one with a bad expression: fired, recovered after a crash, triggered,
\* switched and archived.
CONSTANTS
    j1 = j1
    j2 = j2
    Jobs = {j1, j2}
    Listed <- BadFirst
    Bad = {j2}
    Page = 2
    MaxEvents = 2
    MaxCrashes = 1
SPECIFICATION FairSpec
INVARIANTS
    TypeOK
    OneTaskPerFire
    OneFirePerTime
PROPERTIES
    SuccessIsKept
    FireSettles
    DueJobIsServed
