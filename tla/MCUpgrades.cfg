\* Any three of: an upgrade or rollback (two at most), a stop, a redeployment, a pass of the
\* reconciler, a crash.
CONSTANTS
    Tags <- OldAndNew
    First <- Old
    MaxRequests = 2
    MaxEvents = 3
SPECIFICATION FairSpec
INVARIANTS
    TypeOK
    OneFlow
    ServiceKept
    FailureGivesBack
    UpgradingIsAtWork
PROPERTIES
    UpgradeSettles
CHECK_DEADLOCK FALSE
