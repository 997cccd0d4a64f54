CONSTANTS
    Workers = {w1, w2}
    Reporters = {r1}
    Scopes = {btc}
    Slots = 1
    Interval = 1
    MaxTime = 3
    MaxEvents = 2
    NoProc = NoProc
SPECIFICATION FairSpec
CHECK_DEADLOCK FALSE
INVARIANTS
    PlanStaysCurrent
    ReportCoversAttempts
PROPERTIES
    ImplementsSchedule
    FinalLedgerIsFrozen
    LockIsReleased
