CONSTANTS
    Rolls = {5, 12}
    RollWindow = 2
    SnapshotAge = 2
    HistoryAge = 3
    Skew = 1
    ClockSkew = 1
    Limit = 2
    Bar = 1
    StaleAfter = 3
    ReferenceAge = 3
    RollRisk = 1
    Expiry = 1
    ExpiryRisk = 3
    Last = 6
SPECIFICATION Spec
CHECK_DEADLOCK FALSE
INVARIANTS EmittedIsAccepted AcceptedIsStored AnswerIsStored ChosenIsUsable
           AlertIsJustified  
