CONSTANTS
    Requests = {r1}
    Monitors = {m1}
    Nobody = Nobody
    Work = 2
    Reserve = 2
    Grace = 1
    BusyTimeout = 1
    MinConnect = 2
    Evidence = {e1}
    MaxTime = 5
SPECIFICATION FairSpec
CHECK_DEADLOCK FALSE
INVARIANTS
    RunMatchesReport
    AnswerIsBacked
    IncidentIsOpenedOnce
PROPERTY
    RequestEnds
