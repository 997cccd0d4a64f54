CONSTANTS
    Scenarios = {"missing_data", "reconnect"}
    Kinds = {"timeout", "cycle", "reader", "checkpoint"}
    MaxFaults = 1
    PageSize = 6
    MaxFragment = 64
SPECIFICATION FairSpec
CHECK_DEADLOCK FALSE
INVARIANT EvidenceIsAgreed
PROPERTY ControlIsSettled
