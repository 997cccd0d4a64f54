CONSTANTS
    Scenarios = {"bridge_restart"}
    Kinds = {"timeout", "crash"}
    MaxFaults = 3
    PageSize = 40
    MaxFragment = 100
SPECIFICATION PromptSpec
CHECK_DEADLOCK FALSE
INVARIANT TrialHasOneReceipt
