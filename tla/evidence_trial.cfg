CONSTANTS
    Scenarios = {"missing_data", "bridge_restart"}
    Kinds = {"session", "data", "crash", "clock", "timeout", "verifier", "command", "cycle",
             "reader", "checkpoint"}
    MaxFaults = 1
    PageSize = 6
    MaxFragment = 64
SPECIFICATION Spec
CHECK_DEADLOCK FALSE
INVARIANTS TypeOK ControlHasOpenTrial ControlIsNotRepeated 
