CONSTANTS
    Workers = {w1}
    Reporters = {r1}
    Scopes = {btc}
    Slots = 1
    Interval = 1
    MaxTime = 3
    MaxEvents = 3
    NoProc = NoProc
SPECIFICATION Spec
CHECK_DEADLOCK FALSE
INVARIANT
    CheckpointIsHead
