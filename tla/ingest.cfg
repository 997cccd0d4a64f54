CONSTANTS
    Rolls = {3, 9}
    RollWindow = 1
    SnapshotAge = 1
    HistoryAge = 2
    Skew = 1
    ClockSkew = 1
    Limit = 2
    Bar = 1
    Writers = {w1, w2}
    Keep = 2
    End = 3
    MaxTime = 4
    MaxAsks = 3
    Arrivals = {{}, {"book", "old", "index"}, {"book", "old", "index", "chart"}}
SPECIFICATION FairSpec
CHECK_DEADLOCK FALSE
INVARIANTS OnePerPayload ReceiptIsReplayable
PROPERTIES QuietReplayIsFinal AttestedIsChosen IngestEnds
