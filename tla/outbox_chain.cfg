CONSTANTS
    Workers = {w1, w2}
    NoWorker = NoWorker
    MaxAlerts = 1
    MaxTime = 3
    MaxLifetime = 2
    MaxAttempts = 2
    RetryBase = 1
    RetryMax = 1
    Margin = 0
    MaxPolicies = 2
    MaxFailures = 1
SPECIFICATION FairSpec
INVARIANTS
    AttemptsAreChained
    DeliveredWasWritten
PROPERTIES
    KeepsPromise
    EveryAlertSettles
