CONSTANTS
    btc = btc
    eth = eth
    Manifest <- Scopes2
    Prompt = {eth}
    Services = {bridge, verifier}
    Slots = 2
    Interval = 16
    Timeout = 2
    Retries = 1
    Backoff = 1
    Poll = 1
    Cooldown = 2
    RestartSec = 1
    MaxFailures = 2
SPECIFICATION FairSpec
CHECK_DEADLOCK FALSE
INVARIANT SupervisorInvariant
INVARIANT HealthyScopeIsNotStarved
INVARIANT HealthyScopeIsComplete
INVARIANT NoMissedIsOverlooked
PROPERTY CampaignCompletes
