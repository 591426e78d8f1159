SPECIFICATION FairSpec
CONSTANTS
    IdleTimeout = TRUE
    OutputLimit = 1
    MaxOutput = 3
CHECK_DEADLOCK FALSE
INVARIANTS NoTimerOutlivesProcess ProviderSwept
PROPERTIES HeartbeatAdvances RunEnds
