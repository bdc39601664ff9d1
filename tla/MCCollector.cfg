CONSTANTS
    None = None
    GreenAge = 1
    AmberAge = 2
    MaxLatency = 1
    AbsTolerance = 1
    RelTolerance = 1
    RequireTwoSources = TRUE
    MaxEvents = 6
    Expected = "SPX"
    MaxTime = 4
    Times <- MCTimes
    RetryAfters = {0, 1, 3}
    ObservationsAt <- MCObservationsAt
    BaseBackoff = 2
    MaxBackoff = 3
    MaxReconnectAttempts = 2
    AllowedLateness = 0
    FreshnessLimit = 2
    Capabilities <- MCCapabilities
    Calendars <- MCCalendars
    LocalTime <- MCLocalTime
SPECIFICATION Spec
INVARIANTS
    PermitIsEarned
    BudgetCountsLosses
PROPERTIES
    BackoffBeforeStreaming
