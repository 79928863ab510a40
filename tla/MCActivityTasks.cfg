\* Two attempts of each activity, two calls of run(), and crashes.
SPECIFICATION FairSpec
CONSTANTS
    Activities = {"wait", "unknown"}
    Handled = {"wait"}
    Waiting = {"wait"}
    Endings = {"ok", "retryable", "early_panic"}
    MaxAttempts = 2
    MaxRuns = 2
INVARIANTS
    TypeOK
    MapIsExact
    CancelIsolated
    OutcomeIsCurrent
PROPERTIES
    EveryStartIsAnswered
CHECK_DEADLOCK FALSE
