\* A handler that panics before it returns its future.
SPECIFICATION FairSpec
CONSTANTS
    Activities = {"charge"}
    Handled = {"charge"}
    Waiting = {}
    Endings = {"ok", "retryable", "final", "early_panic"}
    MaxAttempts = 1
    MaxRuns = 1
PROPERTIES
    PanicsAreReported
CHECK_DEADLOCK FALSE
