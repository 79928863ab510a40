\* A handler that fails with a retryable error on its first attempt.
SPECIFICATION Spec
CONSTANTS
    Activities = {"charge"}
    Handled = {"charge"}
    Waiting = {}
    Endings = {"ok", "retryable", "final"}
    MaxAttempts = 2
    MaxRuns = 1
INVARIANTS
    RetryableErrorsRetried
CHECK_DEADLOCK FALSE
