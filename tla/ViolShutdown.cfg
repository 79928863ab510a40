\* A request to shut down, after run() was left without a shutdown of Core.
SPECIFICATION Spec
CONSTANTS
    Runs = {"r1"}
    Registered = {"r1"}
    Script <- MCScript
    MaxRuns = 1
    EvictOpen = FALSE
    ActivityOps = {"charge"}
    HandledOps = {"charge"}
    WaitingOps = {}
    Endings = {"ok"}
    MaxAttempts = 1
INVARIANTS
    GracefulShutdown
CHECK_DEADLOCK FALSE
