\* A workflow with a handler and one without, run() called twice, and crashes.
SPECIFICATION FairSpec
CONSTANTS
    Runs = {"r1", "r2"}
    Registered = {"r1"}
    Script <- MCScript
    MaxRuns = 2
    EvictOpen = FALSE
    ActivityOps = {"charge"}
    HandledOps = {"charge"}
    WaitingOps = {}
    Endings = {"ok", "early_panic"}
    MaxAttempts = 2
INVARIANTS
    TypeOK
    ClosedAfterActivities
PROPERTIES
    OkMeansDone
    NoWorkAfterRequest
    ShutdownEndsRun
    WorkflowsClose
CHECK_DEADLOCK FALSE
