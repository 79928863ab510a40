\* run() is called again on the same Worker.
SPECIFICATION FairSpec
CONSTANTS
    Runs = {"r1"}
    Registered = {"r1"}
    Script <- MCScript
    MaxRuns = 2
    EvictOpen = FALSE
PROPERTIES
    RunsClose
CHECK_DEADLOCK FALSE
