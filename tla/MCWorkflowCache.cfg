\* Core evicts open runs, and run() may be called twice on one Worker.
SPECIFICATION Spec
CONSTANTS
    Runs = {"r1", "r2", "r3"}
    Registered = {"r1", "r2"}
    Script <- MCScript
    MaxRuns = 2
    EvictOpen = TRUE
INVARIANTS
    TypeOK
    MachineFollowsHistory
    NondeterminismOnlyByReuse
    HistoryFollowsCode
    OnceInHistory
PROPERTIES
    HistorySpec
CHECK_DEADLOCK FALSE
