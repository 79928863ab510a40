\* Core evicts a run that is still open.
SPECIFICATION Spec
CONSTANTS
    Runs = {"r1"}
    Registered = {"r1"}
    Script <- MCScript
    MaxRuns = 1
    EvictOpen = TRUE
INVARIANTS
    NoNondeterminism
CHECK_DEADLOCK FALSE
