\* A poll that runs out of tokio's budget.
SPECIFICATION Spec
CONSTANTS
    MaxSeq <- MCOneEach
    ActivityOutcomes = {"completed", "failed"}
    CoopBudget = 2
INVARIANTS
    NoLostWakeup
CHECK_DEADLOCK FALSE
