\* A workflow that subscribes to a signal.
SPECIFICATION Spec
CONSTANTS
    MaxSeq <- MCOneEach
    ActivityOutcomes = {"completed", "failed"}
    CoopBudget = 2
INVARIANTS
    SubscribedSignalsStayOpen
CHECK_DEADLOCK FALSE
