\* One operation of each kind, all their outcomes, with fairness.
SPECIFICATION FairSpec
CONSTANTS
    MaxSeq <- MCOneEach
    ActivityOutcomes = {"completed", "failed", "cancelled"}
    CoopBudget = 2
PROPERTIES
    ResolutionReachesPoll
CHECK_DEADLOCK FALSE
