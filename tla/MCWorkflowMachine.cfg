\* Two activities and a timer, and a budget that a poll can use up.
SPECIFICATION Spec
CONSTANTS
    MaxSeq <- MCMaxSeq
    ActivityOutcomes = {"completed", "failed"}
    CoopBudget = 2
INVARIANTS
    TypeOK
    PendingMirrorsCore
    NoOrphanedAwait
    ResultFidelity
    LostWakeupOnlyOnBudget
    FreshCommands
PROPERTIES
    EvictionFreezesWorkflow
    DurableSpec
CHECK_DEADLOCK FALSE
