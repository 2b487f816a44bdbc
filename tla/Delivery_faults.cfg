SPECIFICATION Spec
CONSTANTS
    Pipeline <- RepairPipeline
    Reloads = 1
    MaxFaults = 2
INVARIANTS
    SavedStaysReadable
    LineageIsUnbroken
    CleanedLeavesNothing
    RecoveryIsFaithful
PROPERTY CompletedAsFinal
CHECK_DEADLOCK FALSE
