SPECIFICATION Spec
CONSTANTS
    Pipeline <- SynthesisPipeline
    Reloads = 1
    MaxFaults = 1
INVARIANTS
    SavedStaysReadable
    LineageIsUnbroken
    CleanedLeavesNothing
    RecoveryIsFaithful
PROPERTY CompletedAsFinal
CHECK_DEADLOCK FALSE
