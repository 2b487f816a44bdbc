SPECIFICATION Spec
CONSTANTS
    Pipeline <- ShortPipeline
    Reloads = 1
    MaxFaults = 0
INVARIANT ReadyIsRecoverable
CHECK_DEADLOCK FALSE
