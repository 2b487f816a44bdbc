SPECIFICATION Spec
CONSTANTS
    Pipeline <- RepairPipeline
    Reloads = 1
    MaxFaults = 2
PROPERTY KeepsContract
CHECK_DEADLOCK FALSE
