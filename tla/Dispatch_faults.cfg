SPECIFICATION Spec
CONSTANTS
    Attempts = {a1}
    Workers = {w1, w2}
    Publishers = {p1}
    Reconcilers = {r1}
    None = None
    MaxToken = 3
    MaxFaults = 2
    PromptRead = FALSE
SYMMETRY WorkerSymmetry
INVARIANTS
    SentAtMostOnce
    FenceAgreement
PROPERTIES
    SettledIsFinal
CONSTRAINT SteadyRun
CHECK_DEADLOCK FALSE
