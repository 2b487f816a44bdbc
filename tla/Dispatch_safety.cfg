SPECIFICATION Spec
CONSTANTS
    Attempts = {a1}
    Workers = {w1, w2}
    Publishers = {p1}
    Reconcilers = {r1}
    None = None
    MaxToken = 3
    MaxFaults = 1
    PromptRead = TRUE
SYMMETRY WorkerSymmetry
INVARIANTS
    CleanedRunHoldsNothing
    FallbackNeedsRefusal
    ResultDecides
    SentAtMostOnce
    FenceAgreement
PROPERTIES
    AuthorizedWhileRunLives
    SettledIsFinal
    ImplementsLedger
CHECK_DEADLOCK FALSE
