SPECIFICATION LiveSpec
CONSTANTS
    Attempts = {a1}
    Workers = {w1}
    Publishers = {p1}
    Reconcilers = {r1}
    None = None
    MaxToken = 2
    MaxFaults = 1
    PromptRead = TRUE
PROPERTIES
    AttemptsSettle
    ResultsRecovered
CHECK_DEADLOCK FALSE
