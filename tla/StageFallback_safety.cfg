SPECIFICATION FairSpec
CONSTANTS
    N = 2
    Copies = 1
    Prompt = TRUE
INVARIANTS
    LeftBehindIsSettled
    ReturnedWasAnswered
PROPERTY StageEnds
