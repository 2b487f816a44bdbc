SPECIFICATION Spec
CONSTANTS
    N = 1
    Copies = 2
    Prompt = FALSE
INVARIANT ReturnedWasAnswered
