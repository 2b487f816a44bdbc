SPECIFICATION Spec
CONSTANTS
    N = 2
    Copies = 2
    Prompt = TRUE
INVARIANT
    RejectedIsPreSend
