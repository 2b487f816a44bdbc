SPECIFICATION Spec
CONSTANTS
    N = 2
    Copies = 1
    Prompt = FALSE
INVARIANT
    AbsentIsPreSend
