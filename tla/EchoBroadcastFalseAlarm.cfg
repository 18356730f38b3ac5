\* Nobody equivocates, nothing is lost or reordered, and an echo round fails.
SPECIFICATION PromptSpec
CONSTANTS
    N = 3
    R = 2
    Payload <- SamePayload
    Ordered = TRUE
    Lossy = FALSE
INVARIANTS NoFalseInconsistency
