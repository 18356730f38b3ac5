\* Two parties, four rounds, requests that fail or overtake each other.
SPECIFICATION FairSpec
CONSTANTS
    N = 2
    R = 4
    Payload <- SplitPayload
    Ordered = FALSE
    Lossy = TRUE
INVARIANTS EchoSound EchoKeepsUp
PROPERTIES AllFinish
