\* Three parties, two rounds; party 3 tells party 1 something else in round 1.
SPECIFICATION Spec
CONSTANTS
    N = 3
    R = 2
    Payload <- SplitPayload
    Ordered = FALSE
    Lossy = FALSE
INVARIANTS TypeOK EchoSound OwnInBatch CircleTakesThree
PROPERTIES InStep
