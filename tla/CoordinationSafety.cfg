\* Three nodes, two competing proposers, requests lost, late or in any order, executions abandoned.
SPECIFICATION Spec
CONSTANTS
    a = a
    b = b
    c = c
    s1 = s1
    s2 = s2
    Nodes = {a, b, c}
    Sessions = {s1, s2}
    Proposer <- TwoProposers
    Size <- PairSizes
    Ordered = FALSE
    Failures = TRUE
    Patient = FALSE
    MaxInbox = 2
CHECK_DEADLOCK FALSE
INVARIANTS TypeOK StartJustified OwnSessionSafe
