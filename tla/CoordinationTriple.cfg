\* The same for three parties: a party's first message overtakes the start message of another.
SPECIFICATION FairSpec
CONSTANTS
    a = a
    b = b
    c = c
    s1 = s1
    s2 = s2
    Nodes = {a, b, c}
    Sessions = {s1}
    Proposer <- LoneProposer
    Size <- LoneTriple
    Ordered = TRUE
    Failures = FALSE
    Patient = TRUE
    MaxInbox = 2
CHECK_DEADLOCK FALSE
PROPERTIES ProposalSucceeds
