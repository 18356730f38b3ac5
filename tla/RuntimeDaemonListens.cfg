\* The sender of a Phase1Channel can be dropped while the channel listens.
SPECIFICATION Spec
CONSTANTS
    r1 = r1
    r2 = r2
    q1 = q1
    q2 = q2
    p1 = p1
    p2 = p2
    Rooms = {r1}
    Requests = {q1, q2}
    Peers = {p1, p2}
    Size <- SizeTwoThree
    MaxInbox = 1
INVARIANTS PhaseOneListens
