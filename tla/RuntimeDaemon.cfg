\* Two rooms and two clients, one of which asks for n = 0, contend for the daemon.
SPECIFICATION FairSpec
CONSTANTS
    r1 = r1
    r2 = r2
    q1 = q1
    q2 = q2
    p1 = p1
    p2 = p2
    Rooms = {r1, r2}
    Requests = {q1, q2}
    Peers = {p1}
    Size <- SizeTwoZero
    MaxInbox = 1
INVARIANTS TypeOK RpcHandle OnDoneOwned OneAtATime
PROPERTIES ServesRooms EventuallyServed
