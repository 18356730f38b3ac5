\* One call: a multicast, also to the caller itself, or a broadcast to known peers.
SPECIFICATION FairSpec
CONSTANTS
    Calls = {c1}
    Peers = {p1, p2}
    Local = local
    Boot = {p1}
    Kademlia = TRUE
    Multicasts = {{p1, p2}, {p1, local}}
INVARIANTS
    TypeOK
    
    AckDeliverable
    ResultsSound
PROPERTIES
    EventuallyResolved
    ArrivalsForgotten
    
    KeepsPromise
