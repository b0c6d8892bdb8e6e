\* A tick is a third of a second: refresh 2 s, event 1 s, call 1 s, lease 5 s,
\* discovery 1 s, patience 2 s; the receive timeout of 0.2 s is rounded up.
SPECIFICATION FairSpec
CONSTANTS
    Consumer = {c1}
    RecvTimeout = 1
    RefreshPeriod = 6
    EventPeriod = 3
    CallTimeout = 3
    Ttl = 15
    Window = 3
    Patience = 6
    Wanted = 3
    MaxLost = 1
    MaxStray = 1
    PortReuse = TRUE
INVARIANTS TypeOK LeaseKept SubscribedWhileUp
PROPERTIES TimeoutExcused Recovers StopEnds ConsumerEnds
