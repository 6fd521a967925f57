\* Two messages, the first of which has an identifier that is read back
\* wrongly; every pacing; two connections.
SPECIFICATION Spec
CONSTANTS
    N = 2
    FirstId = 255
    Pacings = {"paced", "coalesced", "split"}
    Kinds <- AllKinds
    KeepAlive = TRUE
    MaxConnects = 2
INVARIANTS
    SubscriberTypeOK
    InOrder
    AckedShown
    MemorySafe
    PacedShowsAll
    Settled
\* The client has come to its end, or everything has been delivered.
CHECK_DEADLOCK FALSE
