\* One message of QoS 0 or 1 behind packets that may share its segment.
SPECIFICATION Spec
CONSTANTS
    N = 1
    FirstId = 1
    Pacings = {"coalesced"}
    Kinds <- SmallKinds
    KeepAlive = FALSE
    MaxConnects = 2
INVARIANTS
    NothingLost
\* Everything may have been delivered.
CHECK_DEADLOCK FALSE
