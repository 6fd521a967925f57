\* A client that does nothing but call client_pingreq.
SPECIFICATION Spec
CONSTANTS
    N = 1
    FirstId = 1
    Pacings = {"paced"}
    Kinds <- OneKind
    KeepAlive = TRUE
    MaxConnects = 2
INVARIANTS
    PingKeepsAlive
\* Everything may have been delivered.
CHECK_DEADLOCK FALSE
