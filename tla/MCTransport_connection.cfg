\* Ten bytes through a window of four, a static buffer of two, and a buffer
\* that grows twice or more; anything may fail.
SPECIFICATION Spec
CONSTANTS
    DataLen = 10
    Window = 4
    StaticSize = 2
    InitialSize = 4
    Chunk = 3
    Failures = {"reset", "silence", "interrupt", "listen", "accept",
                "malloc", "realloc"}
INVARIANTS
    TransportTypeOK
    InBounds
    AllArrives
PROPERTIES
    ImplementsByteStream
    BothEnd
\* The processes end.
CHECK_DEADLOCK FALSE
