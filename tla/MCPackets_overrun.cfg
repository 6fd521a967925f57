\* Any names and messages around the size of the buffers.
SPECIFICATION Spec
CONSTANTS
    NameLens <- AnyNames
    MessageLens <- FittingMessages
    QosLevels = {0, 1}
    ConnectBuffer = 128
    PacketBuffer = 256
INVARIANTS
    Fits
\* One behaviour is one call.
CHECK_DEADLOCK FALSE
