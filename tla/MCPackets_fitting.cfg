\* Topics and messages up to the longest that fit together.
SPECIFICATION Spec
CONSTANTS
    NameLens <- FittingNames
    MessageLens <- FittingMessages
    QosLevels = {0}
    ConnectBuffer = 128
    PacketBuffer = 256
INVARIANTS
    PacketTypeOK
    Fits
    Framed
    
\* One behaviour is one call.
CHECK_DEADLOCK FALSE
