\* One client that subscribes.
SPECIFICATION ApiSpec
CONSTANTS
    Clients = {c1}
    NoOwner = NoOwner
    Fds = {3, 4}
    Sizes = {1}
    InitialSize = 2
    MayFail = {}
    Uses = {}
    ApiUses = {}
INVARIANTS
    SubscribeIsSent
\* A signal or undefined behaviour ends the process.
CHECK_DEADLOCK FALSE
