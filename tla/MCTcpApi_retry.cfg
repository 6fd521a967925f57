\* One client that calls client_connect again on a session it has.
SPECIFICATION ApiSpec
CONSTANTS
    Clients = {c1}
    NoOwner = NoOwner
    Fds = {3, 4}
    Sizes = {1}
    InitialSize = 2
    MayFail = {}
    Uses = {}
    ApiUses = {"retry"}
INVARIANTS
    SessionOwned
\* A signal or undefined behaviour ends the process.
CHECK_DEADLOCK FALSE
