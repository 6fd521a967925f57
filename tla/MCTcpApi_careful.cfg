\* Three clients of an application that, like tests/api_test.c, goes on
\* after a failed client_connect; the peers go away at any time.
SPECIFICATION ApiSpec
CONSTANTS
    Clients = {c1, c2, c3}
    NoOwner = NoOwner
    Fds = {3, 4}
    Sizes = {1}
    InitialSize = 2
    MayFail = {}
    Uses = {}
    ApiUses = {"ignore"}
SYMMETRY Symmetry
INVARIANTS
    ApiTypeOK
    SessionOwned
    ProtocolOK
    NoSharedSocket
    NoFdLeak
    EndedIsClosed
PROPERTIES
    NobodyElseCloses
    ImplementsMqttSession
\* A signal or undefined behaviour ends the process.
CHECK_DEADLOCK FALSE
