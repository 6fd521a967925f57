\* One client, one descriptor, every call, pattern of use and failure.
SPECIFICATION DpSpec
CONSTANTS
    Clients = {c1}
    NoOwner = NoOwner
    Fds = {3}
    Sizes = {2}
    InitialSize = 2
    MayFail = {"create_client"}
    Uses = {"redestroy", "reconnect", "recreate", "uncreated", "alias", "null_ip", "set_socket"}
    ApiUses = {"retry", "ignore", "mixed", "long_name", "long_topic", "raw_message"}
    Protocols = {"tcp", "other"}
VIEW WithoutRecord
INVARIANTS
    DpTypeOK
    EndedIsClosed
    NoWildCallback
PROPERTIES
    CallbacksTrue
\* A signal or undefined behaviour ends the process.
CHECK_DEADLOCK FALSE
