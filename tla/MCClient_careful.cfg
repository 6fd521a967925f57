\* Two careful clients; every allocation but those of set_config may fail.
SPECIFICATION Spec
CONSTANTS
    Clients = {c1, c2}
    NoOwner = NoOwner
    Fds = {3, 4}
    Sizes = {0, 1, 3}
    InitialSize = 2
    MayFail = {"create_client", "set_client_id", "set_broker_ip", "receive_message"}
    Uses = {}
SYMMETRY Symmetry
INVARIANTS
    TypeOK
    NoFault
    HeapExact
    NothingLeftBehind
    NoFdLeak
    BufferSizeHonest
