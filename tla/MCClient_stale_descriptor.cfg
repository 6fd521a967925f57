\* Two careful clients: the socket field survives disconnect_client.
SPECIFICATION Spec
CONSTANTS
    Clients = {c1, c2}
    NoOwner = NoOwner
    Fds = {3, 4}
    Sizes = {1}
    InitialSize = 2
    MayFail = {}
    Uses = {}
SYMMETRY Symmetry
INVARIANTS
    ConnectedOwns
