-------------------------------- MODULE Client --------------------------------
(***************************************************************************)
(* lib/src/client.c: the life of the client_t structures of one process,   *)
(* the socket descriptor each of them names and the heap blocks each of    *)
(* them owns.                                                              *)
(*                                                                         *)
(* A call of the library is one step: the library starts no thread, and    *)
(* what the kernel and the allocator may answer is chosen inside the step. *)
(* The application is the environment.  Careful use is what docs/api and   *)
(* tests/ show; the constant Uses adds the call patterns that nothing in   *)
(* the library prevents, MayFail the allocations that may return NULL.     *)
(* A call that returns early without touching anything is a stuttering     *)
(* step and has no disjunct here.                                          *)
(***************************************************************************)
EXTENDS Integers

CONSTANTS
    Clients,      \* the client_t structures of the process
    NoOwner,      \* marks a descriptor number that is not open
    Fds,          \* the descriptor numbers sockets can get (RLIMIT_NOFILE)
    Sizes,        \* the buffer sizes the application asks for
    InitialSize,  \* INITIAL_BUFFER_SIZE
    MayFail,      \* the calls whose malloc or strdup may return NULL
    Uses          \* call patterns of the application beyond careful use

AllocSites == {"create_client", "set_client_id", "set_broker_ip",
               "set_config", "receive_message"}

Patterns == {"redestroy",   \* destroy_client on a destroyed client
             "reconnect",   \* connect_client on a connected client
             "recreate",    \* create_client on a client that holds something
             "uncreated",   \* calls on a client that create_client did not make
             "alias",       \* a setter is given what a getter returned
             "null_ip",     \* connect_client while ip_broker is NULL
             "resize",      \* buffer_size set above the size of the buffer
             "set_socket"}  \* set_socket_fd with a number of the caller's

ASSUME ClientAssumption ==
    /\ NoOwner \notin Clients
    /\ Fds \subseteq Nat
    /\ Sizes \subseteq Nat
    /\ InitialSize \in Nat \ {0}
    /\ MayFail \subseteq AllocSites
    /\ Uses \subseteq Patterns

VARIABLES
    client,  \* the fields of each client_t that the properties tell apart
    fds,     \* descriptor number -> the client whose call opened it
    heap,    \* blocks allocated for a client's fields and not freed
    phase,   \* the last call on the client's life that took effect
    fault    \* the undefined behaviour that ended the process, or "none"

vars == <<client, fds, heap, phase, fault>>

NoFd == -1

\* What a char* field holds: never written, NULL, a block, or the address of
\* a block that was freed.
Ptr == {"wild", "null", "live", "freed"}

ClientStruct == [socket : Fds \cup {NoFd}, client_id : Ptr, ip_broker : Ptr,
                 buffer : Ptr, capacity : Nat, buffer_size : Nat]

Phases == {"raw", "created", "connected", "disconnected", "destroyed"}

\* "sigpipe" occurs in the calls that send (module TcpApi).
Faults == {"none", "double_free", "use_after_free", "null_deref", "overflow",
           "sigpipe", "wild_deref"}

TypeOK ==
    /\ client \in [Clients -> ClientStruct]
    /\ fds \in [Fds -> Clients \cup {NoOwner}]
    /\ heap \in [Clients -> Int]
    /\ phase \in [Clients -> Phases]
    /\ fault \in Faults

-------------------------------------------------------------------------------
(* The allocator and the descriptor table, as the calls of client.c use them. *)

Succeeds(site) == IF site \in MayFail THEN BOOLEAN ELSE {TRUE}

\* Mutant: a failed strdup leaves the field at the old, freed address.
StaleOnFailure(ok) == IF ok THEN "live" ELSE "freed"

\* The result of malloc and strdup.
Alloc(ok) == IF ok THEN "live" ELSE "null"

\* The field p after free(p), when nothing is assigned to it.
Freed(p) == IF p = "null" THEN "null" ELSE "freed"

Live(p) == IF p = "live" THEN 1 ELSE 0

LiveBlocks(s) == Live(s.client_id) + Live(s.ip_broker) + Live(s.buffer)

\* socket() returns the lowest number that is not open.
IsNextFd(d) ==
    /\ fds[d] = NoOwner
    /\ \A e \in Fds : fds[e] = NoOwner => d <= e

OpenFd(table, d, c) == [table EXCEPT ![d] = c]

\* Mutant: the descriptor is marked with -1 where the table keeps an owner.
MarkClosed(table, d) == [table EXCEPT ![d] = NoFd]

\* close() of a number that is not open changes nothing (EBADF).
CloseFd(table, d) == [table EXCEPT ![d] = NoOwner]

Crash(kind) ==
    /\ fault' = kind
    /\ UNCHANGED <<client, fds, heap, phase>>

\* "The client must be created before connecting" (client.h).
Created(c) == phase[c] \notin {"raw", "destroyed"}

\* No call looks whether its client was created: where the application does
\* not look at the result of create_client, that is up to the fields.
Usable(c) == Created(c) \/ "uncreated" \in Uses

\* The phase of c after a call that leaves a created client in phase p.
Moved(c, p) == IF Created(c) THEN [phase EXCEPT ![c] = p] ELSE phase

\* free accepts NULL and a block, and nothing else.
Freeable(p) == p \in {"null", "live"}

CrashOfFree(p) ==
    \/ p = "freed" /\ Crash("double_free")
    \/ p = "wild" /\ Crash("wild_deref")

-------------------------------------------------------------------------------
\* A client_t that was never written holds anything, NULL and the number of
\* a descriptor included; nothing reads it before create_client has written
\* it unless the application uses it uncreated.
Unwritten ==
    IF "uncreated" \in Uses
    THEN [socket : Fds \cup {NoFd}, client_id : {"wild", "null"},
          ip_broker : {"wild", "null"}, buffer : {"wild", "null"},
          capacity : {0}, buffer_size : {0}]
    ELSE {[socket |-> NoFd, client_id |-> "wild", ip_broker |-> "wild",
           buffer |-> "wild", capacity |-> 0, buffer_size |-> 0]}

Init ==
    /\ client \in [Clients -> Unwritten]
    /\ fds = [d \in Fds |-> NoOwner]
    /\ heap = [c \in Clients |-> 0]
    /\ phase = [c \in Clients |-> "raw"]
    /\ fault = "none"

\* A buffer size of 0 stands for the default.
EffectiveSize(n) == IF n = 0 THEN InitialSize ELSE n

\* Mutant: the block is one byte short of the size kept in buffer_size.
BuiltShort(s, n, outcome) ==
    CASE outcome = "no_id"     -> [s EXCEPT !.client_id = "null"]
      [] outcome = "no_ip"     -> [s EXCEPT !.client_id = "freed",
                                            !.ip_broker = "null"]
      [] outcome = "no_buffer" -> [s EXCEPT !.client_id = "freed",
                                            !.ip_broker = "freed",
                                            !.buffer = "null",
                                            !.buffer_size = n]
      [] outcome = "ok"        -> [socket |-> NoFd, client_id |-> "live",
                                   ip_broker |-> "live", buffer |-> "live",
                                   capacity |-> n - 1, buffer_size |-> n]

\* The client_t after create_client, by the allocation that failed.  The
\* failure paths free what they allocated and leave its address behind.
Built(s, n, outcome) ==
    CASE outcome = "no_id"     -> [s EXCEPT !.client_id = "null"]
      [] outcome = "no_ip"     -> [s EXCEPT !.client_id = "freed",
                                            !.ip_broker = "null"]
      [] outcome = "no_buffer" -> [s EXCEPT !.client_id = "freed",
                                            !.ip_broker = "freed",
                                            !.buffer = "null",
                                            !.buffer_size = n]
      [] outcome = "ok"        -> [socket |-> NoFd, client_id |-> "live",
                                   ip_broker |-> "live", buffer |-> "live",
                                   capacity |-> n, buffer_size |-> n]

\* Mutant: client_id is not freed when there is no memory for ip_broker.
BlocksKeptOnFailure ==
    [no_id |-> 0, no_ip |-> 1, no_buffer |-> 2 - 2, ok |-> 3]

\* Blocks that create_client allocates less the ones it frees again.
BuiltBlocks ==
    [no_id |-> 0, no_ip |-> 1 - 1, no_buffer |-> 2 - 2, ok |-> 3]

\* create_client writes every field without reading it: what a structure that
\* is in use held before, its blocks and its descriptor, is forgotten.
CreateClient(c) ==
    /\ Created(c) \/ LiveBlocks(client[c]) > 0 => "recreate" \in Uses
    /\ \E n \in Sizes, outcome \in DOMAIN BuiltBlocks :
        /\ outcome # "ok" => "create_client" \in MayFail
        /\ client' = [client EXCEPT ![c] = Built(@, EffectiveSize(n), outcome)]
        /\ heap' = [heap EXCEPT ![c] = @ + BuiltBlocks[outcome]]
        /\ phase' = [phase EXCEPT
                        ![c] = IF outcome = "ok" THEN "created" ELSE "raw"]
    /\ UNCHANGED <<fds, fault>>

\* Mutant: the socket field is not reset.
ReleasedButSocket(s) == [s EXCEPT !.client_id = "null", !.ip_broker = "null",
                                  !.buffer = Freed(@)]

\* What destroy_client leaves of the structure: every field but buffer is
\* marked as released.
Released(s) == [s EXCEPT !.socket = NoFd, !.client_id = "null",
                         !.ip_broker = "null", !.buffer = Freed(@)]

\* Mutant: destroy_client does not close the socket.
FdsKept(table, s) == table

FdsAfterDestroy(table, s) ==
    IF s.socket = NoFd THEN table ELSE CloseFd(table, s.socket)

Pointers(s) == {s.client_id, s.ip_broker, s.buffer}

\* The body of destroy_client, from the descriptor table given.
Destroy(c, table) ==
    \/ \E p \in Pointers(client[c]) : CrashOfFree(p)
    \/ /\ \A p \in Pointers(client[c]) : Freeable(p)
       /\ fds' = FdsAfterDestroy(table, client[c])
       /\ heap' = [heap EXCEPT ![c] = @ - LiveBlocks(client[c])]
       /\ client' = [client EXCEPT ![c] = Released(@)]
       /\ phase' = [phase EXCEPT ![c] = "destroyed"]
       /\ UNCHANGED fault

DestroyClient(c) ==
    /\ Usable(c) \/ (phase[c] = "destroyed" /\ "redestroy" \in Uses)
    /\ Destroy(c, fds)

-------------------------------------------------------------------------------
(* connect_client and disconnect_client, with create_connection_to_server   *)
(* and close_connection_client of transport/tcp/tcp_client.c.               *)

\* Mutant: the new descriptor stays open when the connection fails.
FailsWithoutClose(c, d) ==
    /\ fds' = OpenFd(fds, d, c)
    /\ UNCHANGED <<client, phase>>

\* inet_pton, connect or getsockname fails: the new descriptor is closed and
\* client->socket keeps its value.
ConnectionFails(c, d) ==
    /\ fds' = CloseFd(OpenFd(fds, d, c), d)
    /\ UNCHANGED <<client, phase>>

ConnectionSucceeds(c, d) ==
    /\ fds' = OpenFd(fds, d, c)
    /\ client' = [client EXCEPT ![c].socket = d]
    /\ phase' = Moved(c, "connected")

\* connect_client reads ip_broker after socket() has succeeded.
ConnectClient(c) ==
    /\ Usable(c)
    /\ phase[c] = "connected" => "reconnect" \in Uses
    /\ client[c].ip_broker = "null" => "null_ip" \in Uses
    /\ \E d \in Fds :
        /\ IsNextFd(d)
        /\ \/ client[c].ip_broker = "null" /\ Crash("null_deref")
           \/ client[c].ip_broker = "freed" /\ Crash("use_after_free")
           \/ client[c].ip_broker = "wild" /\ Crash("wild_deref")
           \/ /\ client[c].ip_broker = "live"
              /\ ConnectionFails(c, d) \/ ConnectionSucceeds(c, d)
              /\ UNCHANGED <<heap, fault>>

\* The descriptor is closed but client->socket keeps its number.
DisconnectClient(c) ==
    /\ Usable(c)
    /\ client[c].socket # NoFd
    /\ fds[client[c].socket] # NoOwner
    /\ fds' = CloseFd(fds, client[c].socket)
    /\ phase' = Moved(c, "disconnected")
    /\ UNCHANGED <<client, heap, fault>>

SetSocketFd(c) ==
    /\ Usable(c)
    /\ "set_socket" \in Uses
    /\ \E d \in Fds \cup {NoFd} : client' = [client EXCEPT ![c].socket = d]
    /\ UNCHANGED <<fds, heap, phase, fault>>

-------------------------------------------------------------------------------
(* The setters of the strings and of the receive buffer.                    *)

\* The pointers a caller may pass where the field holds p: a string of its
\* own or, aliased, what the getter returned, which the setter has freed.
Passed(p) == {"live"} \cup (IF "alias" \in Uses THEN {Freed(p)} ELSE {})

\* free the old string, then strdup the new one.
SetString(c, field, site) ==
    /\ Usable(c)
    /\ LET old == client[c][field] IN
       \/ CrashOfFree(old)
       \/ Freeable(old) /\ "freed" \in Passed(old) /\ Crash("use_after_free")
       \/ Freeable(old) /\ "null" \in Passed(old) /\ Crash("null_deref")
       \/ /\ Freeable(old)
          /\ \E ok \in Succeeds(site) :
              /\ client' = [client EXCEPT ![c][field] = Alloc(ok)]
              /\ heap' = [heap EXCEPT ![c] = @ - Live(old) + Live(Alloc(ok))]
          /\ UNCHANGED <<fds, phase, fault>>

SetBrokerIp(c) == SetString(c, "ip_broker", "set_broker_ip")

SetClientId(c) == SetString(c, "client_id", "set_client_id")

SetConfigStrings(c, id, ip) ==
    client' = [client EXCEPT ![c].client_id = id, ![c].ip_broker = ip]

\* set_config frees both strings before it copies the new ones, which may be
\* NULL; a failed copy returns with the other field still at its old address.
SetConfig(c) ==
    /\ Usable(c)
    /\ LET oldId == client[c].client_id
           oldIp == client[c].ip_broker
           freed == Live(oldId) + Live(oldIp)
       IN
       \/ CrashOfFree(oldId) \/ CrashOfFree(oldIp)
       \/ /\ Freeable(oldId) /\ Freeable(oldIp)
          /\ "freed" \in Passed(oldId) \cup Passed(oldIp)
          /\ Crash("use_after_free")
       \/ /\ Freeable(oldId) /\ Freeable(oldIp)
          /\ \/ /\ FALSE \in Succeeds("set_config")  \* no memory for client_id
                /\ SetConfigStrings(c, "null", Freed(oldIp))
                /\ heap' = [heap EXCEPT ![c] = @ - freed]
             \/ /\ FALSE \in Succeeds("set_config")  \* no memory for ip_broker
                /\ \E id \in {"null", "live"} :
                       SetConfigStrings(c, Freed(id), "null")
                /\ heap' = [heap EXCEPT ![c] = @ - freed]
             \/ \E id, ip \in {"null", "live"} :
                   /\ SetConfigStrings(c, id, ip)
                   /\ heap' = [heap EXCEPT ![c] = @ - freed + Live(id) + Live(ip)]
          /\ UNCHANGED <<fds, phase, fault>>

\* set_buffer_size changes the number and not the block.
SetBufferSize(c) ==
    /\ Usable(c)
    /\ \E n \in Sizes :
        /\ \/ client[c].buffer = "null"
           \/ EffectiveSize(n) <= client[c].capacity
           \/ "resize" \in Uses
        /\ client' = [client EXCEPT ![c].buffer_size = n]
    /\ UNCHANGED <<fds, heap, phase, fault>>

\* set_buffer frees the old block and takes over the one it is given (or
\* NULL), whose size it is not told.
SetBuffer(c) ==
    /\ Usable(c)
    /\ LET old == client[c].buffer IN
       \/ CrashOfFree(old)
       \/ /\ Freeable(old)
          /\ \/ \E n \in Sizes \ {0} :
                  /\ \/ EffectiveSize(client[c].buffer_size) <= n
                     \/ "resize" \in Uses
                  /\ client' = [client EXCEPT ![c].buffer = "live",
                                              ![c].capacity = n]
                  /\ heap' = [heap EXCEPT ![c] = @ - Live(old) + 1]
             \/ \E p \in {"null"} \cup (Passed(old) \ {"live"}) :
                  /\ client' = [client EXCEPT ![c].buffer = p]
                  /\ heap' = [heap EXCEPT ![c] = @ - Live(old)]
          /\ UNCHANGED <<fds, phase, fault>>

\* receive_message allocates a missing buffer and passes buffer_size to recv.
\* What recv stores is decided by the peer: the process survives a buffer
\* that is too small when little arrives.
ReceiveMessage(c) ==
    /\ Usable(c)
    /\ client[c].socket # NoFd
    /\ LET n == EffectiveSize(client[c].buffer_size)
           buffer == client[c].buffer
       IN
       \/ /\ buffer = "null"
          /\ \E ok \in Succeeds("receive_message") :
              /\ client' = [client EXCEPT
                              ![c].buffer_size = n,
                              ![c].buffer = Alloc(ok),
                              ![c].capacity = IF ok THEN n ELSE @]
              /\ heap' = [heap EXCEPT ![c] = @ + Live(Alloc(ok))]
          /\ UNCHANGED <<fds, phase, fault>>
       \/ /\ buffer # "null"
          /\ client' = [client EXCEPT ![c].buffer_size = n]
          /\ UNCHANGED <<fds, heap, phase, fault>>
       \/ /\ fds[client[c].socket] # NoOwner
          /\ \/ buffer = "freed" /\ Crash("use_after_free")
             \/ buffer = "wild" /\ Crash("wild_deref")
             \/ /\ buffer = "live"
                /\ n > client[c].capacity
                /\ Crash("overflow")

-------------------------------------------------------------------------------
\* The calls on a client besides its creation.
CallOn(c) ==
    \/ DestroyClient(c)
    \/ ConnectClient(c)
    \/ DisconnectClient(c)
    \/ SetSocketFd(c)
    \/ SetBrokerIp(c)
    \/ SetClientId(c)
    \/ SetConfig(c)
    \/ SetBufferSize(c)
    \/ SetBuffer(c)
    \/ ReceiveMessage(c)

ClientCall(c) == CreateClient(c) \/ CallOn(c)

\* Undefined behaviour ends the process.
Next == fault = "none" /\ \E c \in Clients : ClientCall(c)

Spec == Init /\ [][Next]_vars

-------------------------------------------------------------------------------
(* Safety properties.                                                       *)

\* Under careful use no call frees a block twice, reads a freed block, follows
\* NULL or writes past the receive buffer, whatever the order of the calls
\* and whichever allocation outside set_config failed before.
NoFault == fault = "none"

\* Heap blocks and pointers agree: the blocks allocated for a client and not
\* yet freed are exactly the ones its fields point to, so that no path of a
\* setter or of a failed create_client loses a block, as long as create_client
\* is not called on a client that still holds one.
HeapExact == \A c \in Clients : heap[c] = LiveBlocks(client[c])

\* A client that was destroyed, or whose creation failed, owns no block and
\* leaves no descriptor open behind it.
NothingLeftBehind ==
    \A c \in Clients : ~Created(c) =>
        heap[c] = 0 /\ \A d \in Fds : fds[d] # c

\* No descriptor leaks: one that a client opened and that is still open is
\* the one in its socket field, and the client is connected.
NoFdLeak ==
    \A c \in Clients, d \in Fds :
        fds[d] = c => client[c].socket = d /\ phase[c] = "connected"

\* A client that connected, and that nobody disconnected or destroyed since,
\* still owns the descriptor it uses: no call on another client closes it
\* or lets its number be given away.
ConnectedOwns ==
    \A c \in Clients : phase[c] = "connected" =>
        client[c].socket \in Fds /\ fds[client[c].socket] = c

\* buffer_size is the size of the buffer ("Tamanho do buffer", client.h), so
\* that recv is never offered more room than there is.
BufferSizeHonest ==
    \A c \in Clients : Created(c) /\ client[c].buffer = "live" =>
        EffectiveSize(client[c].buffer_size) <= client[c].capacity

===============================================================================
