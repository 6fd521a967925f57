# Dpubsub: models, model checks and proofs

Dpubsub is a small MQTT 3.1.1 client library in C (`src/lib/src`). This project
holds TLA+ models of it, the TLC runs that check them, and theorems checked by
TLAPS. Line numbers refer to the sources under `src/`.

## 1. Inventory

The library starts no thread, installs no signal handler and keeps no global
state. All state is in the `client_t` structures of the application, in the
process (heap, table of open descriptors) and at the other end of the
connections. What makes it hard is the order of calls over several clients,
failures half way through a call or half way through a packet, a callback of the
application in the middle of a call, a peer that may disappear between two
calls, and a byte stream whose pieces are not packets.

| Component | State | Operations | Correct when |
|---|---|---|---|
| client life cycle and setters (`client.c`) | `client_t`: socket number, `client_id`, `ip_broker`, `buffer`, `buffer_size` | create, destroy, connect, disconnect, receive, getters and setters | every block is freed once, every descriptor is closed by its owner, no call reads a freed or a missing block, `recv` stays in the buffer |
| TCP client transport (`transport/tcp/tcp_client.c`) | descriptor table, bytes sent so far | open, send in a loop, receive, close | a failed connect keeps no descriptor; partial sends leave no gap; 0 means all |
| client API over TCP (`client_tcp_api.c`; `publish`, `subscribe_topic`, `send_message` of `client.c`) | none of its own; the MQTT session it drives at the broker | `client_connect`, `client_disconnect`, `client_subscribe`, `client_unsubscribe`, `client_publish`, `client_pingreq` | CONNECT first and once, nothing after DISCONNECT, each client on its own connection, the results tell the truth |
| packet serializers (`packets.c`) | none: they fill a buffer of the caller | one per packet type | the packet fits the buffer, ends where its header says and says what was asked for |
| incoming PUBLISH (`handle_publish`, `packets.c:272`) | the byte stream between two `recv` calls | parse, print, PUBACK | every message shown whole, in order, and acknowledged under its own identifier |
| callbacks (`client.c:16-90`) | function pointers set by `create_client` | define, invoke | no pointer of a created client is followed before it is set; each is invoked only when its event has happened |
| facade (`include/dpubsub.c`) | none | forwards for the protocol `DPUBSUB_TCP` | the result says what the forwarded call said |
| TCP server of the tests (`transport/tcp/tcp_server.c`) | a receive buffer that grows, two descriptors | listen, accept, receive, close | the buffer is never written past its end; the loop ends when the connection does |
| tests, example | none | call the API in sequence | they define *careful use* below |

Interactions: the facade and the API call `client.c`; `client.c` calls the
transport and the serializers; the application owns the `client_t` and may call
every layer (the tests do). Clients of one process share nothing but the heap
and the descriptor table. That is enough to make them interfere: the kernel
hands out the lowest free descriptor number, and `disconnect_client` leaves the
number it closed in the structure. The two ends of a connection are processes of
their own and share the stream.

The hazards, each at its line and with the properties that cover it, are in
`PROJECT.json`.

## 2. Modules

```
Client ------ ClientProofs        MCClient
  |               |
TcpApi ------ TcpApiProofs        MCTcpApi       implements MqttSession
  |               |
Dpubsub ----- DpubsubProofs       MCDpubsub
Transport --- TransportProofs     MCTransport    implements ByteStream
Subscriber -- SubscriberProofs    MCSubscriber
Packets ----- PacketsProofs       MCPackets
```

Lines are EXTENDS: each module of the first column is extended by the theorems
about it and by its instances for TLC.

`Client`, `TcpApi` and `Dpubsub` extend one another, as the layers of the
library call one another, and a call of the library is one step. That is
faithful there because nothing in the library runs between two calls, and what
the environment may do inside a call (an allocation or a system call that
fails) is a choice of that step. The one place where the application runs inside
a call, the callback of `client_disconnect`, makes that call two steps in
`Dpubsub`. A call that returns early without changing anything is a stuttering
step and has no disjunct. `Transport` and `Subscriber` have two processes and
take smaller steps: one system call, one `recv`.

**Client** models `client.c` and the two halves of `tcp_client.c` that open and
close. `client[c]` keeps the fields that the properties tell apart. A pointer is
one of four values: `wild` (never written), `null`, `live` (a block) and `freed`
(the address of a block that was freed). `capacity` is the true size of the
receive buffer, `buffer_size` the number the client keeps. `fds` says which
client's call opened each open descriptor, `heap` counts the blocks allocated
for a client's fields less those freed, `phase` is the last lifecycle call that
took effect on a created client, and `fault` the undefined behaviour that ended
the process. Each action carries the name of its C function. Two constants widen
the environment: `MayFail` names the calls whose `malloc` or `strdup` may return
NULL, `Uses` the call patterns beyond careful use:

| Pattern | The application |
|---|---|
| `redestroy` | destroys a destroyed client |
| `reconnect` | connects a client that has a connection |
| `recreate` | calls `create_client` on a client that holds something: its pointers and its socket number are written over |
| `uncreated` | calls the library on a client that `create_client` did not make, because it failed and nobody looked, or was left out; such a `client_t` may hold anything (`Unwritten`) |
| `alias` | hands a setter what a getter returned |
| `null_ip` | connects without a broker address |
| `resize` | sets a size above the buffer |
| `set_socket` | writes a descriptor number of its own into the client |

*Careful use* (`Uses = {}`) is what `docs/api` shows and most of `tests/` does:
a client is created, used, and destroyed once; `connect_client` is called on a
client that has no connection; buffer sizes are those of the buffer; strings
handed to setters belong to the caller. `create_client` may be called again on a
destroyed structure, as the tests do. `tests/api_test.c` also shows `uncreated`
(it does not look at the result of `create_client`).

**TcpApi** adds `client_tcp_api.c`. `conn[d]` is the connection last made under
number d: whether its peer still reads, where the packets sent so far leave the
MQTT session, and whether some call has returned -1 for a send on it. `told[c]`
is what the application has been told of its session: the result of the last
`client_connect` (`up`, `failed`), or that a later call failed to send
(`warned`). `last` is the call just made and its result. `Sent` is
`send_bytes_to_server` as its callers see it. EBADF on a closed number. On a
living peer: the whole packet, or -1 with nothing or with half a packet out
(EINTR, ENOBUFS), after which the broker can read no further packet. When the
peer has just gone: silent acceptance by the kernel, or an error; then
ECONNRESET, or EPIPE with SIGPIPE, which ends the process (no MSG_NOSIGNAL is
given). `PeerGoes` is the broker or the network. Code that does not do what its
name says is modelled as it is: `client_subscribe` sends nothing,
`client_pingreq` always returns -1 without sending, `client_publish` may fault
on its unset pointer. `ApiUses` widens the application: connect again (`retry`),
go on after a failed connect (`ignore`), any call of `client.h` in between
(`mixed`), names too long for their packets, `send_message`.

**MqttSession** is what an application may expect: a session per client that is
opened and closed by calls on that client and may be lost, with its peer or by a
send that was reported to have failed. The mapping `SessionOf` reads it off
`told`, the socket field, `fds` and `conn`; a client that was told 0, was not
warned since, and uses a descriptor that is not its own, or a session that is
not open, maps to no session at all.

**Dpubsub** adds the facade and the callbacks. A `dpubsub_*` call takes a member
of `Protocols`. For `tcp` it is the action of `TcpApi` it forwards to. For
another one it is `NotForwarded`: `dpubsub_config`, `dpubsub_connect`,
`dpubsub_disconnect` and `dpubsub_pingreq` call nothing and return an int
without a value, which may be 0; the application then takes the client for
created (and uses it: `uncreated`) or for connected. `dpubsub_subscribe`,
`dpubsub_unsubscribe` and `dpubsub_publish` do not look at the protocol. The six
function pointers of a client change together, so one value stands for them:
`wild`, those of the library, NULL, or functions of the application's `own`
(the fields are public). `called` says which callback the step invoked, or that
it followed a pointer never set. `client_disconnect` is `DisconnectCloses`, up to
its on_disconnect, and `DisconnectReturns`, the `destroy_client` behind it;
`inside` says which call is between the two. When the callback is the
application's own, any call of the library may come in between, on any client
(bound: but not a second `client_disconnect` that gets as far as its callback).

**Transport** is one connection between the two test programs
`send_data_to_server_test.c` and `recv_data_server_test.c`. `send` takes over
any number of bytes that fits the window, blocks without room, is interrupted,
or fails after a reset, with or without SIGPIPE. The receiver listens, accepts,
receives once into a static buffer, allocates, and receives into a buffer that
`manage_buffer` grows; `bind`, `listen`, `accept`, `malloc` and `realloc` may
fail, and where the test goes on after that so does the model. How the loop ends
is what `recv` says, not what has happened: the kernel reports a reset once
(`RecvError`), and a `recv` after that returns 0 (`RecvZero`) as at the proper
end of the connection. The `recv` of the static buffer may take the error away,
since nobody looks at its result; `reported` remembers that it was given. A
signal may interrupt `recv`. `Silence` is a peer or a network that goes without
a word: the sender's kernel gives up in time, the receiver's `recv`, which has
no timeout, does not. Bytes are known by their positions, so that a repeated,
swapped or missing byte is seen.

**ByteStream** is what sending a block promises: the receiver has a prefix of
it, nothing that was not accepted, and "ok" is told only for all of it. The
mapping takes `total_bytes_sent`, the static bytes followed by the first
`total_bytes_received` of the buffer, and the result.

**Subscriber** is `handle_publish` in a loop like the one that the end of
`client_test.c` shows in a comment (188-215), against a broker that keeps the
session (`serialize_connect` sends clean session 0) and keeps messages of QoS 1
until their PUBACK. A message has a kind: its QoS and the lengths of its topic
and payload. A packet is three cells (type byte; lengths, topic and identifier;
payload) or, for CONNACK and SUBACK, one. `pacing` is how packets become
segments: one at a time, several whole ones together, or cut anywhere. `Parsed`
is what the function makes of one `recv`: it parses from the start and drops
what is behind the first packet.

- `TopicLength`, `PayloadStart` and `PayloadLength` are the lengths as
  `packets.c` computes them from `buffer[1]`, `buffer[2]` and `buffer[3]`, which
  it takes for the remaining length and the length of the topic; `Fits` compares
  them with `topic[256]` and `payload[256]`. From a remaining length of 128 on
  the second length byte is read as the topic's. (Remaining lengths of three
  bytes, from 16384 on, are left out: they do not fit `buffer[512]`.)
- `Misread`: where less than the lengths has come, what is read is what
  `buffer[512]` held on the stack. That may be anything, so the arrays may be
  overrun and any identifier acknowledged; or it may be the previous packet,
  whose message is then printed again (`ShowsTheBuffer`).
- `ReadWord` is the 16-bit word put together from signed chars.
- `Acknowledge` sends the PUBACK, or does not (`unsent`): the result is not
  looked at. On a connection that is lost SIGPIPE may end the process.
- `loop` is `running`, `overrun` (undefined behaviour, not followed further) or
  `killed`.

Connections close, with or without the client seeing it, or are dropped by the
broker; when `recv` has returned 0 or an error the application, which is not in
the repository, may connect and subscribe again. `Tick` is one keep-alive period
in which another thread of the application has called `client_pingreq`; it uses
the client only for a `send`, so no data of the library is shared.

**Packets** models the serializers over lengths: bytes written, buffer size,
result, the place where a broker that decodes the fixed header believes the
packet to end, and for PUBLISH what was asked for and what the broker reads.
The loop of `encode_remaining_length` takes one digit to the base 128 at a time;
`EncodeRemainingLength` gives all of them at once, with `EncodedLength`, the
number of rounds of that loop, chosen as the least that leaves nothing. So no
recursion is needed, and that a broker reads the number back can be proved.
`TopicWord` is the length of the topic in the 16 bits that are stored of it.

## 3. Runs

| Run | Question | Bounds | Outcome |
|---|---|---|---|
| `client_careful` | Is careful use of the setters and the life cycle safe when allocations fail? | 2 clients, 2 descriptors, sizes 0 (default), 1 and 3 around the default 2; every allocation but those of `set_config` may fail | six invariants hold |
| `api_careful` | Do careful users of the API interfere, although they share descriptor numbers, ignore a failed connect, and any send may fail? | 3 clients for 2 descriptors, so that `socket()` fails too; peers go at any time; sends fail before, or in the middle of, a packet | five invariants and `NobodyElseCloses` hold; implements `MqttSession` |
| `facade_any_use` | What holds behind the facade whatever the application does, from a callback too? | 1 client, 1 descriptor, one size, every pattern of `ApiUses`, all of `Uses` but `resize`, a failing `create_client`, both kinds of protocol | ended sessions are closed, only an uncreated client has a callback that was never set, callbacks are truthful |
| `packets_fitting` | Do packets fit, frame and read correctly below the limits? | topics up to 122, messages up to 129 bytes around the one- and two-byte lengths, QoS 0, every flag | holds |
| `transport_connection` | Does a block arrive, whatever the sizes of the partial sends and receives and whatever fails? | 10 bytes, window 4, static buffer 2, buffer 4, chunk 3, every member of `Troubles` | three invariants hold; implements `ByteStream`; both processes end unless the connection falls silent |
| `subscriber_session` | What does a subscriber see of two messages? | 2 messages of every kind (remaining lengths 127 and 128; a long topic, a long payload), identifiers 255 (read back wrongly) and 256, every pacing, 2 connections | six invariants hold |
| `stale_descriptor` | Does a connected client keep its descriptor? | 2 careful clients | **violated**: connect c1, disconnect c1, connect c2 (same number), destroy c1 closes c2's connection |
| `api_retry` | Does 0 from `client_connect` mean an MQTT session? | 1 client that connects again | **violated**: CONNECT goes out on the old connection |
| `api_subscribe` | Does `client_subscribe` subscribe? | 1 client | **violated** |
| `packets_overrun` | Does every accepted packet fit? | lengths around 126-128 and 250-260 | **violated**: PUBLISH writes 257 bytes into 256 |
| `subscriber_lost` | Is every received message shown? | 1 message, segments of whole packets | **violated**: a PUBLISH in the segment of the SUBACK is dropped |
| `subscriber_ping` | Does calling `client_pingreq` in time keep the connection? | 1 message, one packet at a time | **violated**: no PINGREQ is ever sent |

Why the bounds are enough.

- Interference between clients needs one that leaves a number behind and one
  that gets it: two clients and one descriptor show it, the second descriptor
  lets `socket()` choose, the third client exhausts the table. Client identities
  are symmetric. What `facade_any_use` asks (ended sessions, callbacks) relates
  a client to its own connection; one client with one descriptor meets every
  combination of patterns there.
- `recreate` forgets blocks without bound, so `facade_any_use` tells states apart
  by the VIEW `WithoutRecord`, which leaves out `heap` and the record of the last
  step. No guard reads `heap`, and the records are read by a next step only for
  a `wild` callback, which the view keeps; so two states with the same view have
  the same continuations. The properties read neither `heap` nor a record of an
  earlier step, and `CallbacksTrue` is evaluated on every step. `resize` and the
  other allocations concern the receive buffer, which no property of this run
  reads.
- Sizes matter only through 0 and through "larger or smaller than the block".
- In `transport_connection` the window is smaller than the block, so that the
  sender blocks; the chunk does not divide what remains behind the static
  buffer; and the receive buffer grows more than once. `reset` and `silence` may
  come at any time and take any tail of the bytes in transit.
- In `subscriber_session` two messages are the least that can be reordered,
  share a segment, or be taken for each other's acknowledgement; two
  connections (`MaxConnects`) are the least for a redelivery. The kinds lie on
  both sides of the boundary 127/128 of the remaining length, with the longest
  topic and the longest payload below it. `idle` is capped at 2 periods, the
  first count above 1.5 times `keep_alive`.

What the passing runs exclude is excluded because the code fails there. With the
constants or the property changed as said, TLC finds (one client, unless two are
named; no run is kept):

- `redestroy`, `alias`, `null_ip`, `resize` or `uncreated` in `Uses`, or
  `set_config` in `MayFail` (its second `strdup` fails and one field keeps a
  freed address), violate `NoFault`; `resize` violates `BufferSizeHonest`;
- `recreate` violates `HeapExact`; `reconnect`, `set_socket`, `recreate` and
  `uncreated` violate `NoFdLeak` of `Client`, as does `retry` that of `TcpApi`;
- `long_topic` and `raw_message` violate `ProtocolOK` and `SessionOwned`, and so
  does `retry` `ProtocolOK`; `ignore` with `long_name` makes PUBLISH the first
  packet and violates `ProtocolOK`;
- `mixed` with two clients and one descriptor violates `SessionOwned`,
  `ProtocolOK` and `NobodyElseCloses` (with one client it does none of this);
- `other` in `Protocols` violates `SessionOwned`: the application is told 0 and
  nothing was called;
- `NobodyElseCloses` fails on `Dpubsub` with two careful clients: on_disconnect
  connects the second one, which gets the number just closed, and the
  `destroy_client` of the same `client_disconnect` closes it again;
- `fault = "sigpipe"` is reachable by two sends after the peer has gone, and
  `fault = "wild_deref"` by `client_publish`;
- a `client_disconnect` whose DISCONNECT cannot be sent returns with the client
  neither closed nor freed;
- QoS 1 in `QosLevels` lets `serialize_publish` write packets that are read as
  another QoS (bits 1 and 0 for bits 2 and 1), and DUP at QoS 0 is set as asked;
  `Understood` claims neither, as `packets.h` does not. A topic of 123 bytes or
  more (remaining length 128) violates `Framed` for SUBSCRIBE;
- without its exceptions `Settled` fails: for coalesced packets (the dropped
  PUBLISH is not sent again on a live connection), for an identifier that is not
  read back, and for a PUBACK that could not be sent. When packets are cut,
  `InOrder` fails (the stale buffer shows a message again), and the arrays are
  overrun; a remaining length of 128 overruns them without a cut.

What `api_careful` shows is worth reading next to `stale_descriptor`:
`client_disconnect` closes its descriptor twice, once through
`disconnect_client` and once through `destroy_client`, which finds the old
number in the structure. Within one API call nobody can take the number in
between, as long as the library has no threads and on_disconnect calls nothing
that connects: `TcpApi` has only such callbacks, `Dpubsub` the others. With
`disconnect_client` and `destroy_client` as two calls of the application the
pair is not harmless.

**Fairness.** `Client`, `TcpApi`, `Dpubsub` and `Packets` assume none: every
call is a finite step that the application chooses to make. `Subscriber` assumes
none either: the loop around `handle_publish` and whoever connects again are the
application's, which owes nothing to anybody, so what becomes of a message is
stated as the safety property `Settled` of the states in which everything has
been delivered. `Transport` assumes weak fairness of the sender and of the
receiver, each as a whole: they are two processes the operating system
schedules, and a process that is not blocked in a system call goes on. Nothing
obliges the network to fail. `BothEnd` then says that the sender always comes to
an end, and the receiver once it has been connected to, unless the connection
has fallen silent.

**Deadlock** is checked in `client_careful` and `stale_descriptor`. It is off
where undefined behaviour or a signal ends the process, in `Packets`, where one
behaviour is one call, and in `Transport` and `Subscriber`, which come to an end
when everything has been sent; there `BothEnd` and `Settled` say what that end
must look like.

## 4. Proofs

The theorems hold for every value of the constants that the named assumptions
of the modules (`ClientAssumption`, `TransportAssumption`, ...) and the column
*Assumes* allow; TLC evaluates the former in every run. All are proved from the
same pattern: an inductive invariant, one lemma for the initial state and one
for a step, with one step of the proof per action.

### ClientProofs

| Theorem | Assumes | Says |
|---|---|---|
| `TypeCorrect` | - | `TypeOK` |
| `NoBlockIsLost` | `NothingIsRecreated` | `HeapExact`: blocks allocated and not freed are those the fields point to |
| `NoDescriptorLeaks` | `OneConnectionAtATime` | `NoFdLeak` |
| `DestroyedLeavesNothing` | `OneConnectionAtATime` | `NothingLeftBehind` |
| `CarefulUseIsSafe` | `Careful` | `NoFault` |
| `CarefulBufferSize` | `Careful` | `BufferSizeHonest` |

`NothingIsRecreated` excludes `recreate`: `create_client` on a client that holds
blocks writes over its pointers. `OneConnectionAtATime` excludes `reconnect`,
`set_socket`, `recreate` and `uncreated`: the first three lose the number of an
open descriptor by overwriting it, and a client that was not created is in no
phase that would say it has one. `Careful` excludes `redestroy`, `alias`,
`null_ip`, `resize` and `uncreated`, which use a block that is gone, missing,
too small or never was, and the failure of `set_config`, whose half-done update
leaves a freed address in a field. No part of these assumptions can be dropped:
with any one pattern allowed, or a failing `set_config`, TLC finds `HeapExact`,
`NoFdLeak` or `NoFault` violated on one client. A second connect, a second
creation and foreign descriptor numbers leak, but do no harm to memory.

The argument. `HeapExact` is not inductive with `TypeOK` alone: `create_client`
overwrites the fields of a structure without freeing what they point to, so one
must know that a client that is not created has no `live` field. `HeapInv` adds
exactly that (`EmptyWhenNotCreated`); where clients are used uncreated it fails,
and the guard of `CreateClient`, that nothing is `live` unless `recreate` is
allowed, takes its place. `NoFdLeak` is inductive with `TypeOK` (`FdInv`)
because it also says that the owner of an open descriptor is *connected*: the
next connect, which overwrites the socket field, then finds nothing to lose. A
version without that conjunct would hold as well and could not be proved step by
step. For `NoFault`, `CarefulInv` adds for each created client (`Sound`) that no
field is `freed` or `wild` and that a buffer it has is at least as long as the
effective size; the second half is `BufferSizeHonest`.

### TcpApiProofs

| Theorem | Assumes | Says |
|---|---|---|
| `ApiTypeCorrect` | - | `ApiTypeOK` |
| `EndedSessionsAreClosed` | - | `EndedIsClosed` |
| `ApiLeaksNoDescriptor` | `OwnCalls` | `NoFdLeak` |
| `SocketsNotShared` | `OwnCalls` | `NoSharedSocket` |
| `NobodyElseClosesIt` | `OwnCalls` | `NobodyElseCloses` |
| `SessionsAreOwned` | `OwnCalls`, `~Garbage` | `SessionOwned` |
| `ApiImplementsMqttSession` | `OwnCalls`, `~Garbage` | `ImplementsMqttSession`: every step is one of `MqttSession` or a stutter |
| `ProtocolKept` | `OwnCalls`, `~Garbage`, `NameFits` | `ProtocolOK` |

`OwnCalls` excludes `retry` and `mixed` from `ApiUses`, the runs `api_retry` and
`stale_descriptor` show what each breaks, and `recreate` and `uncreated` from
`Uses`. No theorem assumes that a send succeeds. `~Garbage` excludes `long_topic` and
`raw_message`, whose bytes are no packets. `NameFits` concerns an application
that goes on after a failed `client_connect` (`ignore`): it asks that the
failure was one of the connection or of the send and not of the client id:
without a CONNECT, and without a send that failed, the next packet would be the
first one. `api_careful` fulfils all of
them, and so does any application that looks at the result of `client_connect`.

`EndedIsClosed` is inductive with the types: DISCONNECT is sent only on an open
descriptor, and the same call closes it. Everything else rests on `OwnInv`:
besides `NoFdLeak` it says that a connected client owns its descriptor, and that
a client which is not connected holds no number at all. The last part makes the
difference to `Client`: there a disconnected client keeps the number it closed
(the run `stale_descriptor`), here `client_disconnect` destroys the structure in
the same call. `SessionInv` adds that a client that was told 0, and not warned
since, has an open MQTT session on its connection while the peer is there: a
send that breaks the session is one that returns -1. `OneSession`, a lemma on
steps, says that a call moves one session only: the two together give the
refinement. `ProtocolInv` is about the clients that *may* talk, which for
`ignore` are more than those that were told 0: what they send next is `Harmless`,
because the session is open, or because a send on the connection was reported to
have failed and the stream after it is nobody's promise.

### DpubsubProofs

| Theorem | Assumes | Says |
|---|---|---|
| `DpTypeCorrect` | - | `DpTypeOK` |
| `FacadeClosesEnded` | - | `EndedIsClosed` |
| `NoWildPointerIsCalled` | - | `NoWildCallback` |
| `CallbacksTellTheTruth` | - | `CallbacksTrue` |

The step lemmas of the layers below carry over where a call of the facade is a
call of `TcpApi` or changes none of its variables (`HandedOn`). The two halves
of `client_disconnect` are no such calls and have lemmas of their own
(`ClosesEnded`, `ReturnsEnded`): the connection whose session has ended is closed
before the callback runs, and what the callback may do to that number, or to the
client, opens new connections and ends none without closing it. `CallbackInv`
adds `CallbacksSet`: a created client has no `wild` pointer. No guard keeps an
uncreated client from being used; the lemmas `MakesNone` show instead that no
call but a `create_client` that had its memory, and has set the callbacks, makes
a client created. `CallbacksTrue` needs no invariant but the types: in the step
that invokes `on_disconnect`, or `on_publish`, its event takes place.

### TransportProofs

| Theorem | Assumes | Says |
|---|---|---|
| `TransportTypeCorrect` | - | `TransportTypeOK` |
| `BufferNeverOverrun` | - | `InBounds` |
| `EverythingArrives` | - | `AllArrives` |
| `TransportImplementsByteStream` | - | `ImplementsByteStream` |

`StreamInv` has four parts. `BoundsInv`: the buffer has `buffer_size` bytes and
no more than that are counted as received. `InSequence`: the bytes of the static
buffer, of the counted part of the other and of the channel are consecutive
positions of the block, each part starting where the one before ends.
`Accounted`: received and travelling bytes are `total_bytes_sent` together,
unless a reset or a silence has taken some. `InStep`: how far each process is
tells what can have become of the connection (unless the error of a reset was
reported before, a 0 from `recv` means that the sender has closed and the channel
is empty). None of them is a consequence of the
types, and none is inductive without the others: a step of the sender keeps the
sequence because it sends on from `total_bytes_sent`, which only `Accounted`
relates to the channel.

### PacketsProofs

| Theorem | Assumes | Says |
|---|---|---|
| `PacketTypeCorrect` | - | `PacketTypeOK` |
| `PacketsAreFramed` | `OneByteEnough` | `Framed` |
| `PublishIsUnderstood` | - | `Understood`: QoS 0, without DUP, topics below 65536 |
| `PacketsFit` | `RoomForHeader` | `Fits` |
| `OverrunIsBounded` | `PacketBuffer <= 16384` | no packet is more than two bytes longer than its buffer |

One behaviour of `Packets` is one call, so the work is in lemmas about
operators. `EncodedIsReadBack`: any number below 128^4 is read back by the
broker from the bytes that `encode_remaining_length` makes of it, and the broker
uses all of them and no more. `PublishCases`: a PUBLISH is refused, or its
length, its end and its flags are the ones computed; the error -3 of
`serialize_publish` cannot occur. `OneByteEnough` (names up to 122, a CONNECT
buffer up to 129; `client_connect` has 128) is needed for CONNECT, SUBSCRIBE and
UNSUBSCRIBE, which store the remaining length in one byte, never for PUBLISH.
`Understood` itself is restricted to QoS 0 and to packets without DUP, as
`packets.h` restricts `serialize_publish`, and to topics whose length fits the 16
bits it is stored in; a buffer above 65535 bytes would let longer ones through.
`RoomForHeader` is the condition under which the checks,
which count one byte too few, do no harm: the lengths of `packets_fitting`
fulfil it and those of `packets_overrun` do not. Without it `OverrunIsBounded`
says how bad it gets.

### SubscriberProofs

| Theorem | Assumes | Says |
|---|---|---|
| `SubscriberTypeCorrect` | - | `SubscriberTypeOK` |
| `ShownInOrder` | - | `InOrder` |
| `BuffersHold` | - | `MemorySafe` |
| `AcknowledgedWasShown` | `N <= 256` or `FirstId + N <= 65408` | `AckedShown` |
| `PacedMessagesAreShown` | - | `PacedShowsAll` |
| `DeliveredIsSettled` | - | `Settled` |

All but the first are about streams that are not cut inside a packet, or about
packets that come alone; the properties say so themselves. `Whole` says that
while no packet is cut the stream is a row of whole packets (`Row`); lemmas show
that rows may be joined and cut behind a packet. `HandleWhole` follows:
`handle_publish` then starts at the first byte of a packet and shows it, ignores
it, or overruns its arrays where the message does not fit them. `OrderInv` says
of everything that is still to come on a connection, first the stream and then
the queue, that it ascends and that it lies beyond what was shown; and that
nothing was shown or is kept that was not published, so that the next message is
the largest. `OneByteFits` is arithmetic: for a remaining length of one byte the
lengths that `handle_publish` computes from the bytes are those of the message,
and both arrays hold them and a terminator; with `HandleWhole` it gives
`MemorySafe`. `AcksShown` (an identifier on its way to the broker belongs to a
message that was shown) gives `AckedShown`, and `Single` (one packet at most in
the stream) `PacedShowsAll`. `WaitingUnderway` gives `Settled`: a message that
waits for its acknowledgement, and whose identifier is read back, is in the
queue or in the stream, or its PUBACK is under way or could not be sent; so when
nothing is under way nothing else is left.

The condition of `AcknowledgedWasShown` is `IdsApart`, that no message is
acknowledged under the identifier of another one: an identifier whose low byte
is 128 or more is read as one from 0xFF80 on with the same low byte
(`ReadBackOrHigh`), so it takes more than 256 identifiers that reach 0xFF80 for
another message to have it. There the property fails: the message with the
identifier 0xFF80 is forgotten when the one with 0xFE80 is acknowledged.

### Only model-checked

`BothEnd`: liveness under fairness is out of the prover's reach, as is ENABLED.
The properties of the runs that expect a violation (`ConnectedOwns`,
`SubscribeIsSent`, `NothingLost`, `PingKeepsAlive`) are violated and have no
theorem. No module declares a RECURSIVE operator or a recursive function; the
redelivery order of the broker is the only ascending listing of what is pending
(`Backlogs`), not the result of a sort. Every other invariant, action property
and refinement that a passing run checks has its theorem.

## 5. Not modelled

- `set_qos`, `set_keep_alive`, `set_broker_port` only store a number; what
  depends on it is a constant (`QosLevels`, `KeepAlive`) or nothing.
- `serialize_connack` and `close_resource` have no caller, `define_publish_cb`
  has an empty body, and many functions that `packets.h` and `client.h` declare
  are defined nowhere.
- `send_bytes_to_client`: one `send` whose result is dropped, called by the
  server test only.
- QoS 2: an empty branch in `handle_publish`.
- `dpubsub_define_config_struct` fills a structure of the caller's;
  `dpubsub_define_client_struct` changes a copy that it throws away.
- The content of names and messages, and the wording of the output.
- A second `client_disconnect` begun inside the on_disconnect of the first, and
  callbacks that never return (`longjmp`, `exit`).
- Remaining lengths of three bytes and more on the receiving side: such a packet
  does not fit the 512 bytes of one `recv` of `handle_publish`.
- Calls on one client from several threads, but for the ping of `Subscriber`:
  the library documents no such use.
- The tests, the example and the build files: the source of careful use, of the
  loop of `Subscriber` and of the processes of `Transport`.

## 6. Plan

Done: the models of section 2, the runs of section 3, and the theorems of
section 4, which state every invariant and every action property that a passing
run checks, and both refinements. What is left:

1. **The necessity of the conditions.** `NothingIsRecreated`,
   `OneConnectionAtATime`, `Careful`, `OwnCalls`, `NameFits` and `RoomForHeader`
   are shown to be needed by TLC counterexamples only; what still holds without
   them (as `OverrunIsBounded` does for `RoomForHeader`) could be stated and
   proved for the others.
2. **TcpApi with mixed calls.** Which part of `SessionOwned` survives when an
   application mixes calls of `client.h` into the API without ever destroying a
   disconnected client after another one has connected; and, of
   `NobodyElseCloses` behind the facade, when no callback connects another
   client.
3. **Steps towards liveness.** The safety half of `BothEnd`: which action is
   enabled in a state where a process has not ended, as an invariant.
