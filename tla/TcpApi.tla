-------------------------------- MODULE TcpApi --------------------------------
(***************************************************************************)
(* lib/src/client_tcp_api.c, with publish, subscribe_topic and             *)
(* send_message of client.c: the MQTT packets that the clients of Client   *)
(* put on their connections, and what the calls tell the application.      *)
(*                                                                         *)
(* The peer of a connection may go away at any time; nothing in the        *)
(* library notices before a later send.  Any send may fail (EINTR, ENOBUFS,*)
(* ETIMEDOUT ...), with the peer there too, and half a packet may be out   *)
(* by then.  ApiUses adds the patterns of the application beyond careful   *)
(* use: by default client_connect is called on a client without a          *)
(* connection, the other calls on a client whose last client_connect       *)
(* returned 0, with names that fit their packets.                          *)
(***************************************************************************)
EXTENDS Client

CONSTANT ApiUses

ApiPatterns == {"retry",        \* client_connect again, without a disconnect
                "ignore",       \* other calls after client_connect failed
                "mixed",        \* the calls of client.h besides the ones above
                "long_name",    \* a client_id too long for its packet
                "long_topic",   \* a topic or message too long for its packet
                "raw_message"}  \* send_message

ASSUME ApiAssumption == ApiUses \subseteq ApiPatterns

VARIABLES
    conn,  \* descriptor number -> the connection last made under it
    told,  \* what the calls on the client have told of its session
    last   \* the call of this API just made: its name, its client, its result

apiVars == <<vars, conn, told, last>>

Peers == {"up", "gone", "reset"}

\* peer: the other end reads; it has gone; this end has been told so (RST).
\* session: where the packets sent so far leave the MQTT session.
\* subscribed: a SUBSCRIBE is in force.
\* failed: some call was told by -1 that its send on the connection failed.
Connection == [peer : Peers,
               session : {"fresh", "open", "ended", "broken"},
               subscribed : BOOLEAN,
               failed : BOOLEAN]

\* A connection as connect leaves it; the peer may be gone before the send.
New(p) == [peer |-> p, session |-> "fresh", subscribed |-> FALSE,
           failed |-> FALSE]

\* "up", "failed": the last client_connect returned 0 or -1; "warned": it
\* returned 0, and a later call returned -1 because its send failed.
Told == {"nothing", "up", "warned", "failed"}

Ops == {"client_connect", "client_disconnect", "client_subscribe",
        "client_unsubscribe", "client_publish", "client_pingreq",
        "send_message"}

NoCall == [op |-> "none"]

\* A function that ends without a return statement has no result: "none".
Calls == [op : Ops, client : Clients, ret : {"ok", "err", "none"}]

ApiTypeOK ==
    /\ TypeOK
    /\ conn \in [Fds -> Connection]
    /\ told \in [Clients -> Told]
    /\ last \in Calls \cup {NoCall}

ApiInit ==
    /\ Init
    /\ conn = [d \in Fds |-> New("up")]
    /\ told = [c \in Clients |-> "nothing"]
    /\ last = NoCall

-------------------------------------------------------------------------------
(* The stream of packets, and send_bytes_to_server.                          *)

\* The MQTT session after one more packet: CONNECT comes first and once,
\* nothing follows DISCONNECT, and bytes that are no packet end it.
NextSession(session, packet) ==
    CASE session = "fresh" /\ packet = "CONNECT"    -> "open"
      [] session = "open" /\ packet = "DISCONNECT"  -> "ended"
      [] session = "open" /\ packet \in {"SUBSCRIBE", "UNSUBSCRIBE", "PUBLISH"}
                                                    -> "open"
      [] OTHER                                      -> "broken"

Delivered(k, d, packet) ==
    [k EXCEPT ![d].session = NextSession(@, packet),
              ![d].subscribed = IF packet = "SUBSCRIBE" THEN TRUE
                                ELSE IF packet = "UNSUBSCRIBE" THEN FALSE
                                ELSE @]

\* The loop of send gives up with -1 at any error.  Where part of the packet
\* is out by then, no packet can be read from the stream any more.
Failed(k, d) ==
    {[k EXCEPT ![d].failed = TRUE],
     [k EXCEPT ![d].failed = TRUE, ![d].session = "broken"]}

Outcome(res, k) == [res |-> res, conn |-> k]

\* What send may do with a packet on d, given the open descriptors and the
\* connections: EBADF when d is not open; accepted by the kernel, and answered
\* by RST, when the peer has gone; after that ECONNRESET or EPIPE, and with
\* EPIPE the signal that ends the process (send is given no MSG_NOSIGNAL).
Sent(table, k, d, packet) ==
    IF d \notin Fds THEN {Outcome("err", k)}
    ELSE IF table[d] = NoOwner THEN {Outcome("err", k)}
    ELSE CASE k[d].peer = "up" ->
                {Outcome("ok", Delivered(k, d, packet))}
                  \cup {Outcome("err", f) : f \in Failed(k, d)}
           [] k[d].peer = "gone" ->
                {Outcome("ok", [k EXCEPT ![d].peer = "reset"])}
                  \cup {Outcome("err", [k EXCEPT ![d].failed = TRUE, ![d].peer = p]) :
                            p \in {"gone", "reset"}}
           [] k[d].peer = "reset" ->
                {Outcome(r, [k EXCEPT ![d].failed = TRUE]) : r \in {"err", "killed"}}

FaultAfter(res) == IF res = "killed" THEN "sigpipe" ELSE fault

\* Mutant: the outcome is handed on as it is.
RawResult(res) == res

ResultOf(res) == IF res = "ok" THEN "ok" ELSE "err"

Return(op, c, ret) == last' = [op |-> op, client |-> c, ret |-> ret]

\* Mutant: the call returns 0 although its send failed.
TellNothing(c, res) == UNCHANGED told

\* A call that returns -1 tells the application to expect nothing more of the
\* session that client_connect has promised it.
Tell(c, res) ==
    told' = [told EXCEPT
                ![c] = IF @ = "up" /\ res # "ok" THEN "warned" ELSE @]

\* Mutant: the descriptor is closed when a send fails.
SendOrClose(op, c, packet) ==
    /\ \E o \in Sent(fds, conn, client[c].socket, packet) :
        /\ conn' = o.conn
        /\ fault' = FaultAfter(o.res)
        /\ Return(op, c, ResultOf(o.res))
        /\ IF o.res = "err" /\ client[c].socket \in Fds
           THEN fds' = CloseFd(fds, client[c].socket)
           ELSE UNCHANGED fds
        /\ Tell(c, o.res)
    /\ UNCHANGED <<client, heap, phase>>

\* A call that only sends one packet on the client's socket.
SendOnly(op, c, packet) ==
    /\ \E o \in Sent(fds, conn, client[c].socket, packet) :
        /\ conn' = o.conn
        /\ fault' = FaultAfter(o.res)
        /\ Return(op, c, ResultOf(o.res))
        /\ Tell(c, o.res)
    /\ UNCHANGED <<client, fds, heap, phase>>

-------------------------------------------------------------------------------
(* client_connect: the result of connect_client is not looked at; CONNECT is *)
(* sent on whatever descriptor the socket field then holds.                  *)

\* Mutant: the result of the send is not looked at.
SendConnectUnchecked(c, k) ==
    /\ client[c].client_id = "live"
    /\ \E o \in Sent(fds', k, client'[c].socket, "CONNECT") :
        /\ conn' = o.conn
        /\ told' = [told EXCEPT ![c] = "up"]
        /\ fault' = FaultAfter(o.res)
        /\ Return("client_connect", c, "ok")

\* serialize_connect and the send, after connect_client has left the
\* connections k; the descriptors and the socket field are the ones it left.
SendConnect(c, k) ==
    \/ /\ client[c].client_id = "freed"
       /\ fault' = "use_after_free"
       /\ conn' = k
       /\ UNCHANGED <<told, last>>
    \/ /\ client[c].client_id = "wild"
       /\ fault' = "wild_deref"
       /\ conn' = k
       /\ UNCHANGED <<told, last>>
    \/ /\ client[c].client_id = "null" \/ "long_name" \in ApiUses
       /\ conn' = k
       /\ told' = [told EXCEPT ![c] = "failed"]
       /\ Return("client_connect", c, "err")
       /\ UNCHANGED fault
    \/ /\ client[c].client_id = "live"
       /\ \E o \in Sent(fds', k, client'[c].socket, "CONNECT") :
           /\ conn' = o.conn
           /\ told' = [told EXCEPT
                         ![c] = IF o.res = "ok" THEN "up" ELSE "failed"]
           /\ fault' = FaultAfter(o.res)
           /\ Return("client_connect", c, ResultOf(o.res))

MayConnect(c) ==
    /\ Usable(c)
    /\ phase[c] = "connected" => "retry" \in ApiUses

\* Without a free descriptor nothing is opened and ip_broker is not read.
ClientConnect(c) ==
    /\ MayConnect(c)
    /\ client[c].ip_broker = "null" => "null_ip" \in Uses
    /\ \/ \E d \in Fds :
            /\ IsNextFd(d)
            /\ client[c].ip_broker = "live"
            /\ \/ ConnectionFails(c, d) /\ SendConnect(c, conn)
               \/ /\ ConnectionSucceeds(c, d)
                  /\ \E p \in Peers : SendConnect(c, [conn EXCEPT ![d] = New(p)])
       \/ /\ \A d \in Fds : fds[d] # NoOwner
          /\ UNCHANGED <<client, fds, phase>>
          /\ SendConnect(c, conn)
       \/ /\ \E d \in Fds : fds[d] = NoOwner
          /\ \/ client[c].ip_broker = "null" /\ fault' = "null_deref"
             \/ client[c].ip_broker = "freed" /\ fault' = "use_after_free"
             \/ client[c].ip_broker = "wild" /\ fault' = "wild_deref"
          /\ UNCHANGED <<client, fds, phase, conn, told, last>>
    /\ UNCHANGED heap

-------------------------------------------------------------------------------
\* Careful use of the calls that need a session.  A call that failed does not
\* keep the application from the next one (tests/api_test.c).
MayCall(c) ==
    /\ Usable(c)
    /\ told[c] \in {"up", "warned"} \/ "ignore" \in ApiUses

\* Mutant: DISCONNECT is sent and nothing else is done.
DisconnectOnlySends(c) ==
    /\ MayCall(c)
    /\ SendOnly("client_disconnect", c, "DISCONNECT")

\* A failed send returns before anything is closed or freed.
DisconnectRefused(c) ==
    /\ \E o \in Sent(fds, conn, client[c].socket, "DISCONNECT") :
        /\ o.res # "ok"
        /\ conn' = o.conn
        /\ fault' = FaultAfter(o.res)
        /\ Tell(c, o.res)
    /\ Return("client_disconnect", c, "err")
    /\ UNCHANGED <<client, fds, heap, phase>>

DisconnectSent(c) ==
    \E o \in Sent(fds, conn, client[c].socket, "DISCONNECT") :
        o.res = "ok" /\ conn' = o.conn

\* After a good send disconnect_client closes the descriptor, invokes
\* on_disconnect (here one that calls nothing of the library: see Dpubsub)
\* and destroy_client, which still finds its number in the socket field,
\* closes it once more.
ClientDisconnect(c) ==
    /\ MayCall(c)
    /\ \/ DisconnectRefused(c)
       \/ /\ DisconnectSent(c)
          /\ Destroy(c, CloseFd(fds, client[c].socket))
          /\ told' = [told EXCEPT ![c] = "nothing"]
          /\ Return("client_disconnect", c, "none")

\* subscribe_topic assigns to its argument where it means to compare it: its
\* body is dead code, nothing is sent, and it returns no value to test.
ClientSubscribe(c) ==
    /\ MayCall(c)
    /\ \E ret \in {"ok", "err"} : Return("client_subscribe", c, ret)
    /\ UNCHANGED <<vars, conn, told>>

\* The remaining length is written as one byte: a long topic gives bytes that
\* are no packet.
ClientUnsubscribe(c) ==
    /\ MayCall(c)
    /\ \/ SendOnly("client_unsubscribe", c, "UNSUBSCRIBE")
       \/ /\ "long_topic" \in ApiUses
          /\ SendOnly("client_unsubscribe", c, "garbage")

\* publish writes through a message_t pointer that it never set; where that
\* does not end the process the packet follows.  The error of
\* serialize_publish is passed on as a length: the bytes that follow the
\* buffer are sent until send faults.
ClientPublish(c) ==
    /\ MayCall(c)
    /\ \/ /\ Crash("wild_deref")
          /\ UNCHANGED <<conn, told, last>>
       \/ SendOnly("client_publish", c, "PUBLISH")
       \/ /\ "long_topic" \in ApiUses
          /\ \E o \in Sent(fds, conn, client[c].socket, "garbage") :
              /\ conn' = o.conn
              /\ fault' = FaultAfter(o.res)
          /\ Return("client_publish", c, "err")
          /\ Tell(c, "err")
          /\ UNCHANGED <<client, fds, heap, phase>>

\* serialize_pingreq returns the length 2 and anything but 0 is taken for an
\* error: nothing is sent.
ClientPingreq(c) ==
    /\ MayCall(c)
    /\ Return("client_pingreq", c, "err")
    /\ UNCHANGED <<vars, conn, told>>

\* send_message sends the first bytes of the message_t itself, an address.
SendMessage(c) ==
    /\ MayCall(c)
    /\ "raw_message" \in ApiUses
    /\ client[c].socket # NoFd
    /\ SendOnly("send_message", c, "garbage")

-------------------------------------------------------------------------------
(* The calls of Client that an application of this API makes too, and the    *)
(* other end of the connections.                                             *)

Create(c) ==
    /\ CreateClient(c)
    /\ told' = [told EXCEPT ![c] = "nothing"]
    /\ last' = NoCall
    /\ UNCHANGED conn

Rename(c) ==
    /\ SetClientId(c)
    /\ last' = NoCall
    /\ UNCHANGED <<conn, told>>

\* Any other call of client.h.  One that connects makes a new connection.
DirectCall(c) ==
    /\ CallOn(c)
    /\ \/ fds' = fds /\ UNCHANGED conn
       \/ /\ fds' # fds
          /\ \E p \in Peers :
                 conn' = [d \in Fds |-> IF fds[d] = NoOwner /\ fds'[d] # NoOwner
                                        THEN New(p) ELSE conn[d]]
    /\ told' = [told EXCEPT ![c] = IF phase'[c] = phase[c] THEN @ ELSE "nothing"]
    /\ last' = NoCall

LeaveBy(call, c) ==
    /\ call
    /\ told' = [told EXCEPT ![c] = "nothing"]
    /\ last' = NoCall
    /\ UNCHANGED conn

PeerGoes(d) ==
    /\ fds[d] # NoOwner
    /\ conn[d].peer = "up"
    /\ \E p \in {"gone", "reset"} : conn' = [conn EXCEPT ![d].peer = p]
    /\ last' = NoCall
    /\ UNCHANGED <<vars, told>>

ApiCall(c) ==
    \/ ClientConnect(c)
    \/ ClientDisconnect(c)
    \/ ClientSubscribe(c)
    \/ ClientUnsubscribe(c)
    \/ ClientPublish(c)
    \/ ClientPingreq(c)
    \/ SendMessage(c)
    \/ Create(c)
    \/ Rename(c)
    \/ LeaveBy(DestroyClient(c), c)
    \/ "mixed" \in ApiUses /\ DirectCall(c)

ApiNext ==
    /\ fault = "none"
    /\ \/ \E c \in Clients : ApiCall(c)
       \/ \E d \in Fds : PeerGoes(d)

ApiSpec == ApiInit /\ [][ApiNext]_apiVars

-------------------------------------------------------------------------------
(* Safety properties.                                                        *)

Socket(c) == client[c].socket

\* The client uses a connection of its own whose peer has not gone.
HasPeer(c) ==
    /\ Socket(c) \in Fds
    /\ fds[Socket(c)] = c
    /\ conn[Socket(c)].peer = "up"

\* When client_connect has returned 0 and no later call has reported that its
\* send failed, the client has a descriptor of its own, and unless the peer
\* has gone meanwhile the MQTT session on it is open: the 0 does not come from
\* a CONNECT that went out on an older connection, and no packet that was cut
\* short goes unreported.
SessionOwned ==
    \A c \in Clients : told[c] = "up" =>
        /\ Socket(c) \in Fds
        /\ fds[Socket(c)] = c
        /\ HasPeer(c) => conn[Socket(c)].session = "open"

\* No client spoils an MQTT session, its own or another's, unseen: on every
\* connection on which no send was reported to have failed, CONNECT comes
\* first and once, every packet is whole, and nothing follows DISCONNECT.
ProtocolOK == \A d \in Fds : conn[d].session = "broken" => conn[d].failed

\* Two clients never share a descriptor: what one sends or closes is its own.
NoSharedSocket ==
    \A b, c \in Clients :
        b # c /\ Socket(b) \in Fds => Socket(b) # Socket(c)

\* A session that client_disconnect has ended is not kept open: the descriptor
\* is closed although the two closes of the call name the same number.
EndedIsClosed ==
    fault = "none" =>
        \A d \in Fds : conn[d].session = "ended" => fds[d] = NoOwner

\* An open descriptor is closed only by a call on the client that opened it
\* which leaves that client disconnected or destroyed.
NobodyElseCloses ==
    [][\A d \in Fds : fds[d] # NoOwner /\ fds'[d] # fds[d] =>
            phase'[fds[d]] \in {"disconnected", "destroyed"}
            /\ phase'[fds[d]] # phase[fds[d]]]_apiVars

\* What has become of the session that client_connect promised: its peer may
\* have gone, or the application been told that a send failed, but nothing
\* has spoilt it unseen.
SessionOf(c) ==
    CASE told[c] \in {"nothing", "failed"}                    -> "closed"
      [] told[c] = "warned"                                   -> "lost"
      [] told[c] = "up" /\ HasPeer(c)
           /\ conn[Socket(c)].session = "open"                -> "open"
      [] told[c] = "up" /\ Socket(c) \in Fds /\ ~HasPeer(c)
           /\ fds[Socket(c)] = c                              -> "lost"
      [] OTHER                                                -> "spoilt"

Promise == INSTANCE MqttSession WITH session <- [c \in Clients |-> SessionOf(c)]

\* The clients of one process keep the sessions apart although they share the
\* descriptor numbers: every step is a step of one session of MqttSession.
ImplementsMqttSession == Promise!Spec

\* client_subscribe puts a SUBSCRIBE on a session whose peer is there
\* ("Sending the packet SUBSCRIBE to the broker", client_tcp_api.h).
SubscribeIsSent ==
    last.op = "client_subscribe" /\ HasPeer(last.client) =>
        conn[Socket(last.client)].subscribed

===============================================================================
