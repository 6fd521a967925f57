------------------------------ MODULE Subscriber ------------------------------
(***************************************************************************)
(* handle_publish of lib/src/packets.c in a loop like the one that         *)
(* tests/client_test.c shows, against a broker that keeps the session      *)
(* (serialize_connect sends clean session 0) and delivers two qualities    *)
(* of service over a TCP stream.                                           *)
(*                                                                         *)
(* One recv is taken for one packet.  What recv really hands over is the   *)
(* constant choice pacing, from one packet at a time to any cut; what is   *)
(* read beyond the received bytes is whatever buffer[512] held, which may  *)
(* be an earlier packet.                                                   *)
(***************************************************************************)
EXTENDS Integers, Sequences, FiniteSets

CONSTANTS
    N,            \* messages published
    FirstId,      \* the packet identifier of the first of them
    Pacings,      \* how packets and the bytes of one recv may relate
    Kinds,        \* the kinds of message published: quality of service, and
                  \* the lengths of topic and payload
    KeepAlive,    \* whether keep_alive is on; 0 switches it off
    MaxConnects   \* bound: connections made by the application

ASSUME SubscriberAssumption ==
    /\ N \in Nat /\ FirstId \in 1..(65536 - N)
    /\ Pacings \subseteq {"paced",      \* each packet comes alone
                          "coalesced",  \* recv returns whole packets
                          "split"}      \* recv stops between any two parts
    /\ Kinds \subseteq [qos : 0..1, topic : Nat, payload : Nat]
    /\ KeepAlive \in BOOLEAN
    /\ MaxConnects \in Nat \ {0}

VARIABLES
    pacing, kind,  \* the choices of one behaviour
    link,       \* the connection as the broker sees it
    connects,   \* connections made so far
    queue,      \* packets the broker has still to send on this connection
    stream,     \* bytes sent and not yet received
    acks,       \* identifiers of the PUBACKs on their way to the broker
    published,  \* messages 1 .. published have been published
    pending,    \* the ones the session keeps for redelivery
    unsent,     \* identifiers whose PUBACK could not be sent
    loop,       \* the loop of client_test.c
    taken,      \* messages the end of which recv has returned
    shown,      \* messages that were shown whole
    order,      \* the same, for this connection, in order
    idle        \* keep_alive periods since the broker heard of the client

choices == <<pacing, kind>>
brokerVars == <<queue, published, pending>>
clientVars == <<unsent, loop, taken, shown, order>>
vars == <<choices, link, connects, stream, acks, brokerVars, clientVars, idle>>

Messages == 1..N

\* Message 0 stands for CONNACK and SUBACK.
Control == 0

\* type: the first byte; names: remaining length, topic and identifier.
Cells(m) ==
    IF m = Control THEN <<[m |-> m, part |-> "all"]>>
    ELSE <<[m |-> m, part |-> "type"], [m |-> m, part |-> "names"],
           [m |-> m, part |-> "payload"]>>

Cell == [m : 0..N, part : {"all", "type", "names", "payload"}]

Id(m) == FirstId + m - 1

\* Of a uint16_t.
MaxWord == 65535

\* Mutant: the sign-extended word is kept in an int.
ReadInt(w) == IF w % 256 >= 128 THEN (w % 256) - 256 ELSE w

\* (buffer[i] << 8) | buffer[i + 1] in a uint16_t: char is signed, and a low
\* byte of 128 or more brings its sign into the high one.
ReadWord(w) == IF w % 256 >= 128 THEN 65280 + (w % 256) ELSE w

\* What comes before the payload, counted by the broker and by handle_publish.
IdBytes(k) == IF k.qos > 0 THEN 2 ELSE 0

RemainingLength(k) == 2 + k.topic + IdBytes(k) + k.payload

\* buffer[1], and buffer[2] with buffer[3]: from 128 on the remaining length
\* has a second byte (lengths from 16384 on, with a third, are left out) and
\* the length of the topic begins a byte later.
LengthByte(k) ==
    LET length == RemainingLength(k) IN
    IF length < 128 THEN length ELSE 128 + (length % 128)

LengthWord(k) ==
    LET length == RemainingLength(k) IN
    IF length < 128 THEN k.topic ELSE 256 * (length \div 128) + (k.topic \div 256)

\* topic_length, payload_start and payload_length of handle_publish, which
\* takes buffer[1] for the whole remaining length.  The last is a size_t: a
\* negative value stands for one far beyond payload[256].
TopicLength(k) == ReadWord(LengthWord(k))

PayloadStart(k) == 4 + TopicLength(k) + IdBytes(k)

\* Mutant: the two bytes of the fixed header are not taken off.
PayloadLengthPlain(k) == LengthByte(k) - PayloadStart(k)

PayloadLength(k) == LengthByte(k) - (PayloadStart(k) - 2)

\* topic[256] and payload[256] hold the bytes and a terminator.
Fits(k) == TopicLength(k) < 256 /\ PayloadLength(k) \in 0..255

\* closed: lost, whether recv returns 0 or an error, or waits for good;
\* dropped: by the broker, after 1.5 times keep_alive.
Links == {"up", "closed", "dropped"}

\* overrun: handle_publish has written behind an array; what the process does
\* from there is not followed.  killed: by a SIGPIPE.
Loops == {"running", "overrun", "killed"}

SubscriberTypeOK ==
    /\ pacing \in Pacings
    /\ kind \in [Messages -> Kinds]
    /\ link \in Links /\ connects \in 1..MaxConnects
    /\ queue \in Seq(0..N) /\ stream \in Seq(Cell) /\ acks \in Seq(0..MaxWord)
    /\ published \in 0..N
    /\ pending \subseteq Messages
    /\ unsent \subseteq 0..MaxWord
    /\ loop \in Loops
    /\ taken \subseteq Messages /\ shown \subseteq Messages
    /\ order \in Seq(Messages)
    /\ idle \in 0..2

Kept(m) == kind[m].qos = 1

\* Unacknowledged messages are sent again, in their order: the only sequence
\* of them that ascends.
Backlogs ==
    {s \in [1..Cardinality(pending) -> pending] :
        \A i, j \in DOMAIN s : i < j => s[i] < s[j]}

Init ==
    /\ pacing \in Pacings
    /\ kind \in [Messages -> Kinds]
    /\ link = "up" /\ connects = 1
    /\ queue = <<Control, Control>>
    /\ stream = <<>> /\ acks = <<>>
    /\ published = 0 /\ pending = {}
    /\ unsent = {} /\ loop = "running"
    /\ taken = {} /\ shown = {} /\ order = <<>>
    /\ idle = 0

-------------------------------------------------------------------------------
(* The broker and the network.                                               *)

\* Another client publishes the next message; without a connection only the
\* messages that are acknowledged wait for one.
Publish ==
    /\ published < N
    /\ LET m == published + 1 IN
       /\ published' = m
       /\ pending' = IF Kept(m) THEN pending \cup {m} ELSE pending
       /\ queue' = IF link = "up" THEN Append(queue, m) ELSE queue
    /\ UNCHANGED <<choices, link, connects, stream, acks, clientVars, idle>>

Send ==
    /\ link = "up" /\ queue # <<>>
    /\ pacing = "paced" => stream = <<>>
    /\ stream' = stream \o Cells(Head(queue))
    /\ queue' = Tail(queue)
    /\ UNCHANGED <<choices, link, connects, acks, published, pending,
                   clientVars, idle>>

\* An identifier that no message waits under is ignored.
TakeAck ==
    /\ link = "up" /\ acks # <<>>
    /\ acks' = Tail(acks)
    /\ pending' = {m \in pending : Id(m) # Head(acks)}
    /\ idle' = 0
    /\ UNCHANGED <<choices, link, connects, queue, stream, published,
                   clientVars>>

\* Where recv may stop.
Cuts ==
    {n \in 1..Len(stream) :
        pacing = "split" \/ stream[n].part \in {"all", "payload"}}

\* What had not arrived is lost, in both directions.
Breaks(how) ==
    /\ link = "up" /\ connects < MaxConnects
    /\ link' = how
    /\ \E n \in {0} \cup Cuts : stream' = SubSeq(stream, 1, n)
    /\ queue' = <<>> /\ acks' = <<>>
    /\ UNCHANGED <<choices, connects, published, pending, clientVars, idle>>

\* So does a recv that a signal interrupts end the loop.
Fail == Breaks("closed")

\* What serialize_pingreq returns: a length.
SerializedPingreq == 2

\* client_pingreq sends only after a 0.
PingreqIsSent == SerializedPingreq = 0

\* keep_alive passes.  In it a thread of the application, which is not held
\* up by recv, has called client_pingreq.
Tick ==
    /\ KeepAlive /\ loop = "running"
    /\ link = "up" /\ idle < 2
    /\ idle' = IF PingreqIsSent THEN 0 ELSE idle + 1
    /\ UNCHANGED <<choices, link, connects, stream, acks, brokerVars, clientVars>>

\* More than 1.5 times keep_alive have passed.
DropIdle == idle = 2 /\ Breaks("dropped")

-------------------------------------------------------------------------------
(* The client.                                                               *)

Overrun ==
    /\ loop' = "overrun"
    /\ UNCHANGED <<shown, order, acks, unsent>>

Ignored == UNCHANGED <<loop, shown, order, acks, unsent>>

\* send failed, also half way through a PUBACK that nobody will then complete;
\* the result is not looked at.  With the connection lost, SIGPIPE may come.
NotAcknowledged(id) ==
    /\ unsent' = unsent \cup {id}
    /\ loop' \in (IF link = "up" THEN {loop} ELSE {loop, "killed"})
    /\ UNCHANGED acks

\* Mutant: the bytes of the identifier change places.
AcknowledgeSwapped(id) ==
    \/ /\ link = "up" /\ acks' = Append(acks, 256 * (id % 256) + (id \div 256))
       /\ UNCHANGED <<loop, unsent>>
    \/ NotAcknowledged(id)

Acknowledge(id) ==
    \/ /\ link = "up" /\ acks' = Append(acks, id)
       /\ UNCHANGED <<loop, unsent>>
    \/ NotAcknowledged(id)

Unacknowledged == UNCHANGED <<acks, unsent, loop>>

\* Something is printed that is none of the messages, or an earlier message
\* that is still in the buffer is printed again.
ShowsTheBuffer ==
    /\ \/ UNCHANGED order
       \/ \E m \in shown : order' = Append(order, m)
    /\ UNCHANGED shown

\* Lengths and identifier come from bytes that are not theirs.
Misread(qualities) ==
    \/ Overrun
    \/ /\ ShowsTheBuffer
       /\ \/ qualities # {1} /\ Unacknowledged
          \/ 1 \in qualities /\ \E m \in 0..N : Acknowledge(IF m = 0 THEN 0 ELSE Id(m))

\* Mutant: the identifier is the one of the packet that ends the segment.
LastAcknowledged(segment) ==
    LET m == segment[1].m IN
    /\ IF Len(segment) >= 3
       THEN shown' = shown \cup {m} /\ order' = Append(order, m)
       ELSE ShowsTheBuffer
    /\ IF kind[m].qos = 1
       THEN Acknowledge(ReadWord(Id(segment[Len(segment)].m))) ELSE Unacknowledged

\* A PUBLISH whose lengths and identifier have been received; a payload that
\* is cut off is shown with what the buffer held, and acknowledged.
Shown(segment) ==
    LET m == segment[1].m IN
    /\ IF Len(segment) >= 3
       THEN shown' = shown \cup {m} /\ order' = Append(order, m)
       ELSE ShowsTheBuffer
    /\ IF kind[m].qos = 1 THEN Acknowledge(ReadWord(Id(m))) ELSE Unacknowledged

\* Mutant: the whole first byte is compared with 0x30, flags included.
ParsedQos0(segment) ==
    IF segment[1].part = "type" /\ kind[segment[1].m].qos = 0
    THEN Shown(segment) ELSE Ignored

\* What handle_publish makes of the bytes of one recv.
Parsed(segment) ==
    LET part == segment[1].part  k == kind[segment[1].m] IN
    CASE part = "all" -> Ignored
      [] part \in {"names", "payload"} -> Ignored \/ Misread({0, 1, 2})
      [] part = "type" /\ Len(segment) = 1 -> Misread({k.qos})
      [] part = "type" /\ Len(segment) > 1 ->
             IF Fits(k) THEN Shown(segment) ELSE Overrun

\* Mutant: a PUBLISH is looked at and stays in the socket (MSG_PEEK).
Peeked(n) ==
    IF stream[1].part = "type" THEN stream ELSE SubSeq(stream, n + 1, Len(stream))

Received(n) == SubSeq(stream, n + 1, Len(stream))

\* One recv and what follows; the bytes after the first packet are dropped.
HandlePublish ==
    /\ loop = "running"
    /\ \E n \in Cuts :
        /\ Parsed(SubSeq(stream, 1, n))
        /\ stream' = Received(n)
        /\ taken' = taken \cup {stream[i].m : i \in
                        {j \in 1..n : stream[j].part = "payload"}}
    /\ UNCHANGED <<choices, link, connects, brokerVars, idle>>

\* recv returns 0 or an error, the loop ends, and the application may connect
\* and subscribe once more, as the session that the broker keeps is meant for.
Reconnect ==
    /\ loop = "running"
    /\ link \in {"closed", "dropped"} /\ stream = <<>>
    /\ link' = "up"
    /\ connects' = connects + 1
    /\ \E s \in Backlogs : queue' = <<Control, Control>> \o s
    /\ order' = <<>> /\ unsent' = {}
    /\ idle' = 0
    /\ UNCHANGED <<choices, stream, acks, published, pending, loop, taken, shown>>

-------------------------------------------------------------------------------
Next ==
    \/ Publish \/ Send \/ TakeAck \/ Fail \/ Tick \/ DropIdle
    \/ HandlePublish \/ Reconnect

Spec == Init /\ [][Next]_vars

-------------------------------------------------------------------------------
(* Properties.                                                               *)

\* As long as recv cuts no packet, what is shown on one connection is shown in
\* the order of publication and once: handle_publish never goes back in the
\* stream, also when it drops the rest of what recv returned.
InOrder ==
    pacing # "split" => \A i, j \in DOMAIN order : i < j => order[i] < order[j]

\* The broker forgets a message of QoS 1 only when it has been shown: the
\* identifier that is acknowledged is the one of the packet that was shown,
\* however many packets the segment held and whatever was lost on the way.
AckedShown ==
    pacing # "split" =>
        \A m \in 1..published : Kept(m) /\ m \notin pending => m \in shown

\* handle_publish stays within topic[256] and payload[256] as long as no packet
\* is cut and the remaining length of every message has one byte.
MemorySafe ==
    loop = "overrun" =>
        pacing = "split" \/ \E m \in Messages : RemainingLength(kind[m]) >= 128

\* Every message that recv has returned to its end was shown ("This function
\* receive PUBLISH packets from broker and print the message in the terminal",
\* packets.h).
NothingLost == loop = "running" => taken \subseteq shown

\* So it is when every packet comes alone.
PacedShowsAll == pacing = "paced" => NothingLost

\* Under the same condition, when everything on a connection has been delivered,
\* both ways, the only messages the broker still keeps for redelivery are the
\* ones with an identifier that handle_publish does not read back, and the ones
\* whose PUBACK could not be sent.
Settled ==
    /\ pacing = "paced" /\ loop = "running" /\ link = "up"
    /\ queue = <<>> /\ stream = <<>> /\ acks = <<>>
    => \A m \in pending : ReadWord(Id(m)) # Id(m) \/ Id(m) \in unsent

\* A client that calls client_pingreq in time is not dropped by the broker
\* ("Check connection. Wait for the broker to send a PINGRESP packet",
\* client_tcp_api.h).
PingKeepsAlive == link # "dropped"

===============================================================================
