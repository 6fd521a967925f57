-------------------------------- MODULE Packets --------------------------------
(***************************************************************************)
(* The serializers of lib/src/packets.c that the client calls: how many    *)
(* bytes each writes into a buffer of which size, what it returns, where a *)
(* broker that decodes the fixed header takes the packet to end, and what  *)
(* it takes a PUBLISH to say.                                              *)
(*                                                                         *)
(* Names and messages are their lengths.  One behaviour is one call of a   *)
(* serializer, with the buffer its caller has for it.                      *)
(***************************************************************************)
EXTENDS Integers, Sequences

CONSTANTS
    NameLens,      \* lengths of client ids and topics
    MessageLens,   \* lengths of messages
    QosLevels,     \* values of default_qos
    ConnectBuffer, \* sizeof(buffer1) in client_connect
    PacketBuffer   \* sizeof(buffer) in subscribe_topic and publish

\* What the i-th byte of a remaining length counts in; four bytes count up to
\* the last number.
Weight == <<1, 128, 16384, 2097152, 268435456>>

ASSUME PacketsAssumption ==
    /\ NameLens \subseteq Nat
    /\ MessageLens \subseteq Nat
    /\ QosLevels \subseteq Nat
    /\ ConnectBuffer \in Nat
    /\ PacketBuffer \in 0..Weight[5]

VARIABLE packet  \* the last packet serialized

NoPacket == [kind |-> "none"]

Kinds == {"CONNECT", "PUBLISH", "SUBSCRIBE", "UNSUBSCRIBE", "DISCONNECT",
          "PINGREQ"}

\* What a PUBLISH says; topic and payload are lengths.
Publication == [dup : 0..1, qos : Nat, retain : 0..1, topic : Nat, payload : Int]

NoPublication == [dup |-> 0, qos |-> 0, retain |-> 0, topic |-> 0, payload |-> 0]

\* size: of the caller's buffer; written: bytes stored in it; ends: bytes that
\* the broker takes for the packet; ret: what the serializer returns; asked
\* and read: what a PUBLISH is to say and what the broker takes it to say.
Packet == [kind : Kinds, size : Int, written : Nat, ends : Int, ret : Int,
           asked : Publication, read : Publication]

PacketTypeOK == packet \in Packet \cup {NoPacket}

Written(kind, size, written, ends) ==
    [kind |-> kind, size |-> size, written |-> written, ends |-> ends,
     ret |-> written, asked |-> NoPublication, read |-> NoPublication]

\* Mutant: an error has no packet kind.
RefusedBlank(kind, size) ==
    [kind |-> "none", size |-> size, written |-> 0, ends |-> 0, ret |-> -2,
     asked |-> NoPublication, read |-> NoPublication]

Refused(kind, size) ==
    [kind |-> kind, size |-> size, written |-> 0, ends |-> 0, ret |-> -2,
     asked |-> NoPublication, read |-> NoPublication]

-------------------------------------------------------------------------------
(* The remaining length of the fixed header.                                 *)

\* The loop of encode_remaining_length goes on until only zeros are left.
EncodedLength(n) ==
    CHOOSE k \in 1..4 : n < Weight[k + 1] /\ \A i \in 2..k : n >= Weight[i]

\* encode_remaining_length: seven bits a byte, the lowest first, and the top
\* bit set on all but the last.
EncodeRemainingLength(n) ==
    [i \in 1..EncodedLength(n) |->
        ((n \div Weight[i]) % 128) + (IF i < EncodedLength(n) THEN 128 ELSE 0)]

\* A missing byte counts as 0: the callers of the serializers that write one
\* byte put a zero there, the high byte of a length or of the message id (ids
\* are below 256).
ByteAt(bytes, i) == IF i <= Len(bytes) THEN bytes[i] ELSE 0

\* A broker reads the remaining length up to the first byte below 128, and no
\* more than four bytes.
BytesUsed(bytes) ==
    CHOOSE u \in 1..4 :
        /\ u = 4 \/ ByteAt(bytes, u) < 128
        /\ \A i \in 1..(u - 1) : ByteAt(bytes, i) >= 128

\* What it makes of them.
DecodeRemainingLength(bytes) ==
    LET digit(i) == IF i <= BytesUsed(bytes)
                    THEN Weight[i] * (ByteAt(bytes, i) % 128) ELSE 0
    IN digit(1) + digit(2) + digit(3) + digit(4)

\* The end of a packet whose remaining length is stored as the bytes given.
EndsAt(bytes) == 1 + BytesUsed(bytes) + DecodeRemainingLength(bytes)

\* buffer[1] = remaining_length keeps the low eight bits.
OneByte(n) == <<n % 256>>

-------------------------------------------------------------------------------
(* The first byte of a PUBLISH.                                              *)

\* a | bit, for a in 0..3.
OrBit(a, bit) ==
    IF (a \div bit) % 2 = 1 THEN a ELSE a + bit

\* Mutant: retain is shifted to where the quality of service belongs.
FirstByteShifted(p) ==
    16 * 3 + 8 * p.dup + (IF p.retain = 1 THEN OrBit(p.qos % 4, 2) ELSE p.qos % 4)

\* (packet_type << 4) | (dup << 3) | (qos & 3) | (retain & 1)
FirstByte(p) ==
    16 * 3 + 8 * p.dup + (IF p.retain = 1 THEN OrBit(p.qos % 4, 1) ELSE p.qos % 4)

\* What a broker reads: DUP in bit 3, QoS in bits 2 and 1, RETAIN in bit 0, the
\* topic, an identifier unless QoS is 0, and the payload up to the end.
Read(first, topic, afterTopic) ==
    LET qos == (first \div 2) % 4 IN
    [dup |-> (first \div 8) % 2, qos |-> qos, retain |-> first % 2,
     topic |-> topic, payload |-> afterTopic - (IF qos > 0 THEN 2 ELSE 0)]

-------------------------------------------------------------------------------
(* The serializers.                                                          *)

\* Mutant: the check forgets the two bytes of the fixed header.
ConnectUnchecked(idLen, size) ==
    LET remaining == (2 + 4 + 1 + 1 + 2) + (2 + idLen) IN
    IF remaining > size THEN Refused("CONNECT", size)
    ELSE Written("CONNECT", size, 2 + remaining, EndsAt(OneByte(remaining)))

\* serialize_connect for protocol level 4.
Connect(idLen, size) ==
    LET remaining == (2 + 4 + 1 + 1 + 2) + (2 + idLen) IN
    IF 2 + remaining > size THEN Refused("CONNECT", size)
    ELSE Written("CONNECT", size, 2 + remaining, EndsAt(OneByte(remaining)))

\* Mutant: a one-byte remaining length, as in the other serializers.
PublishOneByte(p, size) ==
    LET remaining == 2 + p.topic + p.payload + (IF p.qos > 0 THEN 2 ELSE 0) IN
    IF 1 + remaining > size THEN Refused("PUBLISH", size)
    ELSE Written("PUBLISH", size, 2 + remaining, EndsAt(OneByte(remaining)))

\* topic_len >> 8 and topic_len: two bytes, whatever is above them is lost.
TopicWord(p) == p.topic % 65536

\* The check leaves room for one byte of fixed header, not for the bytes of
\* the remaining length.
Publish(p, size) ==
    LET remaining == 2 + p.topic + p.payload + (IF p.qos > 0 THEN 2 ELSE 0)
        length == EncodeRemainingLength(remaining)
    IN
    IF 1 + remaining > size THEN Refused("PUBLISH", size)
    ELSE IF Len(length) > size - 1 THEN [Refused("PUBLISH", size) EXCEPT !.ret = -3]
    ELSE [Written("PUBLISH", size, 1 + Len(length) + remaining, EndsAt(length))
          EXCEPT !.asked = p,
                 !.read = Read(FirstByte(p), TopicWord(p),
                               remaining - 2 - TopicWord(p))]

Subscribe(topicLen, size) ==
    LET remaining == 2 + 2 + topicLen + 1 IN
    IF 1 + remaining > size THEN Refused("SUBSCRIBE", size)
    ELSE Written("SUBSCRIBE", size, 2 + remaining, EndsAt(OneByte(remaining)))

Unsubscribe(topicLen, size) ==
    LET remaining == 2 + 2 + topicLen IN
    IF 1 + remaining > size THEN Refused("UNSUBSCRIBE", size)
    ELSE Written("UNSUBSCRIBE", size, 2 + remaining, EndsAt(OneByte(remaining)))

\* serialize_disconnect and serialize_pingreq write first and check after.
HeaderOnly(kind, size) ==
    LET p == Written(kind, size, 2, EndsAt(OneByte(0))) IN
    IF 2 > size THEN [p EXCEPT !.ret = -2] ELSE p

-------------------------------------------------------------------------------
(* The calls, each with the buffer of its caller.                            *)

Init == packet = NoPacket

SerializeConnect ==
    \E n \in NameLens : packet' = Connect(n, ConnectBuffer)

SerializePublish ==
    \E n \in NameLens, m \in MessageLens, q \in QosLevels, dup, retain \in 0..1 :
        packet' = Publish([dup |-> dup, qos |-> q, retain |-> retain,
                           topic |-> n, payload |-> m], PacketBuffer)

SerializeSubscribe ==
    \E n \in NameLens : packet' = Subscribe(n, PacketBuffer)

\* client_unsubscribe makes the buffer as long as the packet.
SerializeUnsubscribe ==
    \E n \in NameLens : packet' = Unsubscribe(n, 2 + 2 + (2 + n))

SerializeDisconnect == packet' = HeaderOnly("DISCONNECT", 2)

SerializePingreq == packet' = HeaderOnly("PINGREQ", 2)

Next ==
    /\ packet = NoPacket
    /\ \/ SerializeConnect
       \/ SerializePublish
       \/ SerializeSubscribe
       \/ SerializeUnsubscribe
       \/ SerializeDisconnect
       \/ SerializePingreq

Spec == Init /\ [][Next]_packet

-------------------------------------------------------------------------------
(* Properties.                                                               *)

\* No serializer writes past the buffer it was given ("The buffer_size
\* argument is the size of the buffer", packets.h), also at the longest names
\* and messages that it accepts.
Fits == packet # NoPacket => packet.written <= packet.size

\* The broker finds the next packet where this one ends: what the fixed header
\* announces is what was written.
Framed ==
    packet # NoPacket /\ packet.ret > 0 => packet.ends = packet.written

\* The broker reads a PUBLISH of QoS 0 without DUP as the caller asked for it:
\* retain, which shares the first byte, disturbs neither the quality of service
\* nor, through it, the place where the payload starts, and the topic is the
\* one given if its length has 16 bits.  serialize_publish "Only works with QoS
\* 0" and "The retain and dup are not implemented yet" (packets.h): nothing is
\* said here of another QoS, nor of DUP, which MQTT forbids at QoS 0.
Understood ==
    packet # NoPacket /\ packet.asked.qos = 0 /\ packet.asked.dup = 0
    /\ packet.asked.topic < 65536
    => packet.read = packet.asked

===============================================================================
