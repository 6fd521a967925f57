----------------------------- MODULE PacketsProofs -----------------------------
(* Theorems about Packets for any lengths of names, messages and buffers. *)
EXTENDS Packets, TLAPS

-------------------------------------------------------------------------------
(* The remaining length: what is read back is what was written.              *)

LEMMA Weights ==
  /\ Weight[1] = 1 /\ Weight[2] = 128 /\ Weight[3] = 128 * Weight[2]
  /\ Weight[4] = 128 * Weight[3] /\ Weight[5] = 128 * Weight[4]
  /\ \A i \in 1..5 : Weight[i] \in Nat
  BY SMT DEF Weight

\* The numbers that k bytes of remaining length tell.
Short(n, k) == n < Weight[k + 1] /\ \A i \in 2..k : n >= Weight[i]

LEMMA LengthOfEncoded ==
  ASSUME NEW n \in Nat, n < Weight[5]
  PROVE  EncodedLength(n) \in 1..4 /\ Short(n, EncodedLength(n))
  <1>1. EncodedLength(n) = CHOOSE k \in 1..4 : Short(n, k)
    BY DEF EncodedLength, Short
  <1>2. CASE n < Weight[2]
    <2>1. Short(n, 1)
      BY <1>2 DEF Short
    <2> QED BY <1>1, <2>1
  <1>3. CASE n >= Weight[2] /\ n < Weight[3]
    <2>1. Short(n, 2)
      BY <1>3 DEF Short
    <2> QED BY <1>1, <2>1
  <1>4. CASE n >= Weight[2] /\ n >= Weight[3] /\ n < Weight[4]
    <2>1. Short(n, 3)
      BY <1>4 DEF Short
    <2> QED BY <1>1, <2>1
  <1>5. CASE n >= Weight[2] /\ n >= Weight[3] /\ n >= Weight[4]
    <2>1. Short(n, 4)
      BY <1>5 DEF Short
    <2> QED BY <1>1, <2>1
  <1> QED BY <1>2, <1>3, <1>4, <1>5, Weights

LEMMA BytesOfEncoded ==
  ASSUME NEW n \in Nat, n < Weight[5], NEW i \in 1..4
  PROVE  /\ Len(EncodeRemainingLength(n)) = EncodedLength(n)
         /\ ByteAt(EncodeRemainingLength(n), i) =
              IF i > EncodedLength(n) THEN 0
              ELSE ((n \div Weight[i]) % 128)
                     + (IF i < EncodedLength(n) THEN 128 ELSE 0)
  <1>1. EncodedLength(n) \in 1..4
    BY LengthOfEncoded
  <1> DEFINE byte(j) == ((n \div Weight[j]) % 128)
                          + (IF j < EncodedLength(n) THEN 128 ELSE 0)
  <1>2. EncodeRemainingLength(n) = [j \in 1..EncodedLength(n) |-> byte(j)]
    BY DEF EncodeRemainingLength
  <1>3. Len(EncodeRemainingLength(n)) = EncodedLength(n)
    <2> HIDE DEF byte
    <2> QED BY <1>1, <1>2
  <1>4. CASE i > EncodedLength(n)
    BY <1>1, <1>3, <1>4 DEF ByteAt
  <1>5. CASE i <= EncodedLength(n)
    <2>1. EncodeRemainingLength(n)[i] = byte(i)
      BY <1>1, <1>2, <1>5
    <2> QED BY <1>1, <1>3, <1>5, <2>1 DEF ByteAt
  <1> QED BY <1>1, <1>3, <1>4, <1>5

\* How many bytes a broker takes for the remaining length, given the bytes.
LEMMA UsedBytes ==
  ASSUME NEW bytes, \A i \in 1..4 : ByteAt(bytes, i) \in Nat, NEW u \in 1..4,
         u = 4 \/ ByteAt(bytes, u) < 128,
         \A i \in 1..(u - 1) : ByteAt(bytes, i) >= 128
  PROVE  BytesUsed(bytes) = u
  <1> DEFINE Last(v) == /\ v = 4 \/ ByteAt(bytes, v) < 128
                        /\ \A i \in 1..(v - 1) : ByteAt(bytes, i) >= 128
  <1>1. \A v, w \in 1..4 : Last(v) /\ Last(w) => v = w
    <2> SUFFICES ASSUME NEW v \in 1..4, NEW w \in 1..4, Last(v), Last(w), v < w
                 PROVE  FALSE
      OBVIOUS
    <2>1. v \in 1..(w - 1) /\ v # 4
      OBVIOUS
    <2> QED BY <2>1
  <1>2. BytesUsed(bytes) = CHOOSE v \in 1..4 : Last(v)
    BY DEF BytesUsed
  <1>3. Last(u)
    OBVIOUS
  <1> HIDE DEF Last
  <1> QED BY <1>1, <1>2, <1>3

LEMMA UsedBytesType ==
  ASSUME NEW bytes, \A i \in 1..4 : ByteAt(bytes, i) \in Nat
  PROVE  BytesUsed(bytes) \in 1..4
  <1>1. CASE ByteAt(bytes, 1) < 128
    BY <1>1, UsedBytes
  <1>2. CASE ByteAt(bytes, 1) >= 128 /\ ByteAt(bytes, 2) < 128
    <2>1. \A i \in 1..(2 - 1) : i = 1
      OBVIOUS
    <2> QED BY <1>2, <2>1, UsedBytes
  <1>3. CASE ByteAt(bytes, 1) >= 128 /\ ByteAt(bytes, 2) >= 128
             /\ ByteAt(bytes, 3) < 128
    <2>1. \A i \in 1..(3 - 1) : i = 1 \/ i = 2
      OBVIOUS
    <2> QED BY <1>3, <2>1, UsedBytes
  <1>4. CASE ByteAt(bytes, 1) >= 128 /\ ByteAt(bytes, 2) >= 128
             /\ ByteAt(bytes, 3) >= 128
    <2>1. \A i \in 1..(4 - 1) : i = 1 \/ i = 2 \/ i = 3
      OBVIOUS
    <2> QED BY <1>4, <2>1, UsedBytes
  <1> QED BY <1>1, <1>2, <1>3, <1>4

LEMMA EndsAtType ==
  ASSUME NEW bytes, \A i \in 1..4 : ByteAt(bytes, i) \in Nat
  PROVE  EndsAt(bytes) \in Nat
  <1> DEFINE digit(i) == IF i <= BytesUsed(bytes)
                         THEN Weight[i] * (ByteAt(bytes, i) % 128) ELSE 0
  <1>1. BytesUsed(bytes) \in 1..4
    BY UsedBytesType
  <1>2. ASSUME NEW i \in 1..4 PROVE digit(i) \in Nat
    <2>1. ByteAt(bytes, i) % 128 \in 0..127
      OBVIOUS
    <2>2. Weight[i] \in Nat
      BY DEF Weight
    <2>3. \A a, b \in Nat : a * b \in Nat
      OBVIOUS
    <2>4. Weight[i] * (ByteAt(bytes, i) % 128) \in Nat
      BY <2>1, <2>2, <2>3
    <2> QED BY <2>4
  <1>3. DecodeRemainingLength(bytes) = digit(1) + digit(2) + digit(3) + digit(4)
    BY DEF DecodeRemainingLength
  <1> HIDE DEF digit
  <1>4. digit(1) \in Nat /\ digit(2) \in Nat /\ digit(3) \in Nat /\ digit(4) \in Nat
    BY <1>2
  <1> QED BY <1>1, <1>3, <1>4 DEF EndsAt

\* A broker reads back any remaining length that encode_remaining_length wrote.
LEMMA EncodedIsReadBack ==
  ASSUME NEW n \in Nat, n < Weight[5]
  PROVE  EndsAt(EncodeRemainingLength(n)) = 1 + EncodedLength(n) + n
  <1> DEFINE bytes == EncodeRemainingLength(n)
             k == EncodedLength(n)
             b(i) == ByteAt(bytes, i)
             d(i) == (n \div Weight[i]) % 128
  <1>1. k \in 1..4 /\ Short(n, k)
    BY LengthOfEncoded
  <1>2. \A i \in 1..4 : Weight[i] \in Nat \ {0}
    BY SMT DEF Weight
  <1>3. ASSUME NEW i \in 1..4 PROVE d(i) \in 0..127
    <2> DEFINE w == Weight[i]
               q == n \div w
    <2>1. w \in Nat /\ w > 0
      BY <1>2
    <2> HIDE DEF w
    <2>2. q \in Nat
      BY <2>1
    <2> HIDE DEF q
    <2>3. q % 128 \in 0..127
      BY <2>2
    <2> QED BY <2>3 DEF q, w
  <1>4. \A i \in 1..4 :
          b(i) = IF i > k THEN 0 ELSE d(i) + (IF i < k THEN 128 ELSE 0)
    BY BytesOfEncoded
  <1> HIDE DEF b, k, d
  <1>5. \A i \in 1..4 : b(i) \in Nat
    BY <1>1, <1>3, <1>4
  <1>6. BytesUsed(bytes) = k
    <2>1. k = 4 \/ b(k) < 128
      BY <1>1, <1>3, <1>4
    <2>2. \A i \in 1..(k - 1) : b(i) >= 128
      BY <1>1, <1>3, <1>4
    <2> HIDE DEF bytes
    <2> QED BY <1>1, <1>5, <2>1, <2>2, UsedBytes DEF b
  <1>7. ASSUME NEW i \in 1..4, i <= k PROVE b(i) % 128 = d(i)
    <2>1. d(i) \in 0..127
      BY <1>3
    <2>2. b(i) = d(i) \/ b(i) = d(i) + 128
      BY <2>1, <1>1, <1>4, <1>7
    <2> QED BY <2>1, <2>2
  <1> DEFINE digit(i) == IF i <= k THEN Weight[i] * d(i) ELSE 0
  <1>8. DecodeRemainingLength(bytes) = digit(1) + digit(2) + digit(3) + digit(4)
    <2> HIDE DEF bytes
    <2> QED BY <1>1, <1>6, <1>7 DEF DecodeRemainingLength, b
  <1> HIDE DEF bytes
  <1>9. digit(1) + digit(2) + digit(3) + digit(4) = n
    BY <1>1, SMT DEF digit, d, Weight, Short
  <1> QED BY <1>1, <1>6, <1>8, <1>9 DEF EndsAt, bytes, k

-------------------------------------------------------------------------------
(* Types.                                                                    *)

LEMMA OneByteEnds ==
  ASSUME NEW n \in Nat
  PROVE  EndsAt(OneByte(n)) \in Nat
  <1>1. \A i \in 1..4 : ByteAt(OneByte(n), i) \in Nat
    BY DEF ByteAt, OneByte
  <1> QED BY <1>1, EndsAtType

LEMMA WrittenType ==
  ASSUME NEW kind \in Kinds, NEW size \in Int, NEW written \in Nat, NEW ends \in Int
  PROVE  Written(kind, size, written, ends) \in Packet
  BY DEF Written, Packet, NoPublication, Publication

LEMMA RefusedType ==
  ASSUME NEW kind \in Kinds, NEW size \in Int
  PROVE  Refused(kind, size) \in Packet
  BY DEF Refused, Packet, NoPublication, Publication

\* What remains after the fixed header of a PUBLISH.
Remaining(p) == 2 + p.topic + p.payload + (IF p.qos > 0 THEN 2 ELSE 0)

\* serialize_publish refuses a packet or writes the whole of it.  There is
\* always room for the remaining length: the error -3 does not occur.
LEMMA PublishCases ==
  ASSUME NEW p \in Publication, p.payload \in Nat, NEW size \in Nat,
         size <= Weight[5]
  PROVE  \/ /\ 1 + Remaining(p) > size
            /\ Publish(p, size) = Refused("PUBLISH", size)
         \/ /\ Remaining(p) \in Nat /\ Remaining(p) < Weight[5]
            /\ 1 + Remaining(p) <= size
            /\ EncodedLength(Remaining(p)) \in 1..4
            /\ Publish(p, size) =
                 [kind |-> "PUBLISH", size |-> size,
                  written |-> 1 + EncodedLength(Remaining(p)) + Remaining(p),
                  ends |-> 1 + EncodedLength(Remaining(p)) + Remaining(p),
                  ret |-> 1 + EncodedLength(Remaining(p)) + Remaining(p),
                  asked |-> p,
                  read |-> Read(FirstByte(p), TopicWord(p),
                               Remaining(p) - 2 - TopicWord(p))]
  <1>1. /\ p.topic \in Nat /\ p.qos \in Nat
        /\ Remaining(p) \in Nat /\ Remaining(p) >= 2
    BY DEF Publication, Remaining
  <1>2. Weight[5] \in Nat /\ Weight[2] = 128
    BY Weights
  <1>3. CASE 1 + Remaining(p) > size
    BY <1>3 DEF Publish, Remaining
  <1>4. CASE 1 + Remaining(p) <= size
    <2> DEFINE r == Remaining(p)
               length == EncodeRemainingLength(r)
    <2>1. r < Weight[5]
      <3> HIDE DEF r, length
      <3> QED BY <1>1, <1>2, <1>4 DEF r
    <2>2. /\ EncodedLength(r) \in 1..4
          /\ Len(length) = EncodedLength(r)
          /\ EndsAt(length) = 1 + EncodedLength(r) + r
      BY <1>1, <2>1, LengthOfEncoded, BytesOfEncoded, EncodedIsReadBack
    <2>3. EncodedLength(r) <= size - 1
      <3> HIDE DEF r, length
      <3>1. Short(r, EncodedLength(r))
        BY <1>1, <2>1, LengthOfEncoded DEF r
      <3>2. EncodedLength(r) # 1 => r >= Weight[2]
        BY <2>2, <3>1 DEF Short
      <3> QED BY <1>1, <1>2, <1>4, <2>2, <3>2 DEF r
    <2>4. Publish(p, size) =
            IF Len(length) > size - 1 THEN [Refused("PUBLISH", size) EXCEPT !.ret = -3]
            ELSE [Written("PUBLISH", size, 1 + Len(length) + r, EndsAt(length))
                  EXCEPT !.asked = p,
                         !.read = Read(FirstByte(p), TopicWord(p),
                                       r - 2 - TopicWord(p))]
      BY <1>1, <1>2, <1>4 DEF Publish, Remaining
    <2> DEFINE read == Read(FirstByte(p), TopicWord(p), r - 2 - TopicWord(p))
               total == 1 + EncodedLength(r) + r
    <2> HIDE DEF length, r, read
    <2>5. ~(Len(length) > size - 1)
      BY <2>2, <2>3
    <2>6. Publish(p, size) =
            [Written("PUBLISH", size, total, total) EXCEPT !.asked = p, !.read = read]
      BY <2>2, <2>4, <2>5 DEF read
    <2>7. Publish(p, size) =
            [kind |-> "PUBLISH", size |-> size, written |-> total, ends |-> total,
             ret |-> total, asked |-> p, read |-> read]
      BY <2>6 DEF Written
    <2> QED BY <1>1, <1>4, <2>1, <2>2, <2>7 DEF r, read
  <1> QED BY <1>1, <1>2, <1>3, <1>4

LEMMA ReadType ==
  ASSUME NEW p \in Publication, NEW t \in Nat, NEW n \in Int
  PROVE  Read(FirstByte(p), t, n) \in Publication
  <1>1. p.dup \in 0..1 /\ p.retain \in 0..1 /\ p.qos \in Nat
    BY DEF Publication
  <1>2. FirstByte(p) \in Nat
    <2>1. p.qos % 4 \in 0..3
      BY <1>1
    <2>2. OrBit(p.qos % 4, 1) \in Nat
      BY <2>1 DEF OrBit
    <2> QED BY <1>1, <2>1, <2>2 DEF FirstByte
  <1>3. \A f \in Nat : /\ (f \div 8) % 2 \in 0..1 /\ f % 2 \in 0..1
                       /\ (f \div 2) % 4 \in Nat
    OBVIOUS
  <1> HIDE DEF FirstByte
  <1> QED BY <1>1, <1>2, <1>3 DEF Read, Publication

LEMMA PublishType ==
  ASSUME NEW p \in Publication, p.payload \in Nat, NEW size \in Nat,
         size <= Weight[5]
  PROVE  Publish(p, size) \in Packet
  <1>1. CASE Publish(p, size) = Refused("PUBLISH", size)
    BY <1>1, RefusedType DEF Kinds
  <1>2. CASE Publish(p, size) # Refused("PUBLISH", size)
    <2> DEFINE total == 1 + EncodedLength(Remaining(p)) + Remaining(p)
               read == Read(FirstByte(p), TopicWord(p),
                            Remaining(p) - 2 - TopicWord(p))
    <2>1. /\ Remaining(p) \in Nat /\ EncodedLength(Remaining(p)) \in 1..4
          /\ Publish(p, size) =
               [kind |-> "PUBLISH", size |-> size, written |-> total, ends |-> total,
                ret |-> total, asked |-> p, read |-> read]
      BY <1>2, PublishCases
    <2>2. total \in Nat
      BY <2>1
    <2>3. read \in Publication
      <3>1. TopicWord(p) \in Nat
        BY DEF Publication, TopicWord
      <3>2. Remaining(p) - 2 - TopicWord(p) \in Int
        BY <2>1, <3>1
      <3> QED BY <3>1, <3>2, ReadType
    <2> HIDE DEF total, read
    <2> QED BY <2>1, <2>2, <2>3 DEF Packet, Kinds
  <1> QED BY <1>1, <1>2

\* The packet of each call, with the buffer of its caller.
LEMMA Calls ==
  ASSUME Next
  PROVE  \/ \E n \in NameLens : packet' = Connect(n, ConnectBuffer)
         \/ \E p \in Publication :
              /\ p.payload \in MessageLens /\ p.topic \in NameLens
              /\ p.qos \in QosLevels
              /\ packet' = Publish(p, PacketBuffer)
         \/ \E n \in NameLens : packet' = Subscribe(n, PacketBuffer)
         \/ \E n \in NameLens : packet' = Unsubscribe(n, 2 + 2 + (2 + n))
         \/ packet' = HeaderOnly("DISCONNECT", 2)
         \/ packet' = HeaderOnly("PINGREQ", 2)
  <1>1. CASE SerializePublish
    <2>1. PICK n \in NameLens, m \in MessageLens, q \in QosLevels,
               dup \in 0..1, retain \in 0..1 :
            packet' = Publish([dup |-> dup, qos |-> q, retain |-> retain,
                               topic |-> n, payload |-> m], PacketBuffer)
      BY <1>1 DEF SerializePublish
    <2> DEFINE p == [dup |-> dup, qos |-> q, retain |-> retain,
                     topic |-> n, payload |-> m]
    <2>2. p \in Publication
      BY PacketsAssumption DEF Publication
    <2> QED BY <2>1, <2>2
  <1> QED
    BY <1>1
    DEF Next, SerializeConnect, SerializeSubscribe, SerializeUnsubscribe,
        SerializeDisconnect, SerializePingreq

LEMMA BufferSizes ==
  /\ PacketBuffer \in Nat /\ PacketBuffer <= Weight[5]
  /\ ConnectBuffer \in Nat /\ NameLens \subseteq Nat /\ MessageLens \subseteq Nat
  <1>1. Weight[5] \in Nat
    BY Weights
  <1> QED BY <1>1, PacketsAssumption

\* What the serializers with a one-byte remaining length return.
LEMMA OneByteType ==
  ASSUME NEW kind \in Kinds, NEW size \in Nat, NEW n \in Nat
  PROVE  /\ Refused(kind, size) \in Packet
         /\ Written(kind, size, 2 + n, EndsAt(OneByte(n))) \in Packet
  <1>1. EndsAt(OneByte(n)) \in Int
    BY OneByteEnds
  <1> QED BY <1>1, RefusedType, WrittenType

LEMMA PacketTypeStep == PacketTypeOK /\ [Next]_packet => PacketTypeOK'
  <1> SUFFICES ASSUME Next PROVE packet' \in Packet
    BY DEF PacketTypeOK
  <1>1. ASSUME NEW n \in NameLens, packet' = Connect(n, ConnectBuffer)
        PROVE  packet' \in Packet
    <2>1. (2 + 4 + 1 + 1 + 2) + (2 + n) \in Nat
      BY BufferSizes
    <2> QED BY <1>1, <2>1, OneByteType, BufferSizes DEF Connect, Kinds
  <1>2. ASSUME NEW p \in Publication, p.payload \in MessageLens,
               packet' = Publish(p, PacketBuffer)
        PROVE  packet' \in Packet
    BY <1>2, PublishType, BufferSizes
  <1>3. ASSUME NEW n \in NameLens, packet' = Subscribe(n, PacketBuffer)
        PROVE  packet' \in Packet
    <2>1. 2 + 2 + n + 1 \in Nat
      BY BufferSizes
    <2> QED BY <1>3, <2>1, OneByteType, BufferSizes DEF Subscribe, Kinds
  <1>4. ASSUME NEW n \in NameLens, packet' = Unsubscribe(n, 2 + 2 + (2 + n))
        PROVE  packet' \in Packet
    <2>1. 2 + 2 + n \in Nat /\ 2 + 2 + (2 + n) \in Nat
      BY BufferSizes
    <2> QED BY <1>4, <2>1, OneByteType DEF Unsubscribe, Kinds
  <1>5. ASSUME NEW kind \in Kinds, packet' = HeaderOnly(kind, 2)
        PROVE  packet' \in Packet
    <2>1. Written(kind, 2, 2, EndsAt(OneByte(0))) \in Packet
      BY OneByteEnds, WrittenType
    <2> QED BY <1>5, <2>1 DEF HeaderOnly
  <1> QED BY <1>1, <1>2, <1>3, <1>4, <1>5, Calls DEF Kinds

\* Every serializer returns a packet or an error of its kind.
THEOREM PacketTypeCorrect == Spec => []PacketTypeOK
  <1>1. Init => PacketTypeOK
    BY DEF Init, PacketTypeOK
  <1> QED BY <1>1, PacketTypeStep, PTL DEF Spec

-------------------------------------------------------------------------------
(* What a broker reads.                                                      *)

\* The condition the run packets_fitting states with its lengths: the packets
\* whose remaining length is one byte are short enough for it.
OneByteEnough == (\A n \in NameLens : n <= 122) /\ ConnectBuffer <= 129

LEMMA OneByteIsReadBack ==
  ASSUME NEW n \in Nat, n < 128
  PROVE  EndsAt(OneByte(n)) = 2 + n
  <1> DEFINE b(i) == ByteAt(OneByte(n), i)
  <1>1. b(1) = n /\ \A i \in 2..4 : b(i) = 0
    BY DEF ByteAt, OneByte
  <1>2. BytesUsed(OneByte(n)) = 1
    <2>1. \A i \in 1..4 : b(i) \in Nat
      BY <1>1
    <2>2. b(1) < 128 /\ \A i \in 1..(1 - 1) : b(i) >= 128
      BY <1>1
    <2> QED BY <2>1, <2>2, UsedBytes
  <1>3. DecodeRemainingLength(OneByte(n)) = Weight[1] * (b(1) % 128)
    <2>1. Weight[1] * (b(1) % 128) = n
      BY <1>1, Weights
    <2> QED BY <1>2, <2>1 DEF DecodeRemainingLength
  <1>4. Weight[1] * (b(1) % 128) = n
    BY <1>1, Weights
  <1> QED BY <1>2, <1>3, <1>4 DEF EndsAt

\* A packet with a one-byte remaining length, or the refusal of it.
LEMMA OneByteFramed ==
  ASSUME NEW kind, NEW size, NEW n \in Nat,
         \/ packet' = Refused(kind, size)
         \/ /\ n < 128
            /\ packet' = Written(kind, size, 2 + n, EndsAt(OneByte(n)))
  PROVE  Framed'
  <1>1. CASE packet' = Refused(kind, size)
    BY <1>1 DEF Framed, Refused
  <1>2. CASE /\ n < 128
             /\ packet' = Written(kind, size, 2 + n, EndsAt(OneByte(n)))
    BY <1>2, OneByteIsReadBack DEF Framed, Written
  <1> QED BY <1>1, <1>2

\* The broker finds the end of every packet; of a PUBLISH for any names,
\* messages and levels, of the others when one byte of length is enough.
THEOREM PacketsAreFramed ==
  ASSUME OneByteEnough
  PROVE  Spec => []Framed
  <1>1. Init => Framed
    BY DEF Init, Framed
  <1>2. Framed /\ [Next]_packet => Framed'
    <2> SUFFICES ASSUME Next PROVE Framed'
      BY DEF Framed
    <2>1. ASSUME NEW n \in NameLens, packet' = Connect(n, ConnectBuffer)
          PROVE  Framed'
      <3> DEFINE r == (2 + 4 + 1 + 1 + 2) + (2 + n)
      <3>1. r \in Nat
        BY BufferSizes
      <3>2. \/ packet' = Refused("CONNECT", ConnectBuffer)
            \/ /\ r < 128
               /\ packet' = Written("CONNECT", ConnectBuffer, 2 + r, EndsAt(OneByte(r)))
        BY <2>1, <3>1, BufferSizes DEF Connect, OneByteEnough
      <3> HIDE DEF r
      <3> QED BY <3>1, <3>2, OneByteFramed
    <2>2. ASSUME NEW p \in Publication, p.payload \in MessageLens,
                 packet' = Publish(p, PacketBuffer)
          PROVE  Framed'
      <3>1. p.payload \in Nat
        BY <2>2, BufferSizes
      <3> QED BY <2>2, <3>1, PublishCases, BufferSizes DEF Framed, Refused
    <2>3. ASSUME NEW n \in NameLens, packet' = Subscribe(n, PacketBuffer)
          PROVE  Framed'
      <3> DEFINE r == 2 + 2 + n + 1
      <3>1. r \in Nat /\ r < 128
        BY BufferSizes DEF OneByteEnough
      <3>2. \/ packet' = Refused("SUBSCRIBE", PacketBuffer)
            \/ packet' = Written("SUBSCRIBE", PacketBuffer, 2 + r, EndsAt(OneByte(r)))
        BY <2>3 DEF Subscribe
      <3> HIDE DEF r
      <3> QED BY <3>1, <3>2, OneByteFramed
    <2>4. ASSUME NEW n \in NameLens, packet' = Unsubscribe(n, 2 + 2 + (2 + n))
          PROVE  Framed'
      <3> DEFINE r == 2 + 2 + n
                 size == 2 + 2 + (2 + n)
      <3>1. r \in Nat /\ r < 128
        BY BufferSizes DEF OneByteEnough
      <3>2. \/ packet' = Refused("UNSUBSCRIBE", size)
            \/ packet' = Written("UNSUBSCRIBE", size, 2 + r, EndsAt(OneByte(r)))
        BY <2>4 DEF Unsubscribe
      <3> HIDE DEF r, size
      <3> QED BY <3>1, <3>2, OneByteFramed
    <2>5. ASSUME NEW kind, packet' = HeaderOnly(kind, 2) PROVE Framed'
      <3>1. packet' = Written(kind, 2, 2 + 0, EndsAt(OneByte(0)))
        BY <2>5 DEF HeaderOnly
      <3> QED BY <3>1, OneByteFramed
    <2> QED BY <2>1, <2>2, <2>3, <2>4, <2>5, Calls
  <1> QED BY <1>1, <1>2, PTL DEF Spec

\* Without DUP and at quality of service 0, retain has the lowest bit of the
\* first byte to itself.
LEMMA ReadAsAsked ==
  ASSUME NEW p \in Publication, p.qos = 0, p.dup = 0, p.topic < 65536
  PROVE  Read(FirstByte(p), TopicWord(p), Remaining(p) - 2 - TopicWord(p)) = p
  <1>1. /\ p = [dup |-> p.dup, qos |-> p.qos, retain |-> p.retain,
                topic |-> p.topic, payload |-> p.payload]
        /\ p.retain \in 0..1
        /\ p.topic \in Nat /\ p.payload \in Int
    BY DEF Publication
  <1>2. FirstByte(p) = 48 + p.retain
    BY <1>1 DEF FirstByte, OrBit
  <1>3. /\ (FirstByte(p) \div 8) % 2 = 0
        /\ FirstByte(p) % 2 = p.retain
        /\ (FirstByte(p) \div 2) % 4 = 0
    BY <1>1, <1>2
  <1>4. TopicWord(p) = p.topic
    BY <1>1 DEF TopicWord
  <1>5. Remaining(p) - 2 - TopicWord(p) = p.payload
    BY <1>1, <1>4 DEF Remaining
  <1> HIDE DEF FirstByte, Remaining, TopicWord
  <1> QED BY <1>1, <1>3, <1>4, <1>5 DEF Read

\* The broker reads every PUBLISH of QoS 0 without DUP as it was asked for,
\* with retain or without, for every topic whose length has 16 bits and every
\* payload; whatever else is published.
THEOREM PublishIsUnderstood == Spec => []Understood
  <1>1. Init => Understood
    BY DEF Init, Understood
  <1>2. Understood /\ [Next]_packet => Understood'
    <2>0. Understood /\ packet' = packet => Understood'
      BY DEF Understood
    <2> SUFFICES ASSUME Next PROVE Understood'
      BY <2>0
    <2> DEFINE Plain(p) == p.qos = 0 /\ p.dup = 0 /\ p.topic < 65536
    <2> SUFFICES ASSUME Plain(packet'.asked) PROVE packet'.read = packet'.asked
      BY DEF Understood
    <2> HIDE DEF Plain
    <2>1. ASSUME NEW p \in Publication, p.payload \in MessageLens,
                 packet' = Publish(p, PacketBuffer)
          PROVE  packet'.read = packet'.asked
      <3>1. p.payload \in Nat
        BY <2>1, BufferSizes
      <3>2. \/ packet' = Refused("PUBLISH", PacketBuffer)
            \/ /\ packet'.asked = p
               /\ packet'.read = Read(FirstByte(p), TopicWord(p),
                                      Remaining(p) - 2 - TopicWord(p))
        BY <2>1, <3>1, PublishCases, BufferSizes
      <3>3. CASE packet' = Refused("PUBLISH", PacketBuffer)
        BY <3>3 DEF Refused
      <3>4. CASE /\ packet'.asked = p
                 /\ packet'.read = Read(FirstByte(p), TopicWord(p),
                                       Remaining(p) - 2 - TopicWord(p))
        <4>1. p.qos = 0 /\ p.dup = 0 /\ p.topic < 65536
          BY <3>4 DEF Plain
        <4> QED BY <3>4, <4>1, ReadAsAsked
      <3> QED BY <3>2, <3>3, <3>4
    <2>2. ASSUME packet'.read = NoPublication, packet'.asked = NoPublication
          PROVE  packet'.read = packet'.asked
      BY <2>2
    <2>3. \/ \E p \in Publication :
             p.payload \in MessageLens /\ packet' = Publish(p, PacketBuffer)
          \/ packet'.read = NoPublication /\ packet'.asked = NoPublication
      BY Calls
      DEF Connect, Subscribe, Unsubscribe, HeaderOnly, Refused, Written
    <2> QED BY <2>1, <2>2, <2>3
  <1> QED BY <1>1, <1>2, PTL DEF Spec

-------------------------------------------------------------------------------
(* The size of the buffer.                                                   *)

\* The lengths at which the checks, which count one byte of fixed header, let
\* no packet through that is longer than its buffer: what is accepted leaves
\* room for two bytes of remaining length in a PUBLISH, for one in a SUBSCRIBE.
RoomForHeader ==
    /\ PacketBuffer <= Weight[3]
    /\ \A p \in Publication :
          /\ p.topic \in NameLens /\ p.payload \in MessageLens
          /\ p.qos \in QosLevels /\ 1 + Remaining(p) <= PacketBuffer
          => 1 + 2 + Remaining(p) <= PacketBuffer
    /\ \A n \in NameLens : 1 + (2 + 2 + n + 1) # PacketBuffer

\* No serializer writes past its buffer at these lengths; CONNECT, UNSUBSCRIBE,
\* DISCONNECT and PINGREQ never do.
THEOREM PacketsFit ==
  ASSUME RoomForHeader
  PROVE  Spec => []Fits
  <1>1. Init => Fits
    BY DEF Init, Fits
  <1>2. Fits /\ [Next]_packet => Fits'
    <2> SUFFICES ASSUME Next PROVE packet'.written <= packet'.size
      BY DEF Fits
    <2>1. ASSUME NEW p \in Publication, p.payload \in MessageLens,
                 p.topic \in NameLens, p.qos \in QosLevels,
                 packet' = Publish(p, PacketBuffer)
          PROVE  packet'.written <= packet'.size
      <3>1. p.payload \in Nat
        BY <2>1, BufferSizes
      <3>2. CASE packet' = Refused("PUBLISH", PacketBuffer)
        BY <3>2, BufferSizes DEF Refused
      <3>3. CASE /\ Remaining(p) \in Nat /\ Remaining(p) < Weight[5]
                 /\ 1 + Remaining(p) <= PacketBuffer
                 /\ EncodedLength(Remaining(p)) \in 1..4
                 /\ packet'.written =
                      1 + EncodedLength(Remaining(p)) + Remaining(p)
                 /\ packet'.size = PacketBuffer
        <4>1. 1 + 2 + Remaining(p) <= PacketBuffer
          BY <2>1, <3>3 DEF RoomForHeader
        <4>2. Short(Remaining(p), EncodedLength(Remaining(p)))
          BY <3>3, LengthOfEncoded
        <4>3. Weight[3] \in Nat /\ PacketBuffer <= Weight[3]
          BY Weights DEF RoomForHeader
        <4>4. Remaining(p) < Weight[3]
          BY <3>3, <4>3, BufferSizes
        <4>5. EncodedLength(Remaining(p)) <= 2
          BY <3>3, <4>2, <4>3, <4>4 DEF Short
        <4> QED BY <3>3, <4>1, <4>5, BufferSizes
      <3> QED BY <2>1, <3>1, <3>2, <3>3, PublishCases, BufferSizes
    <2>2. ASSUME NEW n \in NameLens, packet' = Subscribe(n, PacketBuffer)
          PROVE  packet'.written <= packet'.size
      BY <2>2, BufferSizes DEF Subscribe, Written, Refused, RoomForHeader
    <2>3. ASSUME NEW n \in NameLens,
                 \/ packet' = Connect(n, ConnectBuffer)
                 \/ packet' = Unsubscribe(n, 2 + 2 + (2 + n))
          PROVE  packet'.written <= packet'.size
      BY <2>3, BufferSizes DEF Connect, Unsubscribe, Written, Refused
    <2>4. ASSUME NEW kind, packet' = HeaderOnly(kind, 2)
          PROVE  packet'.written <= packet'.size
      BY <2>4 DEF HeaderOnly, Written
    <2> QED BY <2>1, <2>2, <2>3, <2>4, Calls
  <1> QED BY <1>1, <1>2, PTL DEF Spec

\* How far the checks let a packet go beyond its buffer, for one of up to
\* 16384 bytes (publish and subscribe_topic have 256).
OverrunsByTwo == packet # NoPacket => packet.written <= packet.size + 2

\* Whatever the names, the messages and the quality of service: two bytes is
\* the most that a serializer writes past its buffer.
THEOREM OverrunIsBounded ==
  ASSUME PacketBuffer <= Weight[3]
  PROVE  Spec => []OverrunsByTwo
  <1>1. Init => OverrunsByTwo
    BY DEF Init, OverrunsByTwo
  <1>2. OverrunsByTwo /\ [Next]_packet => OverrunsByTwo'
    <2> SUFFICES ASSUME Next PROVE packet'.written <= packet'.size + 2
      BY DEF OverrunsByTwo
    <2>1. ASSUME NEW p \in Publication, p.payload \in MessageLens,
                 packet' = Publish(p, PacketBuffer)
          PROVE  packet'.written <= packet'.size + 2
      <3>1. p.payload \in Nat
        BY <2>1, BufferSizes
      <3>2. CASE packet' = Refused("PUBLISH", PacketBuffer)
        BY <3>2, BufferSizes DEF Refused
      <3>3. CASE /\ Remaining(p) \in Nat /\ Remaining(p) < Weight[5]
                 /\ 1 + Remaining(p) <= PacketBuffer
                 /\ EncodedLength(Remaining(p)) \in 1..4
                 /\ packet'.written =
                      1 + EncodedLength(Remaining(p)) + Remaining(p)
                 /\ packet'.size = PacketBuffer
        <4>1. Short(Remaining(p), EncodedLength(Remaining(p)))
          BY <3>3, LengthOfEncoded
        <4>2. Weight[3] \in Nat
          BY Weights
        <4>3. Remaining(p) < Weight[3]
          BY <3>3, <4>2, BufferSizes
        <4>4. EncodedLength(Remaining(p)) <= 2
          BY <3>3, <4>1, <4>2, <4>3 DEF Short
        <4> QED BY <3>3, <4>4, BufferSizes
      <3> QED BY <2>1, <3>1, <3>2, <3>3, PublishCases, BufferSizes
    <2>2. ASSUME NEW n \in NameLens,
                 \/ packet' = Connect(n, ConnectBuffer)
                 \/ packet' = Subscribe(n, PacketBuffer)
                 \/ packet' = Unsubscribe(n, 2 + 2 + (2 + n))
          PROVE  packet'.written <= packet'.size + 2
      BY <2>2, BufferSizes DEF Connect, Subscribe, Unsubscribe, Written, Refused
    <2>3. ASSUME NEW kind, packet' = HeaderOnly(kind, 2)
          PROVE  packet'.written <= packet'.size + 2
      BY <2>3 DEF HeaderOnly, Written
    <2> QED BY <2>1, <2>2, <2>3, Calls
  <1> QED BY <1>1, <1>2, PTL DEF Spec

===============================================================================
