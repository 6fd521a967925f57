---------------------------- MODULE TransportProofs ----------------------------
(* Theorems about Transport for a block, a window, buffers and a chunk of any *)
(* size and any set of failures.                                              *)
EXTENDS Transport, SequenceTheorems, TLAPS

-------------------------------------------------------------------------------
(* The operators.                                                            *)

LEMMA DataType == Data \in Seq(Byte) /\ Len(Data) = DataLen
  BY TransportAssumption DEF Data, Byte

\* The k bytes that one send may take over are the next ones of the block.
LEMMA NextBytesProperties ==
  ASSUME TransportTypeOK, NEW k \in 1 .. DataLen - total_bytes_sent
  PROVE  /\ NextBytes(k) \in Seq(Byte)
         /\ Len(NextBytes(k)) = k
         /\ \A i \in 1..k : NextBytes(k)[i] = total_bytes_sent + i
  <1>1. total_bytes_sent \in Nat /\ DataLen \in Nat
    BY TransportAssumption DEF TransportTypeOK
  <1>2. \A i \in total_bytes_sent + 1 .. total_bytes_sent + k : Data[i] \in Byte
    BY <1>1 DEF Data, Byte
  <1>3. /\ NextBytes(k) \in Seq(Byte)
        /\ Len(NextBytes(k)) = k
        /\ \A i \in 1..k : NextBytes(k)[i] = Data[total_bytes_sent + i]
    BY <1>1, <1>2, SubSeqProperties DEF NextBytes
  <1>4. \A i \in 1..k : total_bytes_sent + i \in Byte
    BY <1>1 DEF Byte
  <1> QED BY <1>3, <1>4 DEF Data

\* What recv stores changes neither the length of the buffer nor the bytes
\* outside the place for it.
LEMMA StoredProperties ==
  ASSUME TransportTypeOK, NEW bytes \in Seq(Byte)
  PROVE  /\ Stored(bytes) \in Seq(Byte \cup {Junk})
         /\ Len(Stored(bytes)) = Len(buffer)
         /\ \A i \in 1..Len(buffer) :
              Stored(bytes)[i] = IF i - total_bytes_received \in 1..Len(bytes)
                                 THEN bytes[i - total_bytes_received]
                                 ELSE buffer[i]
  <1>1. buffer \in Seq(Byte \cup {Junk}) /\ total_bytes_received \in Nat
    BY DEF TransportTypeOK
  <1>2. DOMAIN buffer = 1..Len(buffer) /\ Len(buffer) \in Nat
    BY <1>1
  <1>3. \A i \in 1..Len(bytes) : bytes[i] \in Byte
    OBVIOUS
  <1>4. Stored(bytes) \in [1..Len(buffer) -> Byte \cup {Junk}]
    BY <1>1, <1>2, <1>3 DEF Stored
  <1> QED BY <1>1, <1>2, <1>4 DEF Stored

-------------------------------------------------------------------------------
(* Type correctness.                                                         *)

LEMMA TypeStep == TransportTypeOK /\ [Next]_vars => TransportTypeOK'
  <1> SUFFICES ASSUME TransportTypeOK, [Next]_vars PROVE TransportTypeOK'
    OBVIOUS
  <1> USE TransportAssumption DEF TransportTypeOK, SenderAt, ReceiverAt, Links
  <1>0. CASE UNCHANGED vars
    BY <1>0 DEF vars, senderVars, receiverVars
  <1>1. CASE Connect \/ ConnectRefused
    BY <1>1 DEF Connect, ConnectRefused, receiverVars
  <1>2. CASE Send
    <2>1. PICK k \in 1 .. Lesser(DataLen - total_bytes_sent, Window - Len(channel)) :
            /\ channel' = channel \o NextBytes(k)
            /\ total_bytes_sent' = total_bytes_sent + k
      BY <1>2 DEF Send
    <2>2. k \in 1 .. DataLen - total_bytes_sent
      BY <2>1 DEF Lesser
    <2>3. channel' \in Seq(Byte)
      BY <2>1, <2>2, NextBytesProperties
    <2> QED BY <1>2, <2>1, <2>2, <2>3 DEF Send, receiverVars
  <1>3. CASE SendIntoVoid
    <2>1. PICK k \in 1 .. Lesser(DataLen - total_bytes_sent, Window) :
            total_bytes_sent' = total_bytes_sent + k
      BY <1>3 DEF SendIntoVoid
    <2>2. k \in 1 .. DataLen - total_bytes_sent
      BY <2>1 DEF Lesser
    <2> QED BY <1>3, <2>1, <2>2 DEF SendIntoVoid, receiverVars
  <1>4. CASE SendFails \/ SendInterrupted \/ SendReturns
    BY <1>4 DEF SendFails, SendInterrupted, SendReturns, Return, receiverVars
  <1>5. CASE CloseConnectionClient
    BY <1>5 DEF CloseConnectionClient, receiverVars
  <1>6. CASE CreateAndListenServer \/ AcceptClient
    BY <1>6 DEF CreateAndListenServer, AcceptClient, senderVars
  <1>14. ASSUME RecvNothing PROVE reported' \in BOOLEAN /\ channel' \in Seq(Byte)
    BY <1>14 DEF RecvNothing
  <1>7. CASE ReceiveStatic
    <2>1. ASSUME NEW k \in 1 .. Lesser(StaticSize, Len(channel))
          PROVE  /\ SubSeq(channel, 1, k) \in Seq(Byte)
                 /\ SubSeq(channel, k + 1, Len(channel)) \in Seq(Byte)
      BY DEF Lesser
    <2>2. static' \in Seq(Byte) /\ channel' \in Seq(Byte)
      BY <1>7, <1>14, <2>1 DEF ReceiveStatic
    <2> QED BY <1>7, <1>14, <2>2 DEF ReceiveStatic, senderVars
  <1>8. CASE ManageBuffer
    <2>1. ASSUME Required > buffer_size
          PROVE  [i \in 1..Required |-> IF i <= Len(buffer) THEN buffer[i] ELSE Junk]
                    \in Seq(Byte \cup {Junk})
      BY DEF Required
    <2>2. Required \in Nat
      BY DEF Required
    <2>3. buffer' \in Seq(Byte \cup {Junk}) /\ buffer_size' \in Nat
      BY <1>8, <2>1, <2>2 DEF ManageBuffer
    <2> QED BY <1>8, <2>3 DEF ManageBuffer, senderVars
  <1>9. ASSUME LinkClosed PROVE channel' \in Seq(Byte) /\ link' \in Links
    BY <1>9 DEF LinkClosed
  <1>10. CASE OutOfMemory \/ CloseServer \/ ReceiveUnaccepted
    BY <1>9, <1>10 DEF OutOfMemory, CloseServer, ReceiveUnaccepted, senderVars
  <1>15. CASE Allocate
    <2>1. [i \in 1..InitialSize |-> Junk] \in Seq(Byte \cup {Junk})
      OBVIOUS
    <2> QED BY <1>15, <2>1 DEF Allocate, senderVars
  <1>11. CASE Receive
    <2>1. PICK k \in 1 .. Lesser(Chunk, Len(channel)) :
            /\ buffer' = Stored(SubSeq(channel, 1, k))
            /\ total_bytes_received' = total_bytes_received + k
            /\ channel' = SubSeq(channel, k + 1, Len(channel))
      BY <1>11 DEF Receive
    <2>2. k \in 1..Len(channel)
      BY <2>1 DEF Lesser
    <2>3. SubSeq(channel, 1, k) \in Seq(Byte) /\ channel' \in Seq(Byte)
      BY <2>1, <2>2
    <2>4. buffer' \in Seq(Byte \cup {Junk})
      BY <2>1, <2>3, StoredProperties
    <2> QED BY <1>11, <2>1, <2>2, <2>3, <2>4 DEF Receive, senderVars
  <1>12. CASE ReceiveEnds
    BY <1>12, <1>14 DEF ReceiveEnds, LoopEnds, senderVars
  <1>13. CASE Reset \/ Silence
    <2>1. PICK n \in 0..Len(channel) : channel' = SubSeq(channel, 1, n)
      BY <1>13 DEF Reset, Silence, Breaks
    <2>2. channel' \in Seq(Byte)
      BY <2>1
    <2>3. link' \in {"reset", "silent"} /\ UNCHANGED <<senderVars, receiverVars>>
      BY <1>13 DEF Reset, Silence, Breaks
    <2> QED BY <2>2, <2>3 DEF senderVars, receiverVars
  <1> QED
    BY <1>0, <1>1, <1>2, <1>3, <1>4, <1>5, <1>6, <1>7, <1>8, <1>10, <1>11,
       <1>12, <1>13, <1>15
    DEF Next, Sender, Receiver

LEMMA TypeInit == Init => TransportTypeOK
  <1> SUFFICES ASSUME Init PROVE TransportTypeOK
    OBVIOUS
  <1>1. <<>> \in Seq(Byte) /\ <<>> \in Seq(Byte \cup {Junk})
    OBVIOUS
  <1>2. 0 \in 0..DataLen /\ 0 \in Nat
    BY TransportAssumption
  <1>3. channel \in Seq(Byte) /\ static \in Seq(Byte)
        /\ buffer \in Seq(Byte \cup {Junk})
    BY <1>1 DEF Init
  <1> QED BY <1>2, <1>3 DEF Init, TransportTypeOK, SenderAt, ReceiverAt, Links

\* The state of both processes and of the kernels between them keeps its type:
\* in particular total_bytes_sent never passes data_len, and what is stored
\* with realloc and recv stays a buffer of bytes.
THEOREM TransportTypeCorrect == Spec => []TransportTypeOK
  BY TypeInit, TypeStep, PTL DEF Spec

-------------------------------------------------------------------------------
(* The growing buffer.                                                       *)

\* The growing buffer is allocated before anything is stored in it.
Unallocated ==
    receiver \in {"starting", "listening", "static", "unaccepted", "allocating"}

Unfilled == Unallocated => total_bytes_received = 0

\* The room that manage_buffer has made is there until recv has used it, and
\* recv uses no more than it.
BoundsInv ==
    /\ TransportTypeOK
    /\ InBounds
    /\ total_bytes_received <= buffer_size
    /\ Unfilled

LEMMA BoundsInit == Init => BoundsInv
  BY TypeInit, TransportAssumption DEF Init, BoundsInv, InBounds, Unfilled

LEMMA BoundsStep == BoundsInv /\ [Next]_vars => BoundsInv'
  <1> SUFFICES ASSUME BoundsInv, [Next]_vars 
               PROVE  InBounds' /\ (total_bytes_received <= buffer_size)' /\ Unfilled'
    BY TypeStep DEF BoundsInv
  <1>0. /\ TransportTypeOK
        /\ total_bytes_received \in Nat /\ buffer_size \in Nat
        /\ total_bytes_received <= buffer_size
        /\ buffer_size = Len(buffer)
        /\ receiver = "recv" => total_bytes_received + Chunk <= Len(buffer)
        /\ Unfilled
    BY DEF BoundsInv, InBounds, TransportTypeOK
  \* Most steps leave the buffer alone and do not lead to a recv.
  <1>1. ASSUME UNCHANGED <<buffer, buffer_size, total_bytes_received>>,
               receiver' = "recv" => receiver = "recv",
               Unallocated' => Unallocated
        PROVE  InBounds' /\ (total_bytes_received <= buffer_size)' /\ Unfilled'
    BY <1>0, <1>1 DEF InBounds, Unfilled
  <1>2. CASE UNCHANGED vars
    BY <1>1, <1>2 DEF vars, receiverVars, Unallocated
  <1>3. CASE Sender
    BY <1>1, <1>3
    DEF Sender, Connect, ConnectRefused, Send, SendIntoVoid, SendFails,
        SendInterrupted, SendReturns, CloseConnectionClient, receiverVars,
        Unallocated
  <1>4. CASE \/ CreateAndListenServer \/ AcceptClient \/ ReceiveStatic
             \/ ReceiveUnaccepted \/ OutOfMemory \/ ReceiveEnds \/ CloseServer
    BY <1>1, <1>4
    DEF CreateAndListenServer, AcceptClient, ReceiveStatic, ReceiveUnaccepted,
        OutOfMemory, ReceiveEnds, LoopEnds, CloseServer, Unallocated
  <1>8. CASE Allocate
    <2>1. Len([i \in 1..InitialSize |-> Junk]) = InitialSize
      BY TransportAssumption
    <2>2. InBounds'
      BY <1>8, <2>1 DEF Allocate, InBounds
    <2>3. receiver = "allocating" /\ buffer_size' = InitialSize
          /\ UNCHANGED total_bytes_received
      BY <1>8 DEF Allocate
    <2> QED BY <1>0, <1>8, <2>2, <2>3, TransportAssumption
            DEF Allocate, Unfilled, Unallocated
  <1>5. CASE ManageBuffer
    <2>1. CASE Required > buffer_size
      <3> DEFINE grown == [i \in 1..Required |->
                             IF i <= Len(buffer) THEN buffer[i] ELSE Junk]
      <3>1. Required \in Nat
        BY <1>0, TransportAssumption DEF Required
      <3>2. grown \in [1..Required -> Byte \cup {Junk}]
        BY <1>0, <3>1 DEF TransportTypeOK
      <3>3. Len(grown) = Required
        BY <3>1, <3>2
      <3>4. buffer' = grown /\ buffer_size' = Required
            /\ UNCHANGED total_bytes_received
        BY <1>5, <2>1 DEF ManageBuffer
      <3> HIDE DEF grown
      <3> QED BY <1>0, <1>5, <2>1, <3>1, <3>3, <3>4
              DEF ManageBuffer, InBounds, Required, Unfilled, Unallocated
    <2>2. CASE Required <= buffer_size
      BY <1>0, <1>5, <2>2, TransportAssumption
      DEF ManageBuffer, InBounds, Required, Unfilled, Unallocated
    <2> QED BY <1>0, <2>1, <2>2, TransportAssumption DEF Required
  <1>6. CASE Receive
    <2>1. PICK k \in 1 .. Lesser(Chunk, Len(channel)) :
            /\ buffer' = Stored(SubSeq(channel, 1, k))
            /\ total_bytes_received' = total_bytes_received + k
      BY <1>6 DEF Receive
    <2>2. k \in 1..Len(channel) /\ k <= Chunk /\ channel \in Seq(Byte)
      BY <1>0, <2>1, TransportAssumption DEF Lesser, TransportTypeOK
    <2>3. SubSeq(channel, 1, k) \in Seq(Byte)
      BY <2>2
    <2>4. Len(buffer') = Len(buffer)
      BY <1>0, <2>1, <2>3, StoredProperties
    <2>5. receiver = "recv" /\ receiver' = "grow" /\ UNCHANGED buffer_size
      BY <1>6 DEF Receive
    <2> QED BY <1>0, <2>1, <2>2, <2>4, <2>5, TransportAssumption
            DEF InBounds, Unfilled, Unallocated
  <1>7. CASE Reset \/ Silence
    BY <1>1, <1>7 DEF Reset, Silence, Breaks, receiverVars, Unallocated
  <1> QED BY <1>2, <1>3, <1>4, <1>5, <1>6, <1>7, <1>8 DEF Next, Receiver

\* For every chunk and every initial size recv is offered no more room than
\* the block has, however short the reads before it were.
THEOREM BufferNeverOverrun == Spec => []InBounds
  <1>1. BoundsInv => InBounds
    BY DEF BoundsInv
  <1> QED BY <1>1, BoundsInit, BoundsStep, PTL DEF Spec

-------------------------------------------------------------------------------
(* The bytes on their way.                                                   *)

\* The number of bytes received.
Got == Len(static) + total_bytes_received

\* What was received and what is in the channel are the first bytes of the
\* block, in their order.
InSequence ==
    /\ \A i \in 1..Len(static) : static[i] = i
    /\ \A i \in 1..total_bytes_received : buffer[i] = Len(static) + i
    /\ \A i \in 1..Len(channel) : channel[i] = Got + i

\* Bytes get lost only with the connection.
Accounted ==
    /\ Got + Len(channel) <= total_bytes_sent
    /\ link \in {"none", "up", "eof"} => Got + Len(channel) = total_bytes_sent

\* Where the processes are tells what has become of the connection.
InStep ==
    /\ sender = "connecting" => link = "none"
    /\ link = "eof" => sender = "closed"
    /\ sender \in {"connecting", "sending"} => result = "none"
    /\ result = "ok" => total_bytes_sent = DataLen
    /\ receiver \notin {"starting", "listening", "exited"} => link # "none"
    /\ receiver \in {"starting", "listening", "static", "unaccepted"} => static = <<>>
    /\ receiver = "eof" /\ ~reported =>
         sender = "closed" /\ channel = <<>> /\ Got = total_bytes_sent

StreamInv == BoundsInv /\ InSequence /\ Accounted /\ InStep

\* A sequence cut in two.
LEMMA SplitAt ==
  ASSUME NEW S, NEW q \in Seq(S), NEW k \in 0..Len(q)
  PROVE  /\ Len(SubSeq(q, 1, k)) = k
         /\ Len(SubSeq(q, k + 1, Len(q))) = Len(q) - k
         /\ \A i \in 1..k : SubSeq(q, 1, k)[i] = q[i]
         /\ \A i \in 1..Len(q) - k : SubSeq(q, k + 1, Len(q))[i] = q[k + i]
  OBVIOUS

LEMMA StreamInit == Init => StreamInv
  BY BoundsInit, TransportAssumption
  DEF Init, StreamInv, InSequence, Accounted, InStep, Got

LEMMA StreamStep == StreamInv /\ [Next]_vars => StreamInv'
  <1> SUFFICES ASSUME StreamInv, [Next]_vars
               PROVE  InSequence' /\ Accounted' /\ InStep'
    BY BoundsStep DEF StreamInv
  <1>0. TransportTypeOK /\ InSequence /\ Accounted /\ InStep /\ InBounds
        /\ total_bytes_received <= buffer_size
    BY DEF StreamInv, BoundsInv
  <1>15. Unfilled
    BY DEF StreamInv, BoundsInv
  <1>1. /\ total_bytes_sent \in 0..DataLen /\ total_bytes_received \in Nat
        /\ channel \in Seq(Byte) /\ static \in Seq(Byte)
        /\ buffer \in Seq(Byte \cup {Junk}) /\ buffer_size \in Nat
        /\ Len(channel) \in Nat /\ Len(static) \in Nat /\ Len(buffer) \in Nat
        /\ DataLen \in Nat /\ Chunk \in Nat \ {0} /\ StaticSize \in Nat
        /\ Got = Len(static) + total_bytes_received
    BY <1>0, TransportAssumption DEF TransportTypeOK, Got
  \* Some steps move no byte.
  <1>2. ASSUME UNCHANGED <<channel, static, buffer, total_bytes_received>>
        PROVE  InSequence' /\ Got' = Got
    BY <1>0, <1>2 DEF InSequence, Got
  <1>3. CASE UNCHANGED vars
    BY <1>0, <1>2, <1>3 DEF vars, senderVars, receiverVars, Accounted, InStep
  <1>4. CASE Connect \/ ConnectRefused \/ CloseConnectionClient
    BY <1>0, <1>2, <1>4
    DEF Connect, ConnectRefused, CloseConnectionClient, receiverVars, Accounted, InStep
  <1>5. CASE Send
    <2>1. PICK k \in 1 .. Lesser(DataLen - total_bytes_sent, Window - Len(channel)) :
            /\ channel' = channel \o NextBytes(k)
            /\ total_bytes_sent' = total_bytes_sent + k
      BY <1>5 DEF Send
    <2>2. k \in 1 .. DataLen - total_bytes_sent
      BY <1>1, <2>1, TransportAssumption DEF Lesser
    <2>3. /\ NextBytes(k) \in Seq(Byte) /\ Len(NextBytes(k)) = k
          /\ \A i \in 1..k : NextBytes(k)[i] = total_bytes_sent + i
      BY <1>0, <2>2, NextBytesProperties
    <2>4. /\ Len(channel') = Len(channel) + k
          /\ \A i \in 1..Len(channel) + k :
               channel'[i] = IF i <= Len(channel) THEN channel[i]
                             ELSE NextBytes(k)[i - Len(channel)]
      <3> DEFINE next == NextBytes(k)
      <3>1. next \in Seq(Byte) /\ Len(next) = k /\ channel' = channel \o next
        BY <2>1, <2>3
      <3> HIDE DEF next
      <3>2. /\ Len(channel') = Len(channel) + k
            /\ \A i \in 1..Len(channel) + k :
                 channel'[i] = IF i <= Len(channel) THEN channel[i]
                               ELSE next[i - Len(channel)]
        BY <1>1, <3>1, ConcatProperties
      <3> QED BY <3>2 DEF next
    <2>5. sender = "sending" /\ link = "up"
          /\ UNCHANGED <<sender, result, link, receiver, static, buffer,
                         total_bytes_received, reported>>
      BY <1>5 DEF Send, receiverVars
    <2>6. Got' = Got /\ Got + Len(channel) = total_bytes_sent
      BY <1>0, <2>5 DEF Got, Accounted
    <2>7. InSequence'
      <3>1. ASSUME NEW i \in 1..Len(channel') PROVE channel'[i] = Got + i
        <4>1. CASE i <= Len(channel)
          BY <1>0, <1>1, <2>2, <2>4, <4>1 DEF InSequence
        <4>2. CASE i > Len(channel)
          <5>1. i - Len(channel) \in 1..k
            BY <1>1, <2>2, <2>4, <4>2
          <5>2. NextBytes(k)[i - Len(channel)]
                  = total_bytes_sent + (i - Len(channel))
            BY <2>3, <5>1
          <5>3. channel'[i] = NextBytes(k)[i - Len(channel)]
            BY <1>1, <2>4, <4>2
          <5>4. i \in Int
            BY <1>1, <2>2, <2>4
          <5>5. /\ Got \in Int /\ Len(channel) \in Int
                /\ total_bytes_sent = Got + Len(channel)
            BY <1>1, <2>6
          <5>6. total_bytes_sent + (i - Len(channel)) = Got + i
            BY <5>4, <5>5
          <5> QED BY <5>2, <5>3, <5>6
        <4> QED BY <1>1, <2>2, <2>4, <4>1, <4>2
      <3> QED BY <1>0, <2>5, <2>6, <3>1 DEF InSequence
    <2>8. Accounted'
      <3>1. /\ Len(channel) \in Int /\ Got \in Int /\ k \in Int
            /\ total_bytes_sent = Got + Len(channel)
        BY <1>1, <2>2, <2>6
      <3>2. Got + (Len(channel) + k) = total_bytes_sent + k
        BY <3>1
      <3>3. Got' + Len(channel') = total_bytes_sent'
        BY <2>1, <2>4, <2>6, <3>2
      <3>4. total_bytes_sent' \in Int
        BY <2>1, <3>1
      <3> QED BY <3>3, <3>4 DEF Accounted
    <2>9. InStep'
      BY <1>0, <2>5 DEF InStep
    <2> QED BY <2>7, <2>8, <2>9
  <1>6. CASE SendIntoVoid
    <2>1. PICK k \in 1 .. Lesser(DataLen - total_bytes_sent, Window) :
            total_bytes_sent' = total_bytes_sent + k
      BY <1>6 DEF SendIntoVoid
    <2>2. k \in 1 .. DataLen - total_bytes_sent
      BY <1>1, <2>1, TransportAssumption DEF Lesser
    <2> QED
      BY <1>0, <1>1, <1>2, <1>6, <2>1, <2>2
      DEF SendIntoVoid, receiverVars, Accounted, InStep
  <1>7. CASE SendFails \/ SendInterrupted \/ SendReturns
    BY <1>0, <1>1, <1>2, <1>7
    DEF SendFails, SendInterrupted, SendReturns, AllSent, Return, receiverVars,
        Accounted, InStep
  <1>8. CASE CreateAndListenServer \/ AcceptClient
    BY <1>0, <1>2, <1>8
    DEF CreateAndListenServer, AcceptClient, senderVars, Accounted, InStep
  <1>16. CASE Allocate
    <2>1. receiver = "allocating" /\ receiver' = "grow" /\ total_bytes_received = 0
          /\ UNCHANGED <<senderVars, channel, link, static, total_bytes_received, reported>>
      BY <1>15, <1>16 DEF Allocate, Unfilled, Unallocated
    <2> QED BY <1>0, <1>1, <2>1 DEF senderVars, InSequence, Accounted, InStep, Got
  <1>9. CASE ReceiveStatic
    <2>1. receiver = "static" /\ receiver' = "allocating" /\ Got = 0
          /\ static = <<>> /\ total_bytes_received = 0
          /\ UNCHANGED <<sender, total_bytes_sent, result, link, buffer,
                         total_bytes_received>>
      BY <1>0, <1>9, <1>15
      DEF ReceiveStatic, senderVars, InStep, Got, Unfilled, Unallocated
    <2>2. ASSUME UNCHANGED <<static, channel>>
          PROVE  InSequence' /\ Accounted' /\ InStep'
      BY <1>0, <1>2, <2>1, <2>2 DEF Accounted, InStep
    <2>3. ASSUME NEW k \in 1 .. Lesser(StaticSize, Len(channel)),
                 static' = SubSeq(channel, 1, k),
                 channel' = SubSeq(channel, k + 1, Len(channel))
          PROVE  InSequence' /\ Accounted' /\ InStep'
      <3>1. k \in 1..Len(channel)
        BY <1>1 DEF Lesser
      <3>2. /\ Len(static') = k /\ Len(channel') = Len(channel) - k
            /\ \A i \in 1..k : static'[i] = channel[i]
            /\ \A i \in 1..Len(channel) - k : channel'[i] = channel[k + i]
        <4>1. k \in 0..Len(channel)
          BY <1>1, <3>1
        <4> QED BY <1>1, <2>3, <4>1, SplitAt
      <3>3. Got' = k
        BY <2>1, <3>1, <3>2 DEF Got
      <3>4. InSequence'
        <4>1. \A i \in 1..Len(channel) : channel[i] = i
          BY <1>0, <2>1 DEF InSequence
        <4>2. \A i \in 1..Len(static') : static'[i] = i
          BY <1>1, <3>1, <3>2, <4>1
        <4>3. \A i \in 1..Len(channel') : channel'[i] = Got' + i
          BY <1>1, <3>1, <3>2, <3>3, <4>1
        <4> QED BY <2>1, <4>2, <4>3 DEF InSequence
      <3>5. Accounted' /\ InStep'
        BY <1>0, <1>1, <2>1, <3>1, <3>2, <3>3 DEF Accounted, InStep
      <3> QED BY <3>4, <3>5
    <2> QED BY <1>9, <2>2, <2>3 DEF ReceiveStatic, RecvNothing
  <1>10. CASE ManageBuffer
    <2>1. \A i \in 1..total_bytes_received : buffer'[i] = buffer[i]
      BY <1>0, <1>1, <1>10 DEF ManageBuffer, Required, InBounds
    <2>2. receiver = "grow" /\ receiver' = "recv"
          /\ UNCHANGED <<sender, total_bytes_sent, result, channel, link,
                         static, total_bytes_received, reported>>
      BY <1>10 DEF ManageBuffer, senderVars
    <2> QED BY <1>0, <1>1, <2>1, <2>2 DEF InSequence, Accounted, InStep, Got
  <1>11. ASSUME LinkClosed, receiver' = "exited", link # "none",
                UNCHANGED <<sender, total_bytes_sent, result, static, buffer,
                            total_bytes_received>>
         PROVE  InSequence' /\ Accounted' /\ InStep'
    <2>1. channel' = <<>> /\ link' \in {"half", "reset", "silent"}
      BY <1>11 DEF LinkClosed
    <2> QED BY <1>0, <1>1, <1>11, <2>1 DEF InSequence, Accounted, InStep, Got
  <1>17. CASE OutOfMemory \/ CloseServer
    <2>1. /\ receiver \in {"allocating", "grow", "eof", "broken"}
          /\ LinkClosed /\ receiver' = "exited"
          /\ UNCHANGED <<sender, total_bytes_sent, result, static, buffer,
                         total_bytes_received>>
      BY <1>17 DEF OutOfMemory, CloseServer, senderVars
    <2>2. link # "none"
      BY <1>0, <2>1 DEF InStep
    <2> QED BY <1>11, <2>1, <2>2
  <1>18. CASE ReceiveUnaccepted
    <2>1. /\ receiver = "unaccepted" /\ link # "none"
          /\ UNCHANGED <<sender, total_bytes_sent, result, static, buffer,
                         total_bytes_received, reported>>
      BY <1>0, <1>18 DEF ReceiveUnaccepted, senderVars, InStep
    <2>2. CASE receiver' = "broken" /\ UNCHANGED <<channel, link>>
      BY <1>0, <1>2, <2>1, <2>2 DEF Accounted, InStep
    <2> QED BY <1>11, <1>18, <2>1, <2>2 DEF ReceiveUnaccepted
  <1>12. CASE Receive
    <2>1. PICK k \in 1 .. Lesser(Chunk, Len(channel)) :
            /\ buffer' = Stored(SubSeq(channel, 1, k))
            /\ total_bytes_received' = total_bytes_received + k
            /\ channel' = SubSeq(channel, k + 1, Len(channel))
      BY <1>12 DEF Receive
    <2>2. k \in 1..Len(channel) /\ k <= Chunk
      BY <1>1, <2>1 DEF Lesser
    <2> DEFINE bytes == SubSeq(channel, 1, k)
    <2>3. /\ bytes \in Seq(Byte) /\ Len(bytes) = k
          /\ \A i \in 1..k : bytes[i] = channel[i]
          /\ Len(channel') = Len(channel) - k
          /\ \A i \in 1..Len(channel) - k : channel'[i] = channel[k + i]
      <3>1. k \in 0..Len(channel)
        BY <1>1, <2>2
      <3>2. bytes \in Seq(Byte)
        BY <1>1, <3>1
      <3> QED BY <1>1, <2>1, <3>1, <3>2, SplitAt
    <2>4. receiver = "recv" /\ receiver' = "grow"
          /\ UNCHANGED <<sender, total_bytes_sent, result, link, static>>
      BY <1>12 DEF Receive, senderVars
    <2>5. total_bytes_received + k <= Len(buffer)
      BY <1>0, <1>1, <2>2, <2>4 DEF InBounds
    <2>6. \A i \in 1..total_bytes_received + k :
            buffer'[i] = IF i <= total_bytes_received THEN buffer[i]
                         ELSE channel[i - total_bytes_received]
      <3> HIDE DEF bytes
      <3>1. \A i \in 1..Len(buffer) :
              buffer'[i] = IF i - total_bytes_received \in 1..k
                           THEN bytes[i - total_bytes_received] ELSE buffer[i]
        BY <1>0, <2>1, <2>3, StoredProperties DEF bytes
      <3>2. ASSUME NEW i \in 1..total_bytes_received + k, i <= total_bytes_received
            PROVE  buffer'[i] = buffer[i]
        BY <1>1, <2>2, <2>5, <3>1, <3>2
      <3>3. ASSUME NEW i \in 1..total_bytes_received + k, ~(i <= total_bytes_received)
            PROVE  buffer'[i] = channel[i - total_bytes_received]
        <4>1. i - total_bytes_received \in 1..k /\ i \in 1..Len(buffer)
          BY <1>1, <2>2, <2>5, <3>3
        <4>2. buffer'[i] = bytes[i - total_bytes_received]
          BY <3>1, <4>1
        <4> QED BY <2>3, <4>1, <4>2
      <3> QED BY <3>2, <3>3
    <2> HIDE DEF bytes
    <2>7. Got' = Got + k
      BY <1>1, <2>1, <2>2, <2>4 DEF Got
    <2>8. ASSUME NEW i \in 1..total_bytes_received'
          PROVE  buffer'[i] = Len(static) + i
      <3>1. i \in 1..total_bytes_received + k
        BY <2>1
      <3>2. CASE i <= total_bytes_received
        BY <1>0, <1>1, <2>6, <3>1, <3>2 DEF InSequence
      <3>3. CASE i > total_bytes_received
        <4>1. i - total_bytes_received \in 1..Len(channel)
          BY <1>1, <2>2, <3>1, <3>3
        <4>2. channel[i - total_bytes_received] = Got + (i - total_bytes_received)
          BY <1>0, <4>1 DEF InSequence
        <4> QED BY <1>1, <2>6, <3>1, <3>3, <4>2
      <3> QED BY <1>1, <3>1, <3>2, <3>3
    <2>9. ASSUME NEW i \in 1..Len(channel') PROVE channel'[i] = Got' + i
      <3>1. i \in 1..Len(channel) - k /\ k + i \in 1..Len(channel)
        BY <1>1, <2>2, <2>3
      <3>2. channel[k + i] = Got + (k + i)
        BY <1>0, <3>1 DEF InSequence
      <3> QED BY <1>1, <2>2, <2>3, <2>7, <3>1, <3>2
    <2>10. InSequence'
      BY <1>0, <1>1, <2>4, <2>8, <2>9 DEF InSequence
    <2>11. Accounted'
      <3>1. Got' + Len(channel') = Got + Len(channel)
        BY <1>1, <2>2, <2>3, <2>7
      <3> QED BY <1>0, <2>4, <3>1 DEF Accounted
    <2>12. InStep'
      BY <1>0, <2>4 DEF InStep
    <2> QED BY <2>10, <2>11, <2>12
  <1>13. CASE ReceiveEnds
    <2>1. /\ receiver = "recv" /\ channel = <<>>
          /\ UNCHANGED <<sender, total_bytes_sent, result, channel, link, static,
                         buffer, total_bytes_received>>
      BY <1>13 DEF ReceiveEnds, RecvNothing, RecvZero, RecvError, senderVars
    <2>2. receiver' \in {"eof", "broken"}
      BY <1>13 DEF ReceiveEnds, LoopEnds
    <2>3. receiver' = "eof" /\ ~reported' => link = "eof"
      BY <1>13 DEF ReceiveEnds, RecvNothing, LoopEnds, RecvZero
    <2>4. Len(channel) = 0 /\ Got' = Got
      BY <1>2, <2>1
    <2>5. link = "eof" => sender = "closed" /\ Got = total_bytes_sent
      BY <1>0, <1>1, <2>4 DEF Accounted, InStep
    <2>6. Accounted' /\ InSequence'
      BY <1>0, <1>2, <2>1 DEF Accounted
    <2>7. InStep'
      BY <1>0, <2>1, <2>2, <2>3, <2>4, <2>5 DEF InStep
    <2> QED BY <2>6, <2>7
  <1>14. CASE Reset \/ Silence
    <2>1. PICK n \in 0..Len(channel) : channel' = SubSeq(channel, 1, n)
      BY <1>14 DEF Reset, Silence, Breaks
    <2>2. /\ Len(channel') = n
          /\ \A i \in 1..n : channel'[i] = channel[i]
      BY <1>1, <2>1
    <2>3. link # "none" /\ link' \in {"reset", "silent"}
          /\ UNCHANGED <<sender, total_bytes_sent, result, receiver, static,
                         buffer, total_bytes_received, reported>>
      BY <1>14 DEF Reset, Silence, Breaks, senderVars, receiverVars
    <2>4. Got' = Got
      BY <2>3 DEF Got
    <2>5. channel = <<>> => channel' = <<>>
      BY <1>1, <2>1
    <2>6. InSequence'
      <3>1. \A i \in 1..Len(channel') :
              i \in 1..Len(channel) /\ channel'[i] = channel[i]
        BY <1>1, <2>2
      <3> QED BY <1>0, <2>3, <2>4, <3>1 DEF InSequence
    <2>7. Accounted'
      <3>1. Got \in Nat /\ n <= Len(channel)
        BY <1>1
      <3>2. Got' + Len(channel') <= total_bytes_sent
        BY <1>0, <1>1, <2>2, <2>4, <3>1 DEF Accounted
      <3> QED BY <2>3, <3>2 DEF Accounted
    <2>8. InStep'
      BY <1>0, <2>3, <2>4, <2>5 DEF InStep
    <2> QED BY <2>6, <2>7, <2>8
  <1> QED
    BY <1>3, <1>4, <1>5, <1>6, <1>7, <1>8, <1>9, <1>10, <1>12, <1>13, <1>14,
       <1>16, <1>17, <1>18
    DEF Next, Sender, Receiver

LEMMA StreamInvariant == Spec => []StreamInv
  BY StreamInit, StreamStep, PTL DEF Spec

\* The receiver has a prefix of the block and never more than was accepted.
Prefixed ==
    /\ Received = SubSeq(Data, 1, Got)
    /\ Len(Received) = Got
    /\ Got \in 0..total_bytes_sent
    /\ total_bytes_sent \in 0..DataLen

LEMMA ReceivedIsPrefix == StreamInv => Prefixed
  <1> SUFFICES ASSUME StreamInv PROVE Prefixed
    OBVIOUS
  <1>1. /\ static \in Seq(Byte) /\ buffer \in Seq(Byte \cup {Junk})
        /\ total_bytes_received \in 0..Len(buffer)
        /\ total_bytes_sent \in 0..DataLen /\ DataLen \in Nat
        /\ Len(static) \in Nat /\ Len(channel) \in Nat
    BY TransportAssumption
    DEF StreamInv, BoundsInv, InBounds, TransportTypeOK
  <1>2. Got \in 0..total_bytes_sent /\ Got = Len(static) + total_bytes_received
    BY <1>1 DEF StreamInv, Accounted, Got
  <1> DEFINE tail == SubSeq(buffer, 1, total_bytes_received)
  <1>3. /\ tail \in Seq(Byte \cup {Junk}) /\ Len(tail) = total_bytes_received
        /\ \A i \in 1..total_bytes_received : tail[i] = buffer[i]
    BY <1>1
  <1>4. static \in Seq(Byte \cup {Junk}) /\ Received = static \o tail
    BY <1>1, SeqMonotonic DEF Received
  <1> HIDE DEF tail
  <1>5. /\ Received \in Seq(Byte \cup {Junk})
        /\ Len(Received) = Got
        /\ \A i \in 1..Got : Received[i] = IF i <= Len(static) THEN static[i]
                                           ELSE tail[i - Len(static)]
    <2>1. /\ static \o tail \in Seq(Byte \cup {Junk})
          /\ Len(static \o tail) = Len(static) + Len(tail)
          /\ \A i \in 1 .. Len(static) + Len(tail) :
               (static \o tail)[i] = IF i <= Len(static) THEN static[i]
                                     ELSE tail[i - Len(static)]
      BY <1>3, <1>4, ConcatProperties
    <2>2. Got = Len(static) + Len(tail)
      BY <1>2, <1>3
    <2> QED BY <1>4, <2>1, <2>2
  <1>6. ASSUME NEW i \in 1..Got PROVE Received[i] = i
    <2>1. CASE i <= Len(static)
      BY <1>1, <1>2, <1>5, <2>1 DEF StreamInv, InSequence
    <2>2. CASE i > Len(static)
      <3>1. i - Len(static) \in 1..total_bytes_received
        BY <1>1, <1>2, <2>2
      <3>2. tail[i - Len(static)] = Len(static) + (i - Len(static))
        BY <1>3, <3>1 DEF StreamInv, InSequence
      <3> QED BY <1>1, <1>2, <1>5, <2>2, <3>2
    <2> QED BY <1>1, <1>2, <2>1, <2>2
  <1>7. /\ SubSeq(Data, 1, Got) \in Seq(Byte)
        /\ Len(SubSeq(Data, 1, Got)) = Got
        /\ \A i \in 1..Got : SubSeq(Data, 1, Got)[i] = i
    <2>1. Got \in 0..Len(Data) /\ \A i \in 1..Got : Data[i] = i
      <3>1. Len(Data) = DataLen /\ Got \in 0..DataLen
        BY <1>1, <1>2, DataType
      <3>2. ASSUME NEW i \in 1..Got PROVE Data[i] = i
        <4>1. i \in Byte
          BY <1>1, <1>2, <3>1 DEF Byte
        <4> QED BY <4>1 DEF Data
      <3> QED BY <3>1, <3>2
    <2> QED BY <2>1, DataType
  <1>8. SubSeq(Data, 1, Got) \in Seq(Byte \cup {Junk})
    BY <1>7, SeqMonotonic
  <1>9. Received = SubSeq(Data, 1, Got)
    BY <1>5, <1>6, <1>7, <1>8, SeqEqual
  <1> QED BY <1>1, <1>2, <1>5, <1>9 DEF Prefixed

\* When send_bytes_to_server has returned 0 and the receiver has come to the
\* end of the connection, and no recv before has swallowed the error of a
\* reset, it has the whole block.
THEOREM EverythingArrives == Spec => []AllArrives
  <1>1. StreamInv => AllArrives
    <2> SUFFICES ASSUME StreamInv, result = "ok", receiver = "eof", ~reported
                 PROVE  Received = Data
      BY DEF AllArrives
    <2>1. Got = DataLen
      BY DEF StreamInv, InStep
    <2> QED BY <2>1, ReceivedIsPrefix, DataType DEF Prefixed
  <1> QED BY <1>1, StreamInvariant, PTL

-------------------------------------------------------------------------------
(* Transport implements ByteStream: a step under the invariant is a step of  *)
(* the abstract stream, or leaves all of it unchanged.                       *)

\* What a receive adds is the next bytes of those accepted.
LEMMA ArrivalIsDelivery ==
  ASSUME Prefixed, Prefixed', Got' > Got, UNCHANGED <<total_bytes_sent, result>>
  PROVE  Stream!Deliver
  <1>1. /\ Received' = SubSeq(Data, 1, Got')
        /\ Got' \in 0..total_bytes_sent
        /\ Got \in Nat /\ Len(Received) = Got
    BY TransportAssumption DEF Prefixed
  <1>2. Got' \in Len(Received) + 1 .. total_bytes_sent
    BY <1>1, TransportAssumption DEF Prefixed
  <1> QED BY <1>1, <1>2 DEF Stream!Deliver, Stream!Prefix

LEMMA StepOfStream ==
  ASSUME StreamInv, StreamInv', Next
  PROVE  [Stream!Next]_Stream!vars
  <1>0. Prefixed /\ Prefixed'
    <2>1. Prefixed
      BY ReceivedIsPrefix
    <2>2. Prefixed'
      BY ReceivedIsPrefix, PTL
    <2> QED BY <2>1, <2>2
  <1>1. /\ StreamInv /\ TransportTypeOK /\ InStep
        /\ total_bytes_sent \in 0..DataLen /\ Len(Data) = DataLen
        /\ channel \in Seq(Byte) /\ Len(channel) \in Nat
        /\ DataLen \in Nat /\ Chunk \in Nat \ {0} /\ StaticSize \in Nat \ {0}
        /\ Len(static) \in Nat /\ total_bytes_received \in Nat
        /\ Got = Len(static) + total_bytes_received
    BY TransportAssumption, DataType
    DEF StreamInv, BoundsInv, TransportTypeOK, Got
  \* Most steps concern neither the counters nor the bytes received.
  <1>2. ASSUME UNCHANGED <<total_bytes_sent, result, static, buffer,
                           total_bytes_received>>
        PROVE  UNCHANGED Stream!vars
    BY <1>2 DEF Stream!vars, Received
  <1>3. CASE Connect \/ ConnectRefused \/ CloseConnectionClient
    BY <1>2, <1>3
    DEF Connect, ConnectRefused, CloseConnectionClient, receiverVars
  <1>4. CASE \/ CreateAndListenServer \/ AcceptClient \/ ReceiveUnaccepted
             \/ OutOfMemory \/ ReceiveEnds \/ CloseServer \/ Reset \/ Silence
    BY <1>2, <1>4
    DEF CreateAndListenServer, AcceptClient, ReceiveUnaccepted, OutOfMemory,
        ReceiveEnds, CloseServer, Reset, Silence, Breaks, senderVars, receiverVars
  <1>5. CASE Send \/ SendIntoVoid
    <2>1. \E k \in 1 .. DataLen - total_bytes_sent :
            total_bytes_sent' = total_bytes_sent + k
      <3>1. PICK k \in 1 .. Lesser(DataLen - total_bytes_sent,
                                  Window - Len(channel))
                      \cup 1 .. Lesser(DataLen - total_bytes_sent, Window) :
              total_bytes_sent' = total_bytes_sent + k
        BY <1>5 DEF Send, SendIntoVoid
      <3>2. k \in 1 .. DataLen - total_bytes_sent
        BY <1>1, <3>1, TransportAssumption DEF Lesser
      <3> QED BY <3>1, <3>2
    <2>2. result = "none" /\ UNCHANGED <<result, static, buffer, total_bytes_received>>
      BY <1>1, <1>5 DEF Send, SendIntoVoid, receiverVars, InStep
    <2>3. Received' = Received
      BY <2>2 DEF Received
    <2>4. total_bytes_sent' \in total_bytes_sent + 1 .. Len(Data)
      BY <1>1, <2>1
    <2> QED BY <2>2, <2>3, <2>4 DEF Stream!Next, Stream!Accept
  <1>6. CASE SendFails \/ SendInterrupted \/ SendReturns
    <2>1. result = "none"
          /\ UNCHANGED <<total_bytes_sent, static, buffer, total_bytes_received>>
      BY <1>1, <1>6
      DEF SendFails, SendInterrupted, SendReturns, receiverVars, InStep
    <2>2. \/ result' = "error"
          \/ result' = "ok" /\ total_bytes_sent = DataLen
          \/ UNCHANGED result
      BY <1>1, <1>6 DEF SendFails, SendInterrupted, SendReturns, AllSent, Return
    <2>3. Received' = Received
      BY <2>1 DEF Received
    <2> QED
      BY <1>1, <2>1, <2>2, <2>3 DEF Stream!Next, Stream!Return, Stream!vars
  <1>7. CASE ReceiveStatic
    <2>1. /\ receiver = "static"
          /\ UNCHANGED <<total_bytes_sent, result, buffer, total_bytes_received>>
          /\ Len(static) = 0
      BY <1>1, <1>7 DEF ReceiveStatic, senderVars, InStep
    <2>2. ASSUME UNCHANGED static PROVE UNCHANGED Stream!vars
      BY <1>2, <2>1, <2>2
    <2>3. ASSUME NEW k \in 1 .. Lesser(StaticSize, Len(channel)),
                 static' = SubSeq(channel, 1, k)
          PROVE  Stream!Deliver
      <3>1. k \in 1..Len(channel)
        BY <1>1 DEF Lesser
      <3>2. Len(static') = k
        BY <1>1, <2>3, <3>1
      <3>3. Got' > Got
        BY <1>1, <2>1, <3>1, <3>2 DEF Got
      <3> QED BY <1>0, <2>1, <3>3, ArrivalIsDelivery
    <2> QED BY <1>7, <2>2, <2>3 DEF ReceiveStatic, Stream!Next
  <1>8. CASE ManageBuffer \/ Allocate
    <2>1. UNCHANGED <<total_bytes_sent, result, static, total_bytes_received>>
      BY <1>8 DEF ManageBuffer, Allocate, senderVars
    <2>2. Got' = Got
      BY <2>1 DEF Got
    <2>3. Received' = Received
      BY <1>0, <2>2 DEF Prefixed, Data, Byte
    <2> QED BY <2>1, <2>3 DEF Stream!vars
  <1>9. CASE Receive
    <2>1. PICK k \in 1 .. Lesser(Chunk, Len(channel)) :
            total_bytes_received' = total_bytes_received + k
      BY <1>9 DEF Receive
    <2>2. k \in Nat \ {0}
      BY <1>1 DEF Lesser
    <2>3. UNCHANGED <<total_bytes_sent, result, static>>
      BY <1>9 DEF Receive, senderVars
    <2>4. Got' > Got
      BY <1>1, <2>1, <2>2, <2>3 DEF Got
    <2> QED BY <1>0, <2>3, <2>4, ArrivalIsDelivery DEF Stream!Next
  <1> QED
    BY <1>3, <1>4, <1>5, <1>6, <1>7, <1>8, <1>9 DEF Next, Sender, Receiver

\* The two loops with the moving buffer, and the kernels between them, are a
\* stream: what the receiver has is at any time a prefix of the block, it
\* grows by bytes that were accepted, and "ok" is told only for all of them.
THEOREM TransportImplementsByteStream == Spec => ImplementsByteStream
  <1>1. Init => Stream!Init
    <2> SUFFICES ASSUME Init PROVE Stream!Init
      OBVIOUS
    <2>1. StreamInv /\ Got = 0
      BY StreamInit DEF Init, Got
    <2>2. Received = <<>>
      BY DEF Init, Received
    <2> QED BY <2>2 DEF Init, Stream!Init
  <1>2. StreamInv /\ StreamInv' /\ [Next]_vars => [Stream!Next]_Stream!vars
    <2> SUFFICES ASSUME StreamInv, StreamInv', [Next]_vars
                 PROVE  [Stream!Next]_Stream!vars
      OBVIOUS
    <2>1. CASE UNCHANGED vars
      BY <2>1 DEF vars, senderVars, receiverVars, Stream!vars, Received
    <2> QED BY <2>1, StepOfStream
  <1> QED
    BY <1>1, <1>2, StreamInvariant, PTL DEF Spec, ImplementsByteStream, Stream!Spec

================================================================================
