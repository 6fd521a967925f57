------------------------------- MODULE Transport -------------------------------
(***************************************************************************)
(* One connection of lib/src/transport/tcp: send_bytes_to_server of        *)
(* tcp_client.c in one process, the receiving functions of tcp_server.c in *)
(* the other, the kernels between them.                                    *)
(*                                                                         *)
(* The processes are send_data_to_server_test.c, which connects, sends a   *)
(* block and closes, and recv_data_server_test.c, which listens, accepts,  *)
(* receives once into a static buffer and then into a growing one until    *)
(* the connection ends, and closes.  Unlike in Client and TcpApi a step is *)
(* one system call or one call of manage_buffer.                           *)
(***************************************************************************)
EXTENDS Integers, Sequences

CONSTANTS
    DataLen,      \* data_len: the bytes of one call of send_bytes_to_server
    Window,       \* the bytes the kernels hold for a slow receiver
    StaticSize,   \* the size of the static buffer
    InitialSize,  \* INITIAL_BUFFER_SIZE of tcp_server.h
    Chunk,        \* chunk_size
    Failures      \* what may go wrong, see Troubles

Troubles == {"reset",      \* the connection is reset
             "silence",    \* nothing gets through any more, and nobody is told
             "interrupt",  \* a signal handler of the application interrupts
                           \* send or recv
             "listen",     \* bind or listen fails
             "accept",     \* accept fails
             "malloc",     \* malloc returns NULL
             "realloc"}    \* realloc returns NULL

ASSUME TransportAssumption ==
    /\ DataLen \in Nat
    /\ Window \in Nat \ {0}
    /\ StaticSize \in Nat \ {0}
    /\ InitialSize \in Nat \ {0}
    /\ Chunk \in Nat \ {0}
    /\ Failures \subseteq Troubles

VARIABLES
    sender,    \* where the sending process is
    total_bytes_sent,
    result,    \* what send_bytes_to_server has returned
    channel,   \* bytes accepted from the sender and not yet received
    link,      \* the connection between the kernels
    receiver,  \* where the receiving process is
    static,    \* the bytes in the static buffer
    buffer,    \* the block of the growing buffer, at its true size
    buffer_size,
    total_bytes_received,
    reported   \* a recv has returned the error of the reset

senderVars == <<sender, total_bytes_sent, result>>
receiverVars == <<receiver, static, buffer, buffer_size, total_bytes_received,
                  reported>>
vars == <<senderVars, channel, link, receiverVars>>

Lesser(m, n) == IF m < n THEN m ELSE n

\* A byte is known by its position in the block.
Byte == 1..DataLen
Data == [i \in Byte |-> i]

\* What a byte of a fresh block holds.
Junk == 0

\* killed: by SIGPIPE.
SenderAt == {"connecting", "sending", "returned", "killed", "closed"}

\* unaccepted: accept failed and the test goes on with the descriptor -1;
\* eof, broken: the receiving loop has ended because recv returned 0 or -1.
ReceiverAt == {"starting", "listening", "static", "unaccepted", "allocating",
               "grow", "recv", "eof", "broken", "exited"}

\* eof: the sender has closed; half: the receiver has closed and the sender's
\* kernel does not know; reset: it does, or the network broke the connection;
\* silent: the network carries nothing and neither kernel knows.
Links == {"none", "up", "eof", "half", "reset", "silent"}

Received == static \o SubSeq(buffer, 1, total_bytes_received)

TransportTypeOK ==
    /\ sender \in SenderAt
    /\ total_bytes_sent \in 0..DataLen
    /\ result \in {"none", "ok", "error"}
    /\ channel \in Seq(Byte)
    /\ link \in Links
    /\ receiver \in ReceiverAt
    /\ static \in Seq(Byte)
    /\ buffer \in Seq(Byte \cup {Junk})
    /\ buffer_size \in Nat
    /\ total_bytes_received \in Nat
    /\ reported \in BOOLEAN

Init ==
    /\ sender = "connecting"
    /\ total_bytes_sent = 0
    /\ result = "none"
    /\ channel = <<>>
    /\ link = "none"
    /\ receiver = "starting"
    /\ static = <<>>
    /\ buffer = <<>>
    /\ buffer_size = 0
    /\ total_bytes_received = 0
    /\ reported = FALSE

-------------------------------------------------------------------------------
(* The sender: create_connection_to_server, send_bytes_to_server and         *)
(* close_connection_client.                                                  *)

Connect ==
    /\ sender = "connecting" /\ receiver = "listening"
    /\ sender' = "sending"
    /\ link' = "up"
    /\ UNCHANGED <<total_bytes_sent, result, channel, receiverVars>>

\* Nobody listens yet, or any more: the process exits.
ConnectRefused ==
    /\ sender = "connecting" /\ receiver \in {"starting", "exited"}
    /\ sender' = "closed"
    /\ UNCHANGED <<total_bytes_sent, result, channel, link, receiverVars>>

\* Mutant: every send starts at the beginning of the data.
FirstBytes(k) == SubSeq(Data, 1, k)

\* The next k bytes at data_ptr + total_bytes_sent.
NextBytes(k) == SubSeq(Data, total_bytes_sent + 1, total_bytes_sent + k)

\* Mutant: one byte too few is taken for all of them.
AlmostSent == total_bytes_sent + 1 >= DataLen

AllSent == total_bytes_sent >= DataLen

\* send takes over as many bytes as there is room for, at least one; without
\* room it blocks.
Send ==
    /\ sender = "sending" /\ ~AllSent /\ link = "up"
    /\ \E k \in 1 .. Lesser(DataLen - total_bytes_sent, Window - Len(channel)) :
        /\ channel' = channel \o NextBytes(k)
        /\ total_bytes_sent' = total_bytes_sent + k
    /\ UNCHANGED <<sender, result, link, receiverVars>>

\* The receiver has closed: the kernel takes the bytes, and the answer is RST.
\* Where nothing gets through it takes bytes too, as long as it has room (how
\* much is not counted).
SendIntoVoid ==
    /\ sender = "sending" /\ ~AllSent /\ link \in {"half", "silent"}
    /\ \E k \in 1 .. Lesser(DataLen - total_bytes_sent, Window) :
           total_bytes_sent' = total_bytes_sent + k
    /\ link' = IF link = "half" THEN "reset" ELSE link
    /\ UNCHANGED <<sender, result, channel, receiverVars>>

\* Mutant: the number of bytes is returned.
ReturnsCount(value) ==
    /\ sender' = "returned"
    /\ result' = "count"

Return(value) ==
    /\ sender' = "returned"
    /\ result' = value

\* ECONNRESET, or EPIPE with the signal that ends the process; ETIMEDOUT when
\* the kernel has repeated itself long enough.
SendFails ==
    /\ sender = "sending" /\ ~AllSent /\ link \in {"reset", "silent"}
    /\ \/ Return("error")
       \/ link = "reset" /\ sender' = "killed" /\ UNCHANGED result
    /\ UNCHANGED <<total_bytes_sent, channel, link, receiverVars>>

\* EINTR, before this send has taken a byte.
SendInterrupted ==
    /\ "interrupt" \in Failures
    /\ sender = "sending" /\ ~AllSent /\ link \in {"up", "half", "silent"}
    /\ Return("error")
    /\ UNCHANGED <<total_bytes_sent, channel, link, receiverVars>>

SendReturns ==
    /\ sender = "sending" /\ AllSent
    /\ Return("ok")
    /\ UNCHANGED <<total_bytes_sent, channel, link, receiverVars>>

CloseConnectionClient ==
    /\ sender = "returned"
    /\ sender' = "closed"
    /\ link' = IF link = "up" THEN "eof" ELSE link
    /\ UNCHANGED <<total_bytes_sent, result, channel, receiverVars>>

-------------------------------------------------------------------------------
(* The receiver.                                                             *)

CreateAndListenServer ==
    /\ receiver = "starting"
    /\ \/ receiver' = "listening"
       \/ "listen" \in Failures /\ receiver' = "exited"
    /\ UNCHANGED <<senderVars, channel, link, static, buffer, buffer_size,
                   total_bytes_received, reported>>

AcceptClient ==
    /\ receiver = "listening" /\ link # "none"
    /\ \/ receiver' = "static"
       \/ "accept" \in Failures /\ receiver' = "unaccepted"
    /\ UNCHANGED <<senderVars, channel, link, static, buffer, buffer_size,
                   total_bytes_received, reported>>

\* recv returns 0 at the end of the connection.  The kernel reports a reset
\* once, and after that a recv returns 0 as well.
RecvZero ==
    /\ channel = <<>>
    /\ \/ link = "eof"
       \/ link = "reset" /\ reported

\* ECONNRESET, or EINTR while recv waits.  It waits without a timeout.
RecvError ==
    /\ channel = <<>>
    /\ \/ link = "reset" /\ ~reported
       \/ "interrupt" \in Failures /\ link \in {"up", "silent"}

RecvNothing ==
    /\ RecvZero \/ RecvError
    /\ reported' = (reported \/ link = "reset")
    /\ UNCHANGED channel

\* receive_bytes_from_client_static_buff: one recv.  With nothing received it
\* returns no value, and the test does not look at it.
ReceiveStatic ==
    /\ receiver = "static"
    /\ receiver' = "allocating"
    /\ \/ /\ \E k \in 1 .. Lesser(StaticSize, Len(channel)) :
              /\ static' = SubSeq(channel, 1, k)
              /\ channel' = SubSeq(channel, k + 1, Len(channel))
          /\ UNCHANGED reported
       \/ RecvNothing /\ UNCHANGED static
    /\ UNCHANGED <<senderVars, link, buffer, buffer_size, total_bytes_received>>

\* The kernel's part when the receiving process closes the connection: bytes
\* not received are discarded with RST.
LinkClosed ==
    /\ channel' = <<>>
    /\ link' = CASE link = "up" /\ channel = <<>>         -> "half"
                 [] link \in {"half", "reset", "silent"}  -> link
                 [] OTHER                                 -> "reset"

\* With the descriptor -1 both calls fail at their first recv, if malloc does
\* not fail before.
ReceiveUnaccepted ==
    /\ receiver = "unaccepted"
    /\ \/ receiver' = "broken" /\ UNCHANGED <<channel, link>>
       \/ "malloc" \in Failures /\ receiver' = "exited" /\ LinkClosed
    /\ UNCHANGED <<senderVars, static, buffer, buffer_size,
                   total_bytes_received, reported>>

\* The beginning of receive_bytes_with_dynamic_buffer.
Allocate ==
    /\ receiver = "allocating"
    /\ receiver' = "grow"
    /\ buffer' = [i \in 1..InitialSize |-> Junk]
    /\ buffer_size' = InitialSize
    /\ UNCHANGED <<senderVars, channel, link, static, total_bytes_received, reported>>

\* Mutant: the buffer grows only when the next byte does not fit.
ReservesOne == total_bytes_received + 1

\* required_size
Required == total_bytes_received + Chunk

\* manage_buffer: realloc keeps the bytes and their order.
ManageBuffer ==
    /\ receiver = "grow"
    /\ receiver' = "recv"
    /\ IF Required > buffer_size
       THEN /\ buffer' = [i \in 1..Required |->
                            IF i <= Len(buffer) THEN buffer[i] ELSE Junk]
            /\ buffer_size' = Required
       ELSE UNCHANGED <<buffer, buffer_size>>
    /\ UNCHANGED <<senderVars, channel, link, static, total_bytes_received, reported>>

\* Without memory the process exits and the kernel closes its descriptors.
OutOfMemory ==
    /\ \/ "malloc" \in Failures /\ receiver = "allocating"
       \/ "realloc" \in Failures /\ receiver = "grow" /\ Required > buffer_size
    /\ receiver' = "exited"
    /\ LinkClosed
    /\ UNCHANGED <<senderVars, static, buffer, buffer_size,
                   total_bytes_received, reported>>

\* recv stores at buffer + total_bytes_received; what does not fit would be
\* written past the block.
Stored(bytes) ==
    [i \in DOMAIN buffer |->
        IF i - total_bytes_received \in 1..Len(bytes)
        THEN bytes[i - total_bytes_received] ELSE buffer[i]]

Receive ==
    /\ receiver = "recv"
    /\ \E k \in 1 .. Lesser(Chunk, Len(channel)) :
        /\ buffer' = Stored(SubSeq(channel, 1, k))
        /\ total_bytes_received' = total_bytes_received + k
        /\ channel' = SubSeq(channel, k + 1, Len(channel))
    /\ receiver' = "grow"
    /\ UNCHANGED <<senderVars, link, static, buffer_size, reported>>

\* Mutant: 0 is not the end of the loop.
LoopGoesOn == receiver' = IF RecvError THEN "broken" ELSE "grow"

LoopEnds == receiver' = IF RecvZero THEN "eof" ELSE "broken"

\* recv returns 0 or an error; the loop ends and the buffer is freed.
ReceiveEnds ==
    /\ receiver = "recv"
    /\ RecvNothing
    /\ LoopEnds
    /\ UNCHANGED <<senderVars, link, static, buffer, buffer_size,
                   total_bytes_received>>

\* close_connection_server and close_socket_server.
CloseServer ==
    /\ receiver \in {"eof", "broken"}
    /\ receiver' = "exited"
    /\ LinkClosed
    /\ UNCHANGED <<senderVars, static, buffer, buffer_size,
                   total_bytes_received, reported>>

-------------------------------------------------------------------------------
\* The connection ends on its way, with RST for both or unnoticed: any of the
\* bytes may be lost, from the last one back.
Breaks(how) ==
    /\ link' = how
    /\ \E n \in 0..Len(channel) : channel' = SubSeq(channel, 1, n)
    /\ UNCHANGED <<senderVars, receiverVars>>

Reset == "reset" \in Failures /\ link \in {"up", "eof"} /\ Breaks("reset")

Silence ==
    "silence" \in Failures /\ link \in {"up", "eof", "half"} /\ Breaks("silent")

Sender ==
    \/ Connect \/ ConnectRefused \/ Send \/ SendIntoVoid \/ SendFails
    \/ SendInterrupted \/ SendReturns \/ CloseConnectionClient

Receiver ==
    \/ CreateAndListenServer \/ AcceptClient \/ ReceiveStatic
    \/ ReceiveUnaccepted \/ Allocate \/ ManageBuffer \/ OutOfMemory
    \/ Receive \/ ReceiveEnds \/ CloseServer

Next == Sender \/ Receiver \/ Reset \/ Silence

\* Two processes that the system runs; nothing obliges the network to fail.
Fairness == WF_vars(Sender) /\ WF_vars(Receiver)

Spec == Init /\ [][Next]_vars /\ Fairness

-------------------------------------------------------------------------------
(* Properties.                                                               *)

\* recv is never offered more room than the block has from
\* total_bytes_received on ("pra evitar o estouro de buffer", manage_buffer),
\* however the bytes were cut before.
InBounds ==
    /\ receiver = "recv" => total_bytes_received + Chunk <= Len(buffer)
    /\ buffer_size = Len(buffer)

\* When send_bytes_to_server has returned 0 and the loop of the receiver has
\* ended with a 0 from recv, every byte has arrived: what was taken over by
\* the kernel comes before the end, and partial sends leave no gap.  The one
\* exception is a reset whose error went to the recv of the static buffer, the
\* result of which nobody looks at: then the 0 says nothing.
AllArrives == result = "ok" /\ receiver = "eof" /\ ~reported => Received = Data

\* The two loops, the buffer that moves while it fills and the kernels between
\* them carry the bytes as ByteStream promises, whatever the sizes of the
\* partial sends and receives, and 0 is returned only for the whole block.
Stream == INSTANCE ByteStream
            WITH accepted <- total_bytes_sent, got <- Received, outcome <- result

ImplementsByteStream == Stream!Spec

\* Neither process waits for the other forever as long as the network tells
\* of its failures: the sender comes to an end in any case, and the receiver
\* exits once it has been connected to, unless the connection falls silent:
\* its recv has no timeout.
BothEnd ==
    /\ <>(sender \in {"closed", "killed"})
    /\ link # "none" ~> receiver = "exited" \/ link = "silent"

===============================================================================
