----------------------------- MODULE TcpApiProofs -----------------------------
(* Theorems about TcpApi for any clients and descriptors. *)
EXTENDS TcpApi, ClientProofs

-------------------------------------------------------------------------------
(* What a send does to the connections. *)

\* The outcomes of one send on d: only d is concerned; a packet is delivered
\* to a peer that is there, lost with one that has gone, or reported to have
\* failed, whoever is there and however much of it is out by then.
SentShape(table, k, d, packet, o) ==
    /\ o.conn \in [Fds -> Connection]
    /\ o.res \in {"ok", "err", "killed"}
    /\ \A e \in Fds : e # d => o.conn[e] = k[e]
    /\ \/ /\ o.res = "ok" /\ d \in Fds /\ table[d] # NoOwner
          /\ k[d].peer = "up" /\ o.conn[d].peer = "up"
          /\ o.conn[d].session = NextSession(k[d].session, packet)
          /\ o.conn[d].failed = k[d].failed
       \/ /\ o.res = "ok" /\ d \in Fds /\ table[d] # NoOwner
          /\ k[d].peer = "gone" /\ o.conn[d].peer = "reset"
          /\ o.conn[d].session = k[d].session
          /\ o.conn[d].failed = k[d].failed
       \/ /\ o.res # "ok" /\ o.conn = k
          /\ ~(d \in Fds /\ table[d] # NoOwner)
       \/ /\ o.res # "ok" /\ d \in Fds /\ table[d] # NoOwner
          /\ o.conn[d].failed
          /\ o.conn[d].session \in {k[d].session, "broken"}
          /\ o.conn[d].peer = "up" => k[d].peer = "up"

LEMMA SentOutcome ==
  ASSUME NEW table, NEW k \in [Fds -> Connection], NEW d, NEW packet,
         NEW o \in Sent(table, k, d, packet)
  PROVE  SentShape(table, k, d, packet, o)
  <1>1. ASSUME d \notin Fds \/ table[d] = NoOwner
        PROVE  SentShape(table, k, d, packet, o)
    BY <1>1 DEF Sent, SentShape, Outcome
  <1>2. ASSUME d \in Fds, table[d] # NoOwner
        PROVE  SentShape(table, k, d, packet, o)
    <2>1. /\ k[d] \in Connection
          /\ k[d].peer \in Peers
          /\ k[d].session \in {"fresh", "open", "ended", "broken"}
          /\ k[d].subscribed \in BOOLEAN
          /\ k[d].failed \in BOOLEAN
      BY <1>2 DEF Connection
    \* A new value of the connection, whatever the outcome.
    <2>5. ASSUME NEW v \in Connection, o.conn = [k EXCEPT ![d] = v]
          PROVE  /\ o.conn[d] = v /\ o.conn \in [Fds -> Connection]
                 /\ \A e \in Fds : e # d => o.conn[e] = k[e]
      BY <1>2, <2>5
    \* The new value when the call is told of a failure.
    <2>6. ASSUME NEW v \in Connection, o.conn = [k EXCEPT ![d] = v],
                 o.res \in {"err", "killed"},
                 v.failed, v.session \in {k[d].session, "broken"},
                 v.peer = "up" => k[d].peer = "up"
          PROVE  SentShape(table, k, d, packet, o)
      BY <1>2, <2>5, <2>6 DEF SentShape
    <2>2. CASE k[d].peer = "up"
      <3>1. \/ o = [res |-> "ok", conn |-> Delivered(k, d, packet)]
            \/ \E f \in Failed(k, d) : o = [res |-> "err", conn |-> f]
        BY <1>2, <2>2 DEF Sent, Outcome
      <3>2. CASE o = [res |-> "ok", conn |-> Delivered(k, d, packet)]
        <4> DEFINE s == NextSession(k[d].session, packet)
                   b == IF packet = "SUBSCRIBE" THEN TRUE
                        ELSE IF packet = "UNSUBSCRIBE" THEN FALSE
                        ELSE k[d].subscribed
        <4>1. s \in {"fresh", "open", "ended", "broken"} /\ b \in BOOLEAN
          BY <2>1 DEF NextSession
        <4> HIDE DEF s, b
        <4> DEFINE v == [k[d] EXCEPT !.session = s, !.subscribed = b]
        <4>2. o.conn = [k EXCEPT ![d] = v]
          BY <1>2, <2>1, <3>2 DEF Delivered, Connection, s, b
        <4>3. /\ v \in Connection /\ v.peer = "up" /\ v.session = s
              /\ v.failed = k[d].failed
          BY <2>1, <2>2, <4>1 DEF Connection
        <4> HIDE DEF v
        <4> QED BY <1>2, <2>2, <2>5, <3>2, <4>2, <4>3 DEF SentShape, s
      <3>3. ASSUME NEW f \in Failed(k, d), o = [res |-> "err", conn |-> f]
            PROVE  SentShape(table, k, d, packet, o)
        <4> DEFINE u == [k[d] EXCEPT !.failed = TRUE]
                   w == [k[d] EXCEPT !.failed = TRUE, !.session = "broken"]
        <4>1. f = [k EXCEPT ![d] = u] \/ f = [k EXCEPT ![d] = w]
          BY <1>2, <3>3 DEF Failed
        <4>2. /\ u \in Connection /\ u.failed /\ u.session = k[d].session
              /\ u.peer = k[d].peer
          BY <2>1 DEF Connection
        <4>3. /\ w \in Connection /\ w.failed /\ w.session = "broken"
              /\ w.peer = k[d].peer
          BY <2>1 DEF Connection
        <4> HIDE DEF u, w
        <4> QED BY <2>6, <3>3, <4>1, <4>2, <4>3
      <3> QED BY <3>1, <3>2, <3>3
    <2>3. CASE k[d].peer = "gone"
      <3>1. \/ o = [res |-> "ok", conn |-> [k EXCEPT ![d].peer = "reset"]]
            \/ \E p \in {"gone", "reset"} :
                 o = [res |-> "err",
                      conn |-> [k EXCEPT ![d].failed = TRUE, ![d].peer = p]]
        BY <1>2, <2>3 DEF Sent, Outcome
      <3>2. CASE o = [res |-> "ok", conn |-> [k EXCEPT ![d].peer = "reset"]]
        <4>1. /\ o.conn[d] = [k[d] EXCEPT !.peer = "reset"]
              /\ o.conn \in [Fds -> Connection]
              /\ \A e \in Fds : e # d => o.conn[e] = k[e]
          BY <1>2, <2>1, <3>2 DEF Connection, Peers
        <4> QED BY <1>2, <2>1, <2>3, <3>2, <4>1 DEF SentShape, Connection
      <3>3. ASSUME NEW p \in {"gone", "reset"},
                   o = [res |-> "err",
                        conn |-> [k EXCEPT ![d].failed = TRUE, ![d].peer = p]]
            PROVE  SentShape(table, k, d, packet, o)
        <4> DEFINE v == [k[d] EXCEPT !.failed = TRUE, !.peer = p]
        <4>1. o.conn = [k EXCEPT ![d] = v]
          BY <1>2, <3>3
        <4>2. /\ v \in Connection /\ v.failed /\ v.session = k[d].session
              /\ v.peer = p
          BY <2>1, <3>3 DEF Connection, Peers
        <4>3. p # "up" /\ o.res = "err"
          BY <3>3
        <4> HIDE DEF v
        <4> QED BY <2>6, <4>1, <4>2, <4>3
      <3> QED BY <3>1, <3>2, <3>3
    <2>4. CASE k[d].peer = "reset"
      <3>1. /\ o.res \in {"err", "killed"}
            /\ o.conn = [k EXCEPT ![d].failed = TRUE]
        <4>1. o \in {Outcome(r, [k EXCEPT ![d].failed = TRUE]) : r \in {"err", "killed"}}
          BY <1>2, <2>4 DEF Sent
        <4>2. \E r \in {"err", "killed"} : o = Outcome(r, [k EXCEPT ![d].failed = TRUE])
          BY <4>1
        <4> QED BY <4>2 DEF Outcome
      <3> DEFINE v == [k[d] EXCEPT !.failed = TRUE]
      <3>2. o.conn = [k EXCEPT ![d] = v]
        BY <1>2, <3>1
      <3>3. /\ v \in Connection /\ v.failed /\ v.session = k[d].session
            /\ v.peer = k[d].peer
        BY <2>1 DEF Connection
      <3> HIDE DEF v
      <3> QED BY <2>6, <3>1, <3>2, <3>3
    <2> QED BY <2>1, <2>2, <2>3, <2>4 DEF Peers
  <1> QED BY <1>1, <1>2

-------------------------------------------------------------------------------
(* The calls of this API, one summary each. *)

\* client_connect after connect_client has left the connections k.
ConnectShape(c, k) ==
    \/ fault' # "none" /\ conn' = k /\ UNCHANGED told
    \/ /\ client[c].client_id = "null" \/ "long_name" \in ApiUses
       /\ conn' = k
       /\ told' = [told EXCEPT ![c] = "failed"]
    \/ /\ client[c].client_id = "live"
       /\ \E o : /\ SentShape(fds', k, client'[c].socket, "CONNECT", o)
                 /\ conn' = o.conn
                 /\ told' = [told EXCEPT
                               ![c] = IF o.res = "ok" THEN "up" ELSE "failed"]

LEMMA SendConnectShape ==
  ASSUME TypeOK, fault = "none", NEW c \in Clients,
         NEW k \in [Fds -> Connection], SendConnect(c, k)
  PROVE  /\ ConnectShape(c, k)
         /\ conn' \in [Fds -> Connection]
         /\ fault' \in Faults
         /\ last' = last \/ last' \in Calls
  <1>1. ASSUME client[c].client_id = "live",
               NEW o \in Sent(fds', k, client'[c].socket, "CONNECT"),
               conn' = o.conn,
               told' = [told EXCEPT
                          ![c] = IF o.res = "ok" THEN "up" ELSE "failed"],
               fault' = FaultAfter(o.res),
               Return("client_connect", c, ResultOf(o.res))
        PROVE  ConnectShape(c, k) /\ conn' \in [Fds -> Connection]
               /\ fault' \in Faults /\ last' \in Calls
    <2>1. SentShape(fds', k, client'[c].socket, "CONNECT", o)
      BY SentOutcome
    <2>2. o.conn \in [Fds -> Connection]
      BY <2>1 DEF SentShape
    <2>3. fault' \in Faults
      BY <1>1 DEF FaultAfter, Faults
    <2>4. last' \in Calls
      BY <1>1 DEF Return, ResultOf, Calls, Ops
    <2> QED BY <1>1, <2>1, <2>2, <2>3, <2>4 DEF ConnectShape
  <1>2. CASE /\ client[c].client_id = "null" \/ "long_name" \in ApiUses
             /\ conn' = k
             /\ told' = [told EXCEPT ![c] = "failed"]
             /\ Return("client_connect", c, "err")
             /\ UNCHANGED fault
    BY <1>2 DEF ConnectShape, Return, Calls, Ops, Faults
  <1>3. CASE /\ fault' \in {"use_after_free", "wild_deref"}
             /\ conn' = k /\ UNCHANGED <<told, last>>
    BY <1>3 DEF ConnectShape, Faults
  <1> QED BY <1>1, <1>2, <1>3 DEF SendConnect

\* The ways client_connect can go: with a new connection on the descriptor d,
\* without one, and into a NULL, freed or unset ip_broker.
Connected(c, d, p) ==
    /\ fds[d] = NoOwner
    /\ ConnectionSucceeds(c, d)
    /\ ConnectShape(c, [conn EXCEPT ![d] = New(p)])

NotConnected(c) ==
    /\ UNCHANGED <<client, fds, phase>>
    /\ ConnectShape(c, conn)

LEMMA ClientConnectShape ==
  ASSUME ApiTypeOK, fault = "none", NEW c \in Clients, ClientConnect(c)
  PROVE  /\ \/ \E d \in Fds, p \in Peers : Connected(c, d, p)
            \/ NotConnected(c)
            \/ fault' # "none" /\ UNCHANGED <<client, fds, phase, conn, told>>
         /\ UNCHANGED heap
         /\ conn' \in [Fds -> Connection]
         /\ fault' \in Faults
         /\ last' = last \/ last' \in Calls
  <1>0. TypeOK /\ conn \in [Fds -> Connection] /\ UNCHANGED heap
        /\ fds \in [Fds -> Clients \cup {NoOwner}]
    BY DEF ApiTypeOK, TypeOK, ClientConnect
  <1>1. ASSUME NEW d \in Fds, IsNextFd(d), ConnectionFails(c, d), SendConnect(c, conn)
        PROVE  NotConnected(c)
    <2>1. fds[d] = NoOwner
      BY <1>1 DEF IsNextFd
    <2>2. fds' = fds
      BY <1>0, <1>1, <2>1 DEF ConnectionFails, CloseFd, OpenFd
    <2> QED
      BY <1>0, <1>1, <2>2, SendConnectShape DEF ConnectionFails, NotConnected
  <1>2. ASSUME NEW d \in Fds, NEW p \in Peers, IsNextFd(d),
               ConnectionSucceeds(c, d), SendConnect(c, [conn EXCEPT ![d] = New(p)])
        PROVE  /\ Connected(c, d, p)
               /\ conn' \in [Fds -> Connection] /\ fault' \in Faults
               /\ last' = last \/ last' \in Calls
    <2>1. New(p) \in Connection
      BY DEF New, Connection
    <2>2. [conn EXCEPT ![d] = New(p)] \in [Fds -> Connection]
      BY <1>0, <2>1
    <2> QED BY <1>0, <1>2, <2>2, SendConnectShape DEF Connected, IsNextFd
  <1>3. ASSUME UNCHANGED <<client, fds, phase>>, SendConnect(c, conn)
        PROVE  NotConnected(c)
    BY <1>0, <1>3, SendConnectShape DEF NotConnected
  <1>4. ASSUME SendConnect(c, conn)
        PROVE  /\ conn' \in [Fds -> Connection] /\ fault' \in Faults
               /\ last' = last \/ last' \in Calls
    BY <1>0, <1>4, SendConnectShape
  <1>5. ASSUME \/ client[c].ip_broker = "null" /\ fault' = "null_deref"
               \/ client[c].ip_broker = "freed" /\ fault' = "use_after_free"
               \/ client[c].ip_broker = "wild" /\ fault' = "wild_deref"
        PROVE  fault' # "none" /\ fault' \in Faults
    BY <1>5 DEF Faults
  <1> QED BY <1>0, <1>1, <1>2, <1>3, <1>4, <1>5 DEF ClientConnect

\* What the application knows of its session after a call that returned -1.
Warned(c) == [told EXCEPT ![c] = IF @ = "up" THEN "warned" ELSE @]

\* The calls that send and change no client, a refused client_disconnect
\* among them.
SendShape(c, packet) ==
    /\ UNCHANGED <<client, fds, heap, phase>>
    /\ \E o : /\ SentShape(fds, conn, client[c].socket, packet, o)
              /\ conn' = o.conn
              /\ packet = "DISCONNECT" => o.res # "ok"
              /\ \/ o.res = "ok" /\ UNCHANGED told
                 \/ told' = Warned(c)

LEMMA TellShape ==
  ASSUME told \in [Clients -> Told], NEW c \in Clients, NEW res, Tell(c, res)
  PROVE  \/ res = "ok" /\ UNCHANGED told
         \/ told' = Warned(c)
  BY DEF Tell, Warned

LEMMA WarnedType ==
  ASSUME told \in [Clients -> Told], NEW c \in Clients
  PROVE  /\ Warned(c) \in [Clients -> Told]
         /\ Warned(c)[c] # "up"
         /\ Warned(c)[c] = "warned" => told[c] \in {"up", "warned"}
         /\ told[c] \in {"up", "warned"} => Warned(c)[c] = "warned"
         /\ \A k \in Clients : k # c => Warned(c)[k] = told[k]
  BY DEF Warned, Told

LEMMA SendOnlyShape ==
  ASSUME ApiTypeOK, fault = "none", NEW c \in Clients, NEW op \in Ops,
         NEW packet, packet # "DISCONNECT", SendOnly(op, c, packet)
  PROVE  SendShape(c, packet) /\ fault' \in Faults /\ last' \in Calls
         /\ conn' \in [Fds -> Connection]
  <1>1. PICK o \in Sent(fds, conn, client[c].socket, packet) :
          /\ conn' = o.conn
          /\ fault' = FaultAfter(o.res)
          /\ Return(op, c, ResultOf(o.res))
          /\ Tell(c, o.res)
    BY DEF SendOnly
  <1>2. SentShape(fds, conn, client[c].socket, packet, o)
    BY SentOutcome DEF ApiTypeOK
  <1>3. fault' \in Faults /\ last' \in Calls
    BY <1>1 DEF FaultAfter, Faults, Return, ResultOf, Calls
  <1>4. o.conn \in [Fds -> Connection]
    BY <1>2 DEF SentShape
  <1>5. (o.res = "ok" /\ UNCHANGED told) \/ told' = Warned(c)
    BY <1>1, TellShape DEF ApiTypeOK
  <1>6. UNCHANGED <<client, fds, heap, phase>>
    BY DEF SendOnly
  <1> QED BY <1>1, <1>2, <1>3, <1>4, <1>5, <1>6 DEF SendShape

LEMMA PublishShape ==
  ASSUME ApiTypeOK, fault = "none", NEW c \in Clients, ClientPublish(c)
  PROVE  /\ \/ SendShape(c, "PUBLISH")
            \/ "long_topic" \in ApiUses /\ SendShape(c, "garbage")
            \/ UNCHANGED <<client, fds, heap, phase, conn, told>>
         /\ fault' \in Faults
         /\ last' = last \/ last' \in Calls
         /\ conn' \in [Fds -> Connection]
  <1>1. CASE Crash("wild_deref") /\ UNCHANGED <<conn, told, last>>
    BY <1>1 DEF Crash, Faults, ApiTypeOK
  <1>2. CASE SendOnly("client_publish", c, "PUBLISH")
    BY <1>2, SendOnlyShape DEF Ops
  <1>3. ASSUME "long_topic" \in ApiUses,
               NEW o \in Sent(fds, conn, client[c].socket, "garbage"),
               conn' = o.conn,
               fault' = FaultAfter(o.res),
               Return("client_publish", c, "err"),
               Tell(c, "err"),
               UNCHANGED <<client, fds, heap, phase>>
        PROVE  /\ SendShape(c, "garbage")
               /\ fault' \in Faults /\ last' \in Calls
               /\ conn' \in [Fds -> Connection]
    <2>1. SentShape(fds, conn, client[c].socket, "garbage", o)
      BY SentOutcome DEF ApiTypeOK
    <2>2. o.conn \in [Fds -> Connection]
      BY <2>1 DEF SentShape
    <2>3. fault' \in Faults /\ last' \in Calls
      BY <1>3 DEF FaultAfter, Faults, Return, Calls, Ops
    <2>4. told' = Warned(c)
      BY <1>3, TellShape DEF ApiTypeOK
    <2> QED BY <1>3, <2>1, <2>2, <2>3, <2>4 DEF SendShape
  <1> QED BY <1>1, <1>2, <1>3 DEF ClientPublish

\* client_disconnect: DISCONNECT, and when it was sent the end of the client.
DisconnectShape(c) ==
    \/ SendShape(c, "DISCONNECT")
    \/ /\ \E o : /\ SentShape(fds, conn, client[c].socket, "DISCONNECT", o)
                 /\ o.res = "ok"
                 /\ conn' = o.conn
       /\ Destroy(c, CloseFd(fds, client[c].socket))
       /\ told' = [told EXCEPT ![c] = "nothing"]

LEMMA RefusedShape ==
  ASSUME ApiTypeOK, fault = "none", NEW c \in Clients, DisconnectRefused(c)
  PROVE  /\ SendShape(c, "DISCONNECT")
         /\ fault' \in Faults
         /\ last' \in Calls
         /\ conn' \in [Fds -> Connection]
  <1>1. PICK o \in Sent(fds, conn, client[c].socket, "DISCONNECT") :
          /\ o.res # "ok"
          /\ conn' = o.conn
          /\ fault' = FaultAfter(o.res)
          /\ Tell(c, o.res)
    BY DEF DisconnectRefused
  <1>2. SentShape(fds, conn, client[c].socket, "DISCONNECT", o)
    BY SentOutcome DEF ApiTypeOK
  <1>3. o.conn \in [Fds -> Connection]
    BY <1>2 DEF SentShape
  <1>4. fault' \in Faults
    BY <1>1 DEF FaultAfter, Faults
  <1>5. last' \in Calls /\ UNCHANGED <<client, fds, heap, phase>>
    BY DEF DisconnectRefused, Return, Calls, Ops
  <1>6. told' = Warned(c)
    BY <1>1, TellShape DEF ApiTypeOK
  <1> QED BY <1>1, <1>2, <1>3, <1>4, <1>5, <1>6 DEF SendShape

LEMMA DisconnectSentShape ==
  ASSUME ApiTypeOK, NEW c \in Clients, DisconnectSent(c)
  PROVE  /\ \E o : /\ SentShape(fds, conn, client[c].socket, "DISCONNECT", o)
                   /\ o.res = "ok"
                   /\ conn' = o.conn
         /\ conn' \in [Fds -> Connection]
  <1>1. PICK o \in Sent(fds, conn, client[c].socket, "DISCONNECT") :
          o.res = "ok" /\ conn' = o.conn
    BY DEF DisconnectSent
  <1>2. SentShape(fds, conn, client[c].socket, "DISCONNECT", o)
    BY SentOutcome DEF ApiTypeOK
  <1>3. o.conn \in [Fds -> Connection]
    BY <1>2 DEF SentShape
  <1> QED BY <1>1, <1>2, <1>3

LEMMA ClientDisconnectShape ==
  ASSUME ApiTypeOK, fault = "none", NEW c \in Clients, ClientDisconnect(c)
  PROVE  /\ DisconnectShape(c)
         /\ fault' \in Faults
         /\ last' \in Calls
         /\ conn' \in [Fds -> Connection]
  <1>1. CASE DisconnectRefused(c)
    BY <1>1, RefusedShape DEF DisconnectShape
  <1>2. CASE /\ DisconnectSent(c)
             /\ Destroy(c, CloseFd(fds, client[c].socket))
             /\ told' = [told EXCEPT ![c] = "nothing"]
             /\ Return("client_disconnect", c, "none")
    <2>1. last' \in Calls
      BY <1>2 DEF Return, Calls, Ops
    <2>2. fault' \in Faults
      BY <1>2 DEF Faults, Destroy, CrashOfFree, Crash
    <2> QED BY <1>2, <2>1, <2>2, DisconnectSentShape DEF DisconnectShape
  <1> QED BY <1>1, <1>2 DEF ClientDisconnect

-------------------------------------------------------------------------------
(* Type correctness. *)

LEMMA DestroyType ==
  ASSUME TypeOK, NEW c \in Clients,
         NEW table \in [Fds -> Clients \cup {NoOwner}], Destroy(c, table)
  PROVE  TypeOK'
  <1> USE DEF TypeOK
  <1>1. CASE \E p : CrashOfFree(p)
    BY <1>1, CrashOfFreeIsCrash DEF Crash
  <1>2. CASE /\ fds' = FdsAfterDestroy(table, client[c])
             /\ heap' = [heap EXCEPT ![c] = @ - LiveBlocks(client[c])]
             /\ client' = [client EXCEPT ![c] = Released(@)]
             /\ phase' = [phase EXCEPT ![c] = "destroyed"]
             /\ UNCHANGED fault
    <2>1. heap[c] - LiveBlocks(client[c]) \in Int
      BY LiveBlocksType
    <2>2. FdsAfterDestroy(table, client[c]) \in [Fds -> Clients \cup {NoOwner}]
      BY DEF FdsAfterDestroy, CloseFd
    <2> QED BY <1>2, <2>1, <2>2, ReleasedType DEF Phases
  <1> QED BY <1>1, <1>2 DEF Destroy

\* The calls of Client keep its type.
LEMMA ClientCallType ==
  ASSUME TypeOK, fault = "none", NEW c \in Clients, ClientCall(c)
  PROVE  TypeOK'
  BY TypeStep DEF Next

LEMMA ApiTypeStep == ApiTypeOK /\ [ApiNext]_apiVars => ApiTypeOK'
  <1> SUFFICES ASSUME ApiTypeOK, [ApiNext]_apiVars PROVE ApiTypeOK'
    OBVIOUS
  <1>0. /\ TypeOK /\ conn \in [Fds -> Connection]
        /\ told \in [Clients -> Told]
        /\ last \in Calls \cup {NoCall}
        /\ client \in [Clients -> ClientStruct]
        /\ fds \in [Fds -> Clients \cup {NoOwner}]
        /\ heap \in [Clients -> Int]
        /\ phase \in [Clients -> Phases]
    BY DEF ApiTypeOK, TypeOK
  <1>1. CASE UNCHANGED apiVars
    BY <1>0, <1>1 DEF apiVars, vars, ApiTypeOK, TypeOK
  \* Most calls leave the variables of Client alone, but for fault.
  <1>2. ASSUME UNCHANGED <<client, fds, heap, phase>>, fault' \in Faults,
               told' \in [Clients -> Told],
               conn' \in [Fds -> Connection],
               last' \in Calls \cup {NoCall}
        PROVE  ApiTypeOK'
    BY <1>0, <1>2 DEF ApiTypeOK, TypeOK
  <1>12. ASSUME NEW c \in Clients, NEW packet, SendShape(c, packet),
                fault' \in Faults, conn' \in [Fds -> Connection],
                last' \in Calls \cup {NoCall}
         PROVE  ApiTypeOK'
    <2>1. told' \in [Clients -> Told] /\ UNCHANGED <<client, fds, heap, phase>>
      BY <1>0, <1>12, WarnedType DEF SendShape
    <2> QED BY <1>2, <1>12, <2>1
  <1>3. ASSUME fault = "none", NEW c \in Clients, ClientConnect(c)
        PROVE  ApiTypeOK'
    <2>1. /\ \/ \E d \in Fds, p \in Peers : Connected(c, d, p)
             \/ NotConnected(c)
             \/ fault' # "none" /\ UNCHANGED <<client, fds, phase, conn, told>>
          /\ UNCHANGED heap
          /\ conn' \in [Fds -> Connection]
          /\ fault' \in Faults
          /\ last' \in Calls \cup {NoCall}
      BY <1>0, <1>3, ClientConnectShape
    <2>2. ASSUME NEW k, ConnectShape(c, k)
          PROVE  told' \in [Clients -> Told]
      BY <1>0, <2>2 DEF ConnectShape, Told
    <2>3. CASE NotConnected(c)
      BY <1>0, <1>2, <2>1, <2>2, <2>3 DEF NotConnected
    <2>4. ASSUME NEW d \in Fds, NEW p \in Peers, Connected(c, d, p)
          PROVE  ApiTypeOK'
      <3>2. client' \in [Clients -> ClientStruct]
        BY <1>0, <2>4 DEF Connected, ConnectionSucceeds, ClientStruct
      <3>3. fds' \in [Fds -> Clients \cup {NoOwner}]
        BY <1>0, <2>4 DEF Connected, ConnectionSucceeds, OpenFd
      <3>4. phase' \in [Clients -> Phases]
        BY <1>0, <2>4, MovedType DEF Connected, ConnectionSucceeds, Phases
      <3>1. TypeOK'
        BY <1>0, <2>1, <3>2, <3>3, <3>4 DEF TypeOK
      <3> QED BY <2>1, <2>2, <2>4, <3>1 DEF Connected, ApiTypeOK
    <2> QED BY <1>0, <1>2, <2>1, <2>3, <2>4
  <1>4. ASSUME fault = "none", NEW c \in Clients, ClientDisconnect(c)
        PROVE  ApiTypeOK'
    <2>1. /\ DisconnectShape(c)
          /\ fault' \in Faults
          /\ last' \in Calls
          /\ conn' \in [Fds -> Connection]
      BY <1>4, ClientDisconnectShape
    <2>2. CASE Destroy(c, CloseFd(fds, client[c].socket))
               /\ told' = [told EXCEPT ![c] = "nothing"]
      <3>1. CloseFd(fds, client[c].socket) \in [Fds -> Clients \cup {NoOwner}]
        BY <1>0 DEF CloseFd
      <3>2. TypeOK'
        BY <1>0, <2>2, <3>1, DestroyType
      <3> QED BY <1>0, <2>1, <2>2, <3>2 DEF ApiTypeOK, Told
    <2> QED BY <1>0, <2>1, <2>2, <1>12 DEF DisconnectShape
  <1>5. ASSUME NEW c \in Clients, ClientSubscribe(c) \/ ClientPingreq(c)
        PROVE  ApiTypeOK'
    <2>1. UNCHANGED <<vars, conn, told>> /\ last' \in Calls
      BY <1>5 DEF ClientSubscribe, ClientPingreq, Return, Calls, Ops
    <2> QED BY <1>0, <2>1 DEF vars, ApiTypeOK, TypeOK
  <1>6. ASSUME fault = "none", NEW c \in Clients,
               ClientUnsubscribe(c) \/ SendMessage(c)
        PROVE  ApiTypeOK'
    <2>1. PICK op \in Ops, packet \in {"UNSUBSCRIBE", "garbage"} :
            SendOnly(op, c, packet)
      BY <1>6 DEF ClientUnsubscribe, SendMessage, Ops
    <2> QED BY <1>0, <1>6, <1>12, <2>1, SendOnlyShape
  <1>7. ASSUME fault = "none", NEW c \in Clients, ClientPublish(c)
        PROVE  ApiTypeOK'
    BY <1>0, <1>2, <1>7, <1>12, PublishShape
  <1>8. ASSUME fault = "none", NEW c \in Clients, Create(c) \/ Rename(c)
        PROVE  ApiTypeOK'
    <2>1. TypeOK'
      BY <1>0, <1>8, ClientCallType DEF Create, Rename, ClientCall, CallOn
    <2> QED BY <1>0, <1>8, <2>1 DEF Create, Rename, ApiTypeOK, Told
  <1>9. ASSUME fault = "none", NEW c \in Clients, LeaveBy(DestroyClient(c), c)
        PROVE  ApiTypeOK'
    <2>1. TypeOK'
      BY <1>0, <1>9, ClientCallType DEF LeaveBy, ClientCall, CallOn
    <2> QED BY <1>0, <1>9, <2>1 DEF LeaveBy, ApiTypeOK, Told
  <1>10. ASSUME fault = "none", NEW c \in Clients, DirectCall(c)
         PROVE  ApiTypeOK'
    <2>1. TypeOK'
      BY <1>0, <1>10, ClientCallType DEF DirectCall, ClientCall
    <2>2. conn' \in [Fds -> Connection]
      <3>1. \A p \in Peers : New(p) \in Connection
        BY DEF New, Connection
      <3> QED BY <1>0, <1>10, <3>1 DEF DirectCall
    <2>3. told' \in [Clients -> Told]
      BY <1>0, <1>10 DEF DirectCall, Told
    <2> QED BY <1>10, <2>1, <2>2, <2>3 DEF DirectCall, ApiTypeOK
  <1>11. ASSUME NEW d \in Fds, PeerGoes(d) PROVE ApiTypeOK'
    <2>1. conn' \in [Fds -> Connection]
      BY <1>0, <1>11 DEF PeerGoes, Connection, Peers
    <2> QED BY <1>0, <1>11, <2>1 DEF PeerGoes, vars, ApiTypeOK, TypeOK
  <1> QED
    BY <1>1, <1>3, <1>4, <1>5, <1>6, <1>7, <1>8, <1>9, <1>10, <1>11
    DEF ApiNext, ApiCall

LEMMA ApiInitType == ApiInit => ApiTypeOK
  BY TypeInit DEF ApiInit, ApiTypeOK, New, Connection, Peers, Told

\* Whatever the calls of this API and of client.h are mixed with, no field of
\* a client, no connection and no result leaves its type.
THEOREM ApiTypeCorrect == ApiSpec => []ApiTypeOK
  BY ApiInitType, ApiTypeStep, PTL DEF ApiSpec

-------------------------------------------------------------------------------
(* Ended sessions.  The property is inductive with the types: DISCONNECT is  *)
(* only sent where the descriptor is closed in the same call, and a number   *)
(* that is open again has a new connection.                                  *)

\* destroy_client closes the client's descriptor and no other.
LEMMA DestroyCloses ==
  ASSUME TypeOK, NEW c \in Clients,
         NEW table \in [Fds -> Clients \cup {NoOwner}], Destroy(c, table)
  PROVE  \/ /\ fault' # "none"
            /\ UNCHANGED <<client, fds, heap, phase>>
         \/ /\ client' = [client EXCEPT ![c] = Released(@)]
            /\ phase' = [phase EXCEPT ![c] = "destroyed"]
            /\ fds' \in [Fds -> Clients \cup {NoOwner}]
            /\ \A e \in Fds : fds'[e] = IF e = client[c].socket THEN NoOwner
                                        ELSE table[e]
  <1>1. NoFd \notin Fds
    BY ClientAssumption DEF NoFd
  <1>2. CASE \E p : CrashOfFree(p)
    BY <1>2 DEF CrashOfFree, Crash
  <1>3. CASE /\ fds' = FdsAfterDestroy(table, client[c])
             /\ client' = [client EXCEPT ![c] = Released(@)]
             /\ phase' = [phase EXCEPT ![c] = "destroyed"]
    BY <1>1, <1>3 DEF FdsAfterDestroy, CloseFd
  <1> QED BY <1>2, <1>3 DEF Destroy

LEMMA OnlyDisconnectEnds ==
  ASSUME NEW table, NEW k, NEW d, NEW packet, NEW o,
         SentShape(table, k, d, packet, o),
         packet = "DISCONNECT" => o.res # "ok",
         NEW e \in Fds, o.conn[e].session = "ended"
  PROVE  k[e].session = "ended"
  BY DEF SentShape, NextSession

EndedInv == ApiTypeOK /\ EndedIsClosed

LEMMA EndedStep == EndedInv /\ [ApiNext]_apiVars => EndedInv'
  <1> SUFFICES ASSUME EndedInv, [ApiNext]_apiVars, fault' = "none",
                      NEW e \in Fds, conn'[e].session = "ended"
               PROVE  fds'[e] = NoOwner
    BY ApiTypeStep DEF EndedInv, EndedIsClosed
  <1>0. /\ ApiTypeOK /\ TypeOK /\ conn \in [Fds -> Connection]
        /\ fds \in [Fds -> Clients \cup {NoOwner}]
    BY DEF EndedInv, ApiTypeOK, TypeOK
  <1>1. CASE UNCHANGED apiVars
    BY <1>1 DEF apiVars, vars, EndedInv, EndedIsClosed
  <1>2. fault = "none"
    BY <1>1 DEF ApiNext, apiVars, vars
  <1>3. conn[e].session = "ended" => fds[e] = NoOwner
    BY <1>2 DEF EndedInv, EndedIsClosed
  <1>4. ASSUME NEW c \in Clients, NEW packet, SendShape(c, packet)
        PROVE  fds'[e] = NoOwner
    BY <1>3, <1>4, OnlyDisconnectEnds DEF SendShape
  <1>5. ASSUME NEW c \in Clients, ClientConnect(c) PROVE fds'[e] = NoOwner
    <2>1. ASSUME NEW k, ConnectShape(c, k) PROVE k[e].session = "ended"
      BY <2>1, OnlyDisconnectEnds DEF ConnectShape
    <2>2. CASE NotConnected(c)
      BY <1>3, <2>1, <2>2 DEF NotConnected
    <2>3. ASSUME NEW d \in Fds, NEW p \in Peers, Connected(c, d, p)
          PROVE  fds'[e] = NoOwner
      <3>1. [conn EXCEPT ![d] = New(p)][e].session = "ended"
        BY <2>1, <2>3 DEF Connected
      <3>2. e # d
        BY <1>0, <3>1 DEF New
      <3>3. fds'[e] = fds[e] /\ conn[e].session = "ended"
        BY <1>0, <2>3, <3>1, <3>2 DEF Connected, ConnectionSucceeds, OpenFd
      <3> QED BY <1>3, <3>3
    <2>4. CASE UNCHANGED <<fds, conn>>
      BY <1>3, <2>4
    <2> QED BY <1>0, <1>2, <1>5, <2>2, <2>3, <2>4, ClientConnectShape
  <1>6. ASSUME NEW c \in Clients, ClientDisconnect(c) PROVE fds'[e] = NoOwner
    <2>1. DisconnectShape(c)
      BY <1>0, <1>2, <1>6, ClientDisconnectShape
    <2>2. CASE SendShape(c, "DISCONNECT")
      BY <1>4, <2>2
    <2>3. ASSUME NEW o, SentShape(fds, conn, client[c].socket, "DISCONNECT", o),
                 conn' = o.conn, Destroy(c, CloseFd(fds, client[c].socket))
          PROVE  fds'[e] = NoOwner
      <3>1. CloseFd(fds, client[c].socket) \in [Fds -> Clients \cup {NoOwner}]
        BY <1>0 DEF CloseFd
      <3>2. e = client[c].socket => fds'[e] = NoOwner
        BY <1>0, <2>3, <3>1, DestroyCloses
      <3>3. e # client[c].socket => fds'[e] = fds[e]
        BY <1>0, <2>3, <3>1, DestroyCloses DEF CloseFd
      <3>4. e # client[c].socket => conn'[e] = conn[e]
        BY <2>3 DEF SentShape
      <3> QED BY <1>3, <3>2, <3>3, <3>4
    <2> QED BY <2>1, <2>2, <2>3 DEF DisconnectShape
  <1>7. ASSUME NEW c \in Clients, ClientSubscribe(c) \/ ClientPingreq(c)
        PROVE  fds'[e] = NoOwner
    BY <1>3, <1>7 DEF ClientSubscribe, ClientPingreq, vars
  <1>8. ASSUME NEW c \in Clients, ClientUnsubscribe(c) \/ SendMessage(c)
        PROVE  fds'[e] = NoOwner
    <2>1. PICK op \in Ops, packet \in {"UNSUBSCRIBE", "garbage"} :
            SendOnly(op, c, packet)
      BY <1>8 DEF ClientUnsubscribe, SendMessage, Ops
    <2> QED BY <1>0, <1>2, <1>4, <2>1, SendOnlyShape
  <1>9. ASSUME NEW c \in Clients, ClientPublish(c) PROVE fds'[e] = NoOwner
    <2>1. CASE UNCHANGED <<fds, conn>>
      BY <1>3, <2>1
    <2> QED BY <1>0, <1>2, <1>4, <1>9, <2>1, PublishShape
  <1>10. ASSUME NEW c \in Clients, Create(c) \/ Rename(c) PROVE fds'[e] = NoOwner
    <2>1. UNCHANGED <<fds, conn>>
      BY <1>10
      DEF Create, Rename, CreateClient, SetClientId, SetString, CrashOfFree, Crash
    <2> QED BY <1>3, <2>1
  <1>11. ASSUME NEW c \in Clients, LeaveBy(DestroyClient(c), c)
         PROVE  fds'[e] = NoOwner
    <2>1. fds'[e] = fds[e] \/ fds'[e] = NoOwner
      BY <1>0, <1>11, DestroyCloses DEF LeaveBy, DestroyClient
    <2> QED BY <1>3, <1>11, <2>1 DEF LeaveBy
  <1>12. ASSUME NEW c \in Clients, DirectCall(c) PROVE fds'[e] = NoOwner
    <2>1. CASE UNCHANGED <<fds, conn>>
      BY <1>3, <2>1
    <2>2. ASSUME NEW p \in Peers,
                 conn' = [d \in Fds |-> IF fds[d] = NoOwner /\ fds'[d] # NoOwner
                                        THEN New(p) ELSE conn[d]]
          PROVE  fds'[e] = NoOwner
      BY <1>3, <2>2 DEF New
    <2> QED BY <1>12, <2>1, <2>2 DEF DirectCall
  <1>13. ASSUME NEW d \in Fds, PeerGoes(d) PROVE fds'[e] = NoOwner
    <2>1. conn'[e].session = conn[e].session /\ fds' = fds
      BY <1>0, <1>13 DEF PeerGoes, vars, Connection
    <2> QED BY <1>3, <2>1
  <1> QED
    BY <1>1, <1>5, <1>6, <1>7, <1>8, <1>9, <1>10, <1>11, <1>12, <1>13
    DEF ApiNext, ApiCall

\* client_disconnect does not leave the connection open on which it has sent
\* DISCONNECT, whatever the calls are mixed with.
THEOREM EndedSessionsAreClosed == ApiSpec => []EndedIsClosed
  <1>1. ApiInit => EndedInv
    BY ApiInitType DEF ApiInit, New, EndedInv, EndedIsClosed
  <1>2. EndedInv => EndedIsClosed
    BY DEF EndedInv
  <1> QED BY <1>1, <1>2, EndedStep, PTL DEF ApiSpec

-------------------------------------------------------------------------------
(* Own descriptors.  From here on client_connect is not repeated without a   *)
(* disconnect and the calls of client.h are not mixed in: either takes a     *)
(* descriptor away from the client that uses it (see the runs with "retry"   *)
(* and MCClient_stale_descriptor).  Nor are there calls on a client that was *)
(* not created, or one more create_client on one that was.                   *)

OwnCalls ==
    /\ ApiUses \cap {"retry", "mixed"} = {}
    /\ Uses \cap {"recreate", "uncreated"} = {}

\* The bytes that the calls between client_connect and client_disconnect send.
Garbage == ApiUses \cap {"long_topic", "raw_message"} # {}

\* The five kinds of calls left, by what they do to descriptors and sessions.
Quiet ==
    /\ \A k \in Clients : client'[k].socket = client[k].socket
    /\ UNCHANGED <<fds, phase, conn, told>>

Talks(c) ==
    /\ MayCall(c)
    /\ \E packet : /\ packet \in {"UNSUBSCRIBE", "PUBLISH", "DISCONNECT"}
                         \/ (packet = "garbage" /\ Garbage)
                   /\ SendShape(c, packet)

Creates(c) ==
    /\ ~Created(c)
    /\ \E s \in ClientStruct : /\ s.socket \in {NoFd, client[c].socket}
                               /\ client' = [client EXCEPT ![c] = s]
    /\ \E p \in {"raw", "created"} : phase' = [phase EXCEPT ![c] = p]
    /\ told' = [told EXCEPT ![c] = "nothing"]
    /\ UNCHANGED <<fds, conn>>

Leaves(c) ==
    /\ \/ fault' # "none" /\ UNCHANGED <<client, fds, phase>>
       \/ /\ client' = [client EXCEPT ![c] = Released(@)]
          /\ phase' = [phase EXCEPT ![c] = "destroyed"]
          /\ \A e \in Fds : fds'[e] = IF e = Socket(c) THEN NoOwner ELSE fds[e]
    /\ told' = [told EXCEPT ![c] = "nothing"]
    /\ \/ conn' = conn
       \/ /\ MayCall(c)
          /\ \E o : /\ SentShape(fds, conn, Socket(c), "DISCONNECT", o)
                    /\ conn' = o.conn

LEMMA StepKinds ==
  ASSUME OwnCalls, ApiTypeOK, ApiNext
  PROVE  /\ fault = "none"
         /\ \/ \E c \in Clients : \/ Quiet \/ Talks(c) \/ Creates(c) \/ Leaves(c)
                                  \/ ClientConnect(c) /\ phase[c] # "connected"
            \/ \E d \in Fds : PeerGoes(d)
  <1>0. /\ fault = "none" /\ "retry" \notin ApiUses /\ "mixed" \notin ApiUses
        /\ "recreate" \notin Uses /\ \A c \in Clients : Usable(c) = Created(c)
        /\ TypeOK
        /\ client \in [Clients -> ClientStruct]
        /\ fds \in [Fds -> Clients \cup {NoOwner}]
    <2>1. "recreate" \notin Uses /\ \A c \in Clients : Usable(c) = Created(c)
      BY DEF OwnCalls, Usable, Created
    <2> QED BY <2>1 DEF OwnCalls, ApiNext, ApiTypeOK, TypeOK
  <1>1. ASSUME UNCHANGED <<client, fds, phase, conn, told>> PROVE Quiet
    BY <1>1 DEF Quiet
  <1>2. ASSUME NEW c \in Clients, ClientConnect(c) PROVE phase[c] # "connected"
    BY <1>0, <1>2 DEF ClientConnect, MayConnect
  <1>3. ASSUME NEW c \in Clients, ClientDisconnect(c) PROVE Talks(c) \/ Leaves(c)
    <2>1. DisconnectShape(c) /\ MayCall(c)
      BY <1>0, <1>3, ClientDisconnectShape DEF ClientDisconnect
    <2>2. CloseFd(fds, Socket(c)) \in [Fds -> Clients \cup {NoOwner}]
      BY <1>0 DEF CloseFd
    <2>3. ASSUME Destroy(c, CloseFd(fds, Socket(c)))
          PROVE  \/ fault' # "none" /\ UNCHANGED <<client, fds, phase>>
                 \/ /\ client' = [client EXCEPT ![c] = Released(@)]
                    /\ phase' = [phase EXCEPT ![c] = "destroyed"]
                    /\ \A e \in Fds : fds'[e] = IF e = Socket(c) THEN NoOwner
                                                ELSE fds[e]
      <3>1. \A e \in Fds : e # Socket(c) => CloseFd(fds, Socket(c))[e] = fds[e]
        BY <1>0 DEF CloseFd
      <3> QED BY <1>0, <2>2, <2>3, <3>1, DestroyCloses DEF Socket
    <2> QED BY <2>1, <2>3 DEF DisconnectShape, Talks, Leaves, Socket
  <1>4. ASSUME NEW c \in Clients, ClientSubscribe(c) \/ ClientPingreq(c)
        PROVE  Quiet
    BY <1>1, <1>4 DEF ClientSubscribe, ClientPingreq, vars
  <1>5. ASSUME NEW c \in Clients, ClientUnsubscribe(c) PROVE Talks(c)
    <2>1. \/ SendOnly("client_unsubscribe", c, "UNSUBSCRIBE")
          \/ "long_topic" \in ApiUses /\ SendOnly("client_unsubscribe", c, "garbage")
      BY <1>5 DEF ClientUnsubscribe
    <2>2. MayCall(c) /\ "client_unsubscribe" \in Ops
      BY <1>5 DEF ClientUnsubscribe, Ops
    <2> QED BY <1>0, <2>1, <2>2, SendOnlyShape DEF Talks, Garbage
  <1>6. ASSUME NEW c \in Clients, SendMessage(c) PROVE Talks(c)
    <2>1. MayCall(c) /\ "raw_message" \in ApiUses
          /\ SendOnly("send_message", c, "garbage") /\ "send_message" \in Ops
      BY <1>6 DEF SendMessage, Ops
    <2> QED BY <1>0, <2>1, SendOnlyShape DEF Talks, Garbage
  <1>7. ASSUME NEW c \in Clients, ClientPublish(c) PROVE Quiet \/ Talks(c)
    <2>1. MayCall(c)
      BY <1>7 DEF ClientPublish
    <2> QED BY <1>0, <1>1, <1>7, <2>1, PublishShape DEF Talks, Garbage
  <1>8. ASSUME NEW c \in Clients, Create(c) PROVE Creates(c)
    <2>1. /\ ~Created(c) /\ UNCHANGED <<fds, conn>>
          /\ told' = [told EXCEPT ![c] = "nothing"]
      BY <1>0, <1>8 DEF Create, CreateClient
    <2>2. PICK n \in Sizes, outcome \in DOMAIN BuiltBlocks :
            /\ client' = [client EXCEPT ![c] = Built(@, EffectiveSize(n), outcome)]
            /\ phase' = [phase EXCEPT
                            ![c] = IF outcome = "ok" THEN "created" ELSE "raw"]
      BY <1>8 DEF Create, CreateClient
    <2> DEFINE s == Built(client[c], EffectiveSize(n), outcome)
    <2>3. s \in ClientStruct
      BY <1>0, BuiltType, EffectiveSizeType, ClientAssumption
    <2>4. s.socket \in {NoFd, client[c].socket}
      BY <1>0 DEF Built, BuiltBlocks, ClientStruct
    <2>5. client' = [client EXCEPT ![c] = s]
      BY <2>2
    <2> HIDE DEF s
    <2> QED BY <2>1, <2>2, <2>3, <2>4, <2>5 DEF Creates
  <1>9. ASSUME NEW c \in Clients, Rename(c) PROVE Quiet
    <2>1. UNCHANGED <<fds, phase, conn, told>>
      BY <1>9 DEF Rename, SetClientId, SetString, CrashOfFree, Crash
    <2>2. UNCHANGED client \/ \E v : client' = [client EXCEPT ![c]["client_id"] = v]
      BY <1>9 DEF Rename, SetClientId, SetString, CrashOfFree, Crash
    <2> QED BY <1>0, <2>1, <2>2 DEF Quiet, ClientStruct
  <1>10. ASSUME NEW c \in Clients, LeaveBy(DestroyClient(c), c) PROVE Leaves(c)
    BY <1>0, <1>10, DestroyCloses DEF LeaveBy, DestroyClient, Leaves, Socket
  <1> QED
    BY <1>0, <1>2, <1>3, <1>4, <1>5, <1>6, <1>7, <1>8, <1>9, <1>10
    DEF ApiNext, ApiCall

\* A client that was told of a session, and may have been warned of it since.
Expects(c) == told[c] \in {"up", "warned"}

\* NoFdLeak is not inductive alone: an open descriptor and the client that has
\* its number must know of each other, and a client that is not connected, or
\* was not told that it is, must have no number that another one may be given.
OwnInv ==
    /\ ApiTypeOK
    /\ NoFdLeak
    /\ ConnectedOwns
    /\ \A c \in Clients : Socket(c) # NoFd => phase[c] = "connected"
    /\ \A c \in Clients : Expects(c) => phase[c] = "connected"

\* The step of NobodyElseCloses.
ClosesOwn ==
    \A d \in Fds : fds[d] # NoOwner /\ fds'[d] # fds[d] =>
        phase'[fds[d]] \in {"disconnected", "destroyed"}
        /\ phase'[fds[d]] # phase[fds[d]]

LEMMA ConnectWithoutDescriptor ==
  ASSUME NEW c \in Clients, NEW k, client' = client, Socket(c) = NoFd,
         ConnectShape(c, k), told \in [Clients -> Told]
  PROVE  /\ conn' = k
         /\ told' = told \/ told' = [told EXCEPT ![c] = "failed"]
  <1>1. NoFd \notin Fds
    BY ClientAssumption DEF NoFd
  <1>2. ASSUME NEW o, SentShape(fds', k, client'[c].socket, "CONNECT", o)
        PROVE  o.res # "ok" /\ o.conn = k
    BY <1>1, <1>2 DEF SentShape, Socket
  <1> QED BY <1>2 DEF ConnectShape

LEMMA OwnStep ==
  ASSUME OwnCalls, OwnInv, ApiNext
  PROVE  OwnInv' /\ ClosesOwn
  <1>0. /\ ApiTypeOK
        /\ client \in [Clients -> ClientStruct]
        /\ fds \in [Fds -> Clients \cup {NoOwner}]
        /\ phase \in [Clients -> Phases]
        /\ told \in [Clients -> Told]
        /\ NoOwner \notin Clients /\ NoFd \notin Fds
    BY ClientAssumption DEF OwnInv, ApiTypeOK, TypeOK, NoFd
  <1>1. /\ \A c \in Clients, d \in Fds :
              fds[d] = c => Socket(c) = d /\ phase[c] = "connected"
        /\ \A c \in Clients :
              phase[c] = "connected" => Socket(c) \in Fds /\ fds[Socket(c)] = c
        /\ \A c \in Clients : Socket(c) # NoFd => phase[c] = "connected"
        /\ \A c \in Clients : Expects(c) => phase[c] = "connected"
    BY DEF OwnInv, NoFdLeak, ConnectedOwns, Socket, Expects
  <1>2. ApiTypeOK'
    BY <1>0, ApiTypeStep
  <1> DEFINE Rest == /\ NoFdLeak /\ ConnectedOwns
                     /\ \A c \in Clients : Socket(c) # NoFd => phase[c] = "connected"
                     /\ \A c \in Clients : Expects(c) => phase[c] = "connected"
  <1> SUFFICES Rest' /\ ClosesOwn
    BY <1>2 DEF OwnInv
  <1>3. CASE Quiet
    BY <1>1, <1>3 DEF Quiet, NoFdLeak, ConnectedOwns, Socket, ClosesOwn, Expects
  \* Only connections, or what an unconnected client was told, change.
  <1>4. ASSUME UNCHANGED <<client, fds, phase>>,
               \A c \in Clients : Expects(c)' => Expects(c)
        PROVE  Rest' /\ ClosesOwn
    BY <1>1, <1>4 DEF NoFdLeak, ConnectedOwns, Socket, ClosesOwn
  <1>5. ASSUME NEW c \in Clients, Talks(c) PROVE Rest' /\ ClosesOwn
    <2>1. \A k \in Clients : Expects(k)' => Expects(k)
      BY <1>0, <1>5, WarnedType DEF Talks, SendShape, Expects
    <2> QED BY <1>4, <1>5, <2>1 DEF Talks, SendShape
  <1>6. ASSUME NEW d \in Fds, PeerGoes(d) PROVE Rest' /\ ClosesOwn
    BY <1>4, <1>6 DEF PeerGoes, vars, Expects
  <1>7. ASSUME NEW c \in Clients, Creates(c) PROVE Rest' /\ ClosesOwn
    <2>1. phase[c] # "connected" /\ Socket(c) = NoFd
      BY <1>1, <1>7 DEF Creates, Created
    <2>2. /\ phase'[c] \in {"raw", "created"} /\ Socket(c)' = NoFd
          /\ \A k \in Clients : k # c => /\ phase'[k] = phase[k]
                                         /\ Socket(k)' = Socket(k)
                                         /\ Expects(k)' = Expects(k)
          /\ ~Expects(c)'
          /\ UNCHANGED fds
      BY <1>0, <1>7, <2>1 DEF Creates, Socket, Expects
    <2>3. NoFdLeak' /\ ConnectedOwns'
      BY <1>1, <2>1, <2>2 DEF NoFdLeak, ConnectedOwns, Socket
    <2> QED BY <1>1, <2>1, <2>2, <2>3 DEF ClosesOwn
  <1>8. ASSUME NEW c \in Clients, Leaves(c) PROVE Rest' /\ ClosesOwn
    <2>1. \A k \in Clients : Expects(k)' => k # c /\ Expects(k)
      BY <1>0, <1>8 DEF Leaves, Expects
    <2>2. CASE UNCHANGED <<client, fds, phase>>
      BY <1>4, <2>1, <2>2
    <2>3. CASE /\ client' = [client EXCEPT ![c] = Released(@)]
               /\ phase' = [phase EXCEPT ![c] = "destroyed"]
               /\ \A e \in Fds : fds'[e] = IF e = Socket(c) THEN NoOwner ELSE fds[e]
      <3>1. /\ phase'[c] = "destroyed" /\ Socket(c)' = NoFd
            /\ \A k \in Clients : k # c => /\ phase'[k] = phase[k]
                                           /\ Socket(k)' = Socket(k)
        BY <1>0, <2>3 DEF Released, ClientStruct, Socket
      <3>2. \A e \in Fds : e = Socket(c) => fds[e] = c /\ phase[c] = "connected"
        BY <1>0, <1>1
      <3>3. \A k \in Clients : k # c /\ phase[k] = "connected" => Socket(k) # Socket(c)
        BY <1>1, <3>2
      <3>4. NoFdLeak'
        BY <1>0, <1>1, <2>3, <3>1 DEF NoFdLeak, Socket
      <3>5. ConnectedOwns'
        BY <1>1, <2>3, <3>1, <3>3 DEF ConnectedOwns, Socket
      <3>6. ClosesOwn
        BY <2>3, <3>1, <3>2 DEF ClosesOwn
      <3> QED BY <1>1, <2>1, <3>1, <3>4, <3>5, <3>6
    <2> QED BY <1>8, <2>2, <2>3 DEF Leaves
  <1>9. ASSUME NEW c \in Clients, ClientConnect(c), phase[c] # "connected",
               fault = "none"
        PROVE  Rest' /\ ClosesOwn
    <2>1. Socket(c) = NoFd /\ \A d \in Fds : fds[d] # c
      BY <1>1, <1>9
    <2>2. CASE NotConnected(c)
      <3>1. told' = told \/ told' = [told EXCEPT ![c] = "failed"]
        BY <1>0, <2>1, <2>2, ConnectWithoutDescriptor DEF NotConnected
      <3>2. \A k \in Clients : Expects(k)' => Expects(k)
        BY <1>0, <3>1 DEF Expects
      <3> QED BY <1>4, <2>2, <3>2 DEF NotConnected
    <2>3. ASSUME NEW d \in Fds, NEW p \in Peers, Connected(c, d, p)
          PROVE  Rest' /\ ClosesOwn
      <3>1. /\ phase'[c] = "connected" /\ Socket(c)' = d /\ fds[d] = NoOwner
            /\ \A k \in Clients : k # c => /\ phase'[k] = phase[k]
                                           /\ Socket(k)' = Socket(k)
            /\ fds'[d] = c /\ \A e \in Fds : e # d => fds'[e] = fds[e]
        BY <1>0, <1>9, <2>3
        DEF Connected, ConnectionSucceeds, OpenFd, ClientStruct, Socket, Moved,
            ClientConnect, MayConnect, Usable, OwnCalls
      <3>2. \A k \in Clients : k # c => Expects(k)' = Expects(k)
        BY <1>0, <2>3 DEF Connected, ConnectShape, Expects
      <3>3. NoFdLeak'
        BY <1>0, <1>1, <2>1, <3>1 DEF NoFdLeak, Socket
      <3>4. ConnectedOwns'
        BY <1>0, <1>1, <3>1 DEF ConnectedOwns, Socket
      <3>5. ClosesOwn
        BY <3>1 DEF ClosesOwn
      <3> QED BY <1>0, <1>1, <3>1, <3>2, <3>3, <3>4, <3>5
    <2>4. CASE UNCHANGED <<client, fds, phase, conn, told>>
      BY <1>4, <2>4 DEF Expects
    <2> QED BY <1>0, <1>9, <2>2, <2>3, <2>4, ClientConnectShape
  <1> HIDE DEF Rest
  <1> QED
    BY <1>0, <1>3, <1>5, <1>6, <1>7, <1>8, <1>9, StepKinds

LEMMA OwnInit ==
  ASSUME OwnCalls, ApiInit
  PROVE  OwnInv
  <1>1. /\ \A c \in Clients : client[c].socket = NoFd /\ phase[c] = "raw"
                              /\ told[c] = "nothing"
        /\ \A d \in Fds : fds[d] = NoOwner
    <2>1. \A s \in Unwritten : s.socket = NoFd
      BY DEF OwnCalls, Unwritten
    <2> QED BY <2>1 DEF ApiInit, Init
  <1> QED
    BY <1>1, ApiInitType, ClientAssumption
    DEF OwnInv, NoFdLeak, ConnectedOwns, Socket, Expects

LEMMA OwnInvariant == ASSUME OwnCalls PROVE ApiSpec => []OwnInv
  <1>1. OwnInv /\ [ApiNext]_apiVars => OwnInv'
    <2> SUFFICES ASSUME OwnInv, [ApiNext]_apiVars PROVE OwnInv'
      OBVIOUS
    <2>1. CASE UNCHANGED apiVars
      BY <2>1, ApiTypeStep
      DEF apiVars, vars, OwnInv, NoFdLeak, ConnectedOwns, Socket, Expects
    <2> QED BY <2>1, OwnStep
  <1>2. ApiInit => OwnInv
    BY OwnInit
  <1> QED BY <1>1, <1>2, PTL DEF ApiSpec

\* A descriptor that a client of this API opened, and that is open, is in its
\* socket field: nothing leaks, and client_disconnect can close it.
THEOREM ApiLeaksNoDescriptor == ASSUME OwnCalls PROVE ApiSpec => []NoFdLeak
  <1>1. OwnInv => NoFdLeak
    BY DEF OwnInv
  <1> QED BY <1>1, OwnInvariant, PTL

\* Two clients never use one descriptor.
THEOREM SocketsNotShared == ASSUME OwnCalls PROVE ApiSpec => []NoSharedSocket
  <1>1. OwnInv => NoSharedSocket
    <2> SUFFICES ASSUME OwnInv, NEW b \in Clients, NEW c \in Clients,
                        b # c, Socket(b) \in Fds, Socket(b) = Socket(c)
                 PROVE  FALSE
      BY DEF NoSharedSocket
    <2>1. Socket(b) # NoFd
      BY ClientAssumption DEF NoFd
    <2>2. fds[Socket(b)] = b /\ fds[Socket(b)] = c
      BY <2>1 DEF OwnInv, ConnectedOwns, Socket
    <2> QED BY <2>2
  <1> QED BY <1>1, OwnInvariant, PTL

\* No call closes the descriptor of another client, although close_connection
\* and destroy_client are given plain numbers that the system gives out again.
THEOREM NobodyElseClosesIt == ASSUME OwnCalls PROVE ApiSpec => NobodyElseCloses
  <1>1. OwnInv /\ [ApiNext]_apiVars => [ClosesOwn]_apiVars
    BY OwnStep
  <1>2. OwnInv /\ [ClosesOwn]_apiVars =>
          [\A d \in Fds : fds[d] # NoOwner /\ fds'[d] # fds[d] =>
              phase'[fds[d]] \in {"disconnected", "destroyed"}
              /\ phase'[fds[d]] # phase[fds[d]]]_apiVars
    BY DEF ClosesOwn
  <1> QED
    BY <1>1, <1>2, OwnInvariant, PTL DEF ApiSpec, NobodyElseCloses

-------------------------------------------------------------------------------
(* The sessions that client_connect promised.  Names and messages fit their  *)
(* packets: what a longer one sends is no packet and ends the session.       *)

Sessions ==
    \A c \in Clients : told[c] = "up" /\ conn[Socket(c)].peer = "up" =>
        conn[Socket(c)].session = "open"

SessionInv == OwnInv /\ Sessions

\* A step concerns the session of one client, and that session is not opened
\* on a connection which the client already had.
OneSession(c) ==
    /\ \A k \in Clients \ {c} :
        /\ told'[k] = told[k]
        /\ told[k] = "up" => /\ Socket(k)' = Socket(k)
                             /\ conn[Socket(k)]' = conn[Socket(k)]
    /\ Expects(c) /\ told'[c] = "up" =>
        /\ told[c] = "up"
        /\ Socket(c)' = Socket(c)
        /\ conn[Socket(c)]'.peer = "up" => conn[Socket(c)].peer = "up"
    /\ told'[c] = "up" /\ conn[Socket(c)]'.peer = "up" =>
        conn[Socket(c)]'.session = "open"

LEMMA SessionStep ==
  ASSUME OwnCalls, ~Garbage, SessionInv, ApiNext
  PROVE  \E c \in Clients : OneSession(c)
  <1>0. /\ ApiTypeOK /\ conn \in [Fds -> Connection]
        /\ client \in [Clients -> ClientStruct]
        /\ phase \in [Clients -> Phases]
        /\ fds \in [Fds -> Clients \cup {NoOwner}]
        /\ told \in [Clients -> Told]
        /\ NoOwner \notin Clients /\ NoFd \notin Fds
    BY ClientAssumption DEF SessionInv, OwnInv, ApiTypeOK, TypeOK, NoFd
  <1>1. /\ \A k \in Clients : told[k] = "up" =>
              Socket(k) \in Fds /\ fds[Socket(k)] = k
        /\ \A k \in Clients : Socket(k) \in Fds =>
              fds[Socket(k)] = k /\ phase[k] = "connected"
        /\ \A k \in Clients : told[k] = "up" /\ conn[Socket(k)].peer = "up" =>
              conn[Socket(k)].session = "open"
        /\ \A k \in Clients : Expects(k) \/ Socket(k) # NoFd =>
              phase[k] = "connected"
    BY <1>0 DEF SessionInv, OwnInv, ConnectedOwns, Sessions, Socket, Expects
  <1>2. ASSUME NEW c \in Clients, Quiet PROVE OneSession(c)
    <2>1. \A k \in Clients : /\ told'[k] = told[k] /\ Socket(k)' = Socket(k)
                             /\ conn[Socket(k)]' = conn[Socket(k)]
      BY <1>2 DEF Quiet, Socket
    <2> QED BY <1>1, <2>1 DEF OneSession, Expects
  <1>3. ASSUME NEW c \in Clients, Talks(c) PROVE OneSession(c)
    <2>1. PICK o : /\ UNCHANGED client
                   /\ conn' = o.conn
                   /\ (o.res = "ok" /\ UNCHANGED told) \/ told' = Warned(c)
                   /\ \/ SentShape(fds, conn, Socket(c), "UNSUBSCRIBE", o)
                      \/ SentShape(fds, conn, Socket(c), "PUBLISH", o)
                      \/ /\ SentShape(fds, conn, Socket(c), "DISCONNECT", o)
                         /\ o.res # "ok"
      BY <1>3 DEF Talks, SendShape, Socket
    <2>4. /\ \A k \in Clients \ {c} : told'[k] = told[k]
          /\ told'[c] = "up" => told[c] = "up" /\ o.res = "ok"
      BY <1>0, <2>1, WarnedType
    <2>2. ASSUME NEW k \in Clients, k # c, told[k] = "up"
          PROVE  conn'[Socket(k)] = conn[Socket(k)]
      <3>1. Socket(k) \in Fds /\ Socket(k) # Socket(c)
        BY <1>1, <2>2
      <3> QED BY <2>1, <3>1 DEF SentShape
    <2>3. ASSUME told[c] = "up", o.res = "ok"
          PROVE  /\ conn'[Socket(c)].peer = "up" => conn[Socket(c)].peer = "up"
                 /\ conn'[Socket(c)].peer = "up" => conn'[Socket(c)].session = "open"
      BY <1>1, <2>1, <2>3 DEF SentShape, NextSession
    <2> QED BY <2>1, <2>2, <2>3, <2>4 DEF OneSession, Socket
  <1>4. ASSUME NEW c \in Clients, Creates(c) PROVE OneSession(c)
    <2>1. /\ told'[c] # "up" /\ UNCHANGED conn
          /\ \A k \in Clients \ {c} : told'[k] = told[k]
      BY <1>0, <1>4 DEF Creates
    <2>2. \A k \in Clients : k # c => Socket(k)' = Socket(k)
      BY <1>0, <1>4 DEF Creates, Socket
    <2> QED BY <2>1, <2>2 DEF OneSession
  <1>5. ASSUME NEW c \in Clients, Leaves(c) PROVE OneSession(c)
    <2>1. told'[c] = "nothing" /\ \A k \in Clients : k # c => told'[k] = told[k]
      BY <1>0, <1>5 DEF Leaves
    <2>2. \A k \in Clients : k # c => Socket(k)' = Socket(k)
      BY <1>0, <1>5 DEF Leaves, Socket
    <2>3. ASSUME NEW k \in Clients, k # c, told[k] = "up"
          PROVE  conn'[Socket(k)] = conn[Socket(k)]
      <3>1. Socket(k) \in Fds /\ Socket(k) # Socket(c)
        BY <1>1, <2>3
      <3> QED BY <1>5, <3>1 DEF Leaves, SentShape
    <2> QED BY <2>1, <2>2, <2>3 DEF OneSession
  <1>6. ASSUME NEW c \in Clients, ClientConnect(c), phase[c] # "connected",
               fault = "none"
        PROVE  OneSession(c)
    <2>1. ~Expects(c) /\ told[c] # "up" /\ Socket(c) = NoFd
      BY <1>1, <1>6 DEF Expects
    <2>2. ASSUME UNCHANGED <<client, conn>>,
                 told' = told \/ told' = [told EXCEPT ![c] = "failed"]
          PROVE  OneSession(c)
      BY <1>0, <2>1, <2>2 DEF OneSession, Socket
    <2>3. ASSUME NEW d \in Fds, NEW p \in Peers, Connected(c, d, p)
          PROVE  OneSession(c)
      <3> DEFINE new == [conn EXCEPT ![d] = New(p)]
      <3>1. /\ Socket(c)' = d /\ fds[d] = NoOwner
            /\ \A k \in Clients : k # c => Socket(k)' = Socket(k)
        BY <1>0, <2>3 DEF Connected, ConnectionSucceeds, ClientStruct, Socket
      <3>2. new[d] = New(p) /\ \A e \in Fds : e # d => new[e] = conn[e]
        BY <1>0
      <3>3. ConnectShape(c, new)
        BY <2>3 DEF Connected
      <3> HIDE DEF new
      <3>4. \A k \in Clients : k # c => told'[k] = told[k]
        BY <1>0, <3>3 DEF ConnectShape
      <3>5. ASSUME NEW k \in Clients, k # c, told[k] = "up"
            PROVE  conn'[Socket(k)] = conn[Socket(k)]
        <4>1. Socket(k) \in Fds /\ Socket(k) # d
          BY <1>0, <1>1, <3>1, <3>5
        <4> QED BY <3>1, <3>2, <3>3, <4>1 DEF ConnectShape, SentShape, Socket
      <3>6. told'[c] = "up" /\ conn'[d].peer = "up" => conn'[d].session = "open"
        <4>1. ASSUME NEW o, SentShape(fds', new, d, "CONNECT", o),
                     o.conn[d].peer = "up", o.res = "ok"
              PROVE  o.conn[d].session = "open"
          BY <3>2, <4>1 DEF SentShape, New, NextSession
        <4>2. told'[c] = "up" =>
                \E o : /\ SentShape(fds', new, d, "CONNECT", o)
                       /\ o.res = "ok" /\ conn' = o.conn
          BY <1>0, <2>1, <3>1, <3>3 DEF ConnectShape, Socket
        <4> QED BY <4>1, <4>2
      <3> QED BY <2>1, <3>1, <3>4, <3>5, <3>6 DEF OneSession, Socket
    <2> QED
      BY <1>0, <1>6, <2>1, <2>2, <2>3, ClientConnectShape, ConnectWithoutDescriptor
      DEF NotConnected
  <1>7. ASSUME NEW d \in Fds, PeerGoes(d)
        PROVE  \E c \in Clients : OneSession(c)
    <2>1. /\ fds[d] \in Clients /\ UNCHANGED <<client, told>>
          /\ conn'[d].peer # "up"
          /\ \A e \in Fds : e # d => conn'[e] = conn[e]
      BY <1>0, <1>7 DEF PeerGoes, vars, Connection
    <2>2. PICK c \in Clients : fds[d] = c
      BY <2>1
    <2>3. \A k \in Clients : told[k] = "up" /\ k # c =>
            conn'[Socket(k)] = conn[Socket(k)]
      BY <1>1, <2>1, <2>2
    <2>4. told[c] = "up" /\ conn'[Socket(c)].peer = "up" =>
            /\ conn[Socket(c)].peer = "up"
            /\ conn'[Socket(c)].session = "open"
      BY <1>1, <2>1, <2>2
    <2>5. OneSession(c)
      BY <1>0, <2>1, <2>2, <2>3, <2>4 DEF OneSession, Socket, Expects
    <2> QED BY <2>5
  <1> QED
    BY <1>0, <1>2, <1>3, <1>4, <1>5, <1>6, <1>7, StepKinds

LEMMA SessionsStep ==
  ASSUME OwnInv, SessionInv, NEW c \in Clients, OneSession(c)
  PROVE  Sessions'
  <1> SUFFICES ASSUME NEW k \in Clients, told'[k] = "up",
                      conn[Socket(k)]'.peer = "up"
               PROVE  conn[Socket(k)]'.session = "open"
    BY DEF Sessions
  <1> QED BY DEF SessionInv, Sessions, OneSession

LEMMA SessionInvariant ==
  ASSUME OwnCalls, ~Garbage PROVE ApiSpec => []SessionInv
  <1>1. ApiInit => SessionInv
    BY OwnInit DEF SessionInv, Sessions, ApiInit
  <1>2. SessionInv /\ [ApiNext]_apiVars => SessionInv'
    <2> SUFFICES ASSUME SessionInv, [ApiNext]_apiVars PROVE SessionInv'
      OBVIOUS
    <2>1. CASE UNCHANGED apiVars
      BY <2>1, ApiTypeStep
      DEF apiVars, vars, SessionInv, Sessions, OwnInv, NoFdLeak, ConnectedOwns,
          Socket, Expects
    <2>2. CASE ApiNext
      BY <2>2, SessionStep, SessionsStep, OwnStep DEF SessionInv
    <2> QED BY <2>1, <2>2
  <1> QED BY <1>1, <1>2, PTL DEF ApiSpec

\* The 0 of client_connect stands for an open session on a descriptor of the
\* client's own, for as long as the peer is there and no call has failed.
THEOREM SessionsAreOwned ==
  ASSUME OwnCalls, ~Garbage PROVE ApiSpec => []SessionOwned
  <1>1. SessionInv => SessionOwned
    BY DEF SessionInv, Sessions, OwnInv, ConnectedOwns, SessionOwned, HasPeer, Socket,
           Expects
  <1> QED BY <1>1, SessionInvariant, PTL

-------------------------------------------------------------------------------
(* TcpApi implements MqttSession. *)

\* Under the invariant a session is as told, and lost when its peer has gone
\* or a call has said so.
State(c) == IF ~Expects(c) THEN "closed"
            ELSE IF told[c] = "up" /\ conn[Socket(c)].peer = "up" THEN "open"
            ELSE "lost"

AsTold == \A c \in Clients : SessionOf(c) = State(c)

LEMMA SessionsAreAsTold == SessionInv => AsTold
  <1> SUFFICES ASSUME SessionInv, NEW c \in Clients
               PROVE  SessionOf(c) = State(c)
    BY DEF AsTold
  <1>1. told[c] = "up" => Socket(c) \in Fds /\ fds[Socket(c)] = c
    BY DEF SessionInv, OwnInv, ConnectedOwns, Socket, Expects
  <1>2. told[c] = "up" /\ conn[Socket(c)].peer = "up" =>
          conn[Socket(c)].session = "open"
    BY DEF SessionInv, Sessions
  <1>3. CASE told[c] # "up"
    <2>1. told[c] \in {"nothing", "failed"} \/ told[c] = "warned"
      BY <1>3 DEF SessionInv, OwnInv, ApiTypeOK, Told
    <2> QED BY <1>3, <2>1 DEF SessionOf, State, Expects
  <1>4. CASE told[c] = "up" /\ conn[Socket(c)].peer = "up"
    <2>1. HasPeer(c) /\ conn[Socket(c)].session = "open"
      BY <1>1, <1>2, <1>4 DEF HasPeer
    <2> QED BY <1>1, <1>4, <2>1 DEF SessionOf, State, Expects
  <1>5. CASE told[c] = "up" /\ conn[Socket(c)].peer # "up"
    <2>1. ~HasPeer(c)
      BY <1>5 DEF HasPeer
    <2> QED BY <1>1, <1>5, <2>1 DEF SessionOf, State, Expects
  <1> QED BY <1>3, <1>4, <1>5

\* The variable session of MqttSession.
Seen == [c \in Clients |-> SessionOf(c)]

LEMMA StepOfSessions ==
  ASSUME SessionInv, SessionInv', NEW c \in Clients, OneSession(c)
  PROVE  [Promise!Next]_Seen
  <1>1. AsTold
    BY SessionsAreAsTold
  <1>2. AsTold'
    BY SessionsAreAsTold, PTL
  <1>3. \A k \in Clients : /\ Seen[k] = State(k)
                            /\ Seen'[k] = State(k)'
    BY <1>1, <1>2 DEF AsTold, Seen
  <1>4. \A k \in Clients : k # c => State(k)' = State(k)
    BY DEF OneSession, State, Expects
  <1> DEFINE new == State(c)'
  <1>5. new \in {"closed", "open", "lost"} /\ State(c) \in {"closed", "open", "lost"}
    BY DEF State
  <1>6. ~(State(c) = "lost" /\ new = "open")
    BY DEF OneSession, State, Expects
  <1> HIDE DEF new
  <1>7. Seen' = [Seen EXCEPT ![c] = new]
    <2>1. \A k \in Clients : Seen'[k] = IF k = c THEN new ELSE Seen[k]
      BY <1>3, <1>4 DEF new
    <2>2. Seen = [k \in Clients |-> Seen[k]] /\ Seen' = [k \in Clients |-> Seen'[k]]
      BY DEF Seen
    <2> HIDE DEF Seen
    <2> QED BY <2>1, <2>2
  <1>8. Seen[c] = State(c)
    BY <1>3
  <1>9. Seen[c] # new => Promise!Open(c) \/ Promise!Lose(c) \/ Promise!Close(c)
    BY <1>5, <1>6, <1>7, <1>8
    DEF Promise!Open, Promise!Lose, Promise!Close, Seen
  <1>10. Seen[c] = new => Seen' = Seen
    <2>1. Seen = [k \in Clients |-> Seen[k]]
      BY DEF Seen
    <2> HIDE DEF Seen
    <2> QED BY <1>7, <2>1
  <1> QED BY <1>9, <1>10 DEF Promise!Next

\* The clients of a process keep their sessions apart: every call, with every
\* failure of its send, and every loss of a peer is a step of one client's
\* session in MqttSession, or none.
THEOREM ApiImplementsMqttSession ==
  ASSUME OwnCalls, ~Garbage PROVE ApiSpec => ImplementsMqttSession
  <1>1. ApiInit => Promise!Init
    BY DEF ApiInit, Promise!Init, SessionOf
  <1>2. SessionInv /\ SessionInv' /\ [ApiNext]_apiVars => [Promise!Next]_Seen
    <2> SUFFICES ASSUME SessionInv, SessionInv', [ApiNext]_apiVars
                 PROVE  [Promise!Next]_Seen
      OBVIOUS
    <2>1. CASE UNCHANGED apiVars
      BY <2>1 DEF apiVars, vars, Seen, SessionOf, HasPeer, Socket
    <2>2. CASE ApiNext
      BY <2>2, SessionStep, StepOfSessions
    <2> QED BY <2>1, <2>2
  <1> QED
    BY <1>1, <1>2, SessionInvariant, PTL
    DEF ApiSpec, ImplementsMqttSession, Promise!Spec, Seen

-------------------------------------------------------------------------------
(* The MQTT protocol.  An application that goes on after a failed            *)
(* client_connect keeps to the protocol too, as long as every failure of     *)
(* client_connect is one of the connection or of the send: with a client_id  *)
(* that is NULL or too long no CONNECT is sent, no send has failed, and      *)
(* later packets would be the first ones.                                    *)

NameFits ==
    "ignore" \in ApiUses =>
        "long_name" \notin ApiUses /\ "set_client_id" \notin MayFail

Named == \A c \in Clients : Created(c) => client[c].client_id = "live"

\* The clients whose application may send something.
MayTalk(c) ==
    Expects(c) \/ ("ignore" \in ApiUses /\ phase[c] = "connected")

\* What is sent next on a connection does no harm.
Harmless(k) == k.peer = "up" => k.session = "open" \/ k.failed

ReadyToTalk == \A c \in Clients : MayTalk(c) => Harmless(conn[Socket(c)])

\* ReadyToTalk is lost when the process ends in the middle of client_connect
\* or client_disconnect; nothing is sent any more then.
ProtocolInv ==
    /\ OwnInv
    /\ "ignore" \in ApiUses => Named
    /\ fault = "none" => ReadyToTalk
    /\ ProtocolOK

LEMMA NameStep ==
  ASSUME OwnCalls, "set_client_id" \notin MayFail, ApiTypeOK, Named, ApiNext
  PROVE  Named'
  <1>0. /\ TypeOK /\ fault = "none" /\ "mixed" \notin ApiUses
        /\ client \in [Clients -> ClientStruct]
        /\ phase \in [Clients -> Phases]
        /\ fds \in [Fds -> Clients \cup {NoOwner}]
        /\ "uncreated" \notin Uses
    BY DEF OwnCalls, ApiNext, ApiTypeOK, TypeOK
  <1>1. ASSUME UNCHANGED <<client, phase>> PROVE Named'
    BY <1>1 DEF Named, Created
  <1>2. ASSUME NEW c \in Clients,
               phase'[c] \in {"raw", "destroyed"}
                 \/ client'[c].client_id = "live",
               \A k \in Clients : k # c => /\ phase'[k] = phase[k]
                                           /\ client'[k] = client[k]
        PROVE  Named'
    BY <1>2 DEF Named, Created
  <1>3. ASSUME NEW c \in Clients, ClientConnect(c) PROVE Named'
    <2>1. Created(c)
      BY <1>0, <1>3 DEF ClientConnect, MayConnect, Usable
    <2>2. client[c].client_id = "live"
      BY <2>1 DEF Named
    <2>3. ASSUME NEW d \in Fds, NEW p \in Peers, Connected(c, d, p) PROVE Named'
      <3>1. /\ client'[c].client_id = "live"
            /\ \A k \in Clients : k # c => /\ phase'[k] = phase[k]
                                           /\ client'[k] = client[k]
        BY <1>0, <2>1, <2>2, <2>3
        DEF Connected, ConnectionSucceeds, ClientStruct, Moved
      <3> QED BY <1>2, <3>1
    <2> QED BY <1>0, <1>1, <1>3, <2>3, ClientConnectShape DEF NotConnected
  <1>4. ASSUME NEW c \in Clients, Create(c) PROVE Named'
    <2>1. PICK n \in Sizes, outcome \in DOMAIN BuiltBlocks :
            /\ client' = [client EXCEPT ![c] = Built(@, EffectiveSize(n), outcome)]
            /\ phase' = [phase EXCEPT
                            ![c] = IF outcome = "ok" THEN "created" ELSE "raw"]
      BY <1>4 DEF Create, CreateClient
    <2>2. outcome = "ok" =>
            Built(client[c], EffectiveSize(n), outcome).client_id = "live"
      BY DEF Built
    <2> HIDE DEF Built
    <2> QED BY <1>0, <1>2, <2>1, <2>2
  <1>5. ASSUME NEW c \in Clients, Rename(c) PROVE Named'
    <2>1. \/ UNCHANGED <<client, phase>>
          \/ /\ client' = [client EXCEPT ![c]["client_id"] = "live"]
             /\ UNCHANGED phase
      BY <1>5
      DEF Rename, SetClientId, SetString, Succeeds, Alloc, CrashOfFree, Crash
    <2> QED BY <1>0, <1>1, <1>2, <2>1 DEF ClientStruct
  <1>6. ASSUME NEW c \in Clients, NEW table \in [Fds -> Clients \cup {NoOwner}],
               Destroy(c, table)
        PROVE  Named'
    <2>1. CASE UNCHANGED <<client, phase>>
      BY <1>1, <2>1
    <2>2. CASE /\ client' = [client EXCEPT ![c] = Released(@)]
               /\ phase' = [phase EXCEPT ![c] = "destroyed"]
      BY <1>0, <1>2, <2>2
    <2> QED BY <1>0, <1>6, <2>1, <2>2, DestroyCloses
  <1>7. ASSUME NEW c \in Clients, ClientDisconnect(c) PROVE Named'
    <2>1. CloseFd(fds, client[c].socket) \in [Fds -> Clients \cup {NoOwner}]
      BY <1>0 DEF CloseFd
    <2> QED
      BY <1>0, <1>1, <1>6, <1>7, <2>1, ClientDisconnectShape
      DEF DisconnectShape, SendShape
  <1>8. ASSUME NEW c \in Clients, LeaveBy(DestroyClient(c), c) PROVE Named'
    BY <1>0, <1>6, <1>8 DEF LeaveBy, DestroyClient
  <1>9. ASSUME NEW c \in Clients, ClientPublish(c) PROVE Named'
    BY <1>0, <1>1, <1>9, PublishShape DEF SendShape
  <1>10. ASSUME NEW c \in Clients,
                \/ ClientSubscribe(c) \/ ClientPingreq(c)
                \/ ClientUnsubscribe(c) \/ SendMessage(c)
         PROVE  Named'
    BY <1>1, <1>10
    DEF ClientSubscribe, ClientPingreq, ClientUnsubscribe, SendMessage, SendOnly, vars
  <1>11. ASSUME NEW d \in Fds, PeerGoes(d) PROVE Named'
    BY <1>1, <1>11 DEF PeerGoes, vars
  <1> QED
    BY <1>0, <1>3, <1>4, <1>5, <1>7, <1>8, <1>9, <1>10, <1>11
    DEF ApiNext, ApiCall

LEMMA ProtocolStep ==
  ASSUME OwnCalls, ~Garbage, NameFits, ProtocolInv, ApiNext, OwnInv'
  PROVE  (fault' = "none" => ReadyToTalk') /\ ProtocolOK'
  <1>0. /\ ApiTypeOK /\ conn \in [Fds -> Connection] /\ fault = "none"
        /\ client \in [Clients -> ClientStruct]
        /\ phase \in [Clients -> Phases]
        /\ fds \in [Fds -> Clients \cup {NoOwner}]
        /\ told \in [Clients -> Told]
        /\ NoOwner \notin Clients /\ NoFd \notin Fds
    BY ClientAssumption, StepKinds
    DEF ProtocolInv, OwnInv, ApiTypeOK, TypeOK, NoFd
  <1>1. /\ \A k \in Clients : MayTalk(k) =>
              Socket(k) \in Fds /\ fds[Socket(k)] = k
        /\ \A k \in Clients : Socket(k) \in Fds =>
              fds[Socket(k)] = k /\ phase[k] = "connected"
        /\ \A k \in Clients : MayTalk(k) => Harmless(conn[Socket(k)])
        /\ \A k \in Clients : MayTalk(k) \/ Socket(k) # NoFd =>
              phase[k] = "connected"
        /\ \A d \in Fds : conn[d].session = "broken" => conn[d].failed
    BY <1>0
    DEF ProtocolInv, OwnInv, ConnectedOwns, ReadyToTalk, ProtocolOK, Socket, MayTalk,
        Expects
  \* Where a client may call, it may talk on its descriptor.
  <1>2. \A c \in Clients : MayCall(c) /\ Socket(c) \in Fds => MayTalk(c)
    BY <1>1 DEF MayCall, MayTalk, Expects
  \* Nothing new to be said, and on no other connection.
  <1>3. ASSUME UNCHANGED conn,
               \A k \in Clients : MayTalk(k)' =>
                   MayTalk(k) /\ client'[k].socket = client[k].socket
        PROVE  ReadyToTalk' /\ ProtocolOK'
    BY <1>1, <1>3 DEF ReadyToTalk, ProtocolOK, Socket
  <1>4. ASSUME Quiet PROVE ReadyToTalk' /\ ProtocolOK'
    BY <1>3, <1>4 DEF Quiet, MayTalk, Expects
  <1>5. ASSUME NEW c \in Clients, Talks(c) PROVE ReadyToTalk' /\ ProtocolOK'
    <2>1. PICK o : /\ UNCHANGED <<client, phase>>
                   /\ told' = told \/ told' = Warned(c)
                   /\ conn' = o.conn
                   /\ \/ SentShape(fds, conn, Socket(c), "UNSUBSCRIBE", o)
                      \/ SentShape(fds, conn, Socket(c), "PUBLISH", o)
                      \/ /\ SentShape(fds, conn, Socket(c), "DISCONNECT", o)
                         /\ o.res # "ok"
      BY <1>5 DEF Talks, SendShape, Socket
    <2>2. \A e \in Fds : e # Socket(c) => conn'[e] = conn[e]
      BY <2>1 DEF SentShape
    <2>3. ASSUME Socket(c) \in Fds
          PROVE  /\ conn'[Socket(c)].session = "broken" => conn'[Socket(c)].failed
                 /\ Harmless(conn'[Socket(c)])
      <3>1. MayTalk(c) /\ Harmless(conn[Socket(c)])
        BY <1>1, <1>2, <1>5, <2>3 DEF Talks
      <3> QED BY <1>1, <2>1, <2>3, <3>1 DEF SentShape, NextSession, Harmless
    <2>4. ProtocolOK'
      BY <1>1, <2>2, <2>3 DEF ProtocolOK
    <2>5. \A k \in Clients : MayTalk(k)' = MayTalk(k)
      BY <1>0, <2>1, WarnedType DEF MayTalk, Expects
    <2>6. ReadyToTalk'
      BY <1>1, <2>1, <2>2, <2>3, <2>5 DEF ReadyToTalk, Socket
    <2> QED BY <2>4, <2>6
  <1>6. ASSUME NEW c \in Clients, Creates(c) PROVE ReadyToTalk' /\ ProtocolOK'
    <2>1. /\ ~MayTalk(c)' /\ UNCHANGED conn
          /\ \A k \in Clients : k # c => /\ client'[k] = client[k]
                                         /\ MayTalk(k)' = MayTalk(k)
      BY <1>0, <1>1, <1>6 DEF Creates, Created, MayTalk, Expects
    <2> QED BY <1>3, <2>1
  <1>7. ASSUME NEW c \in Clients, Leaves(c), fault' = "none"
        PROVE  ReadyToTalk'
    <2>1. /\ ~MayTalk(c)'
          /\ \A k \in Clients : k # c => /\ client'[k] = client[k]
                                         /\ MayTalk(k)' = MayTalk(k)
      BY <1>0, <1>7 DEF Leaves, MayTalk, Expects
    <2>2. ASSUME NEW k \in Clients, k # c, MayTalk(k)
          PROVE  conn'[Socket(k)] = conn[Socket(k)]
      <3>1. Socket(k) \in Fds /\ Socket(k) # Socket(c)
        BY <1>1, <2>2
      <3> QED BY <1>7, <3>1 DEF Leaves, SentShape
    <2> QED BY <1>1, <2>1, <2>2 DEF ReadyToTalk, Socket
  <1>8. ASSUME NEW c \in Clients, Leaves(c) PROVE ProtocolOK'
    <2>1. CASE UNCHANGED conn
      BY <1>1, <2>1 DEF ProtocolOK
    <2>2. ASSUME MayCall(c), NEW o, conn' = o.conn,
                 SentShape(fds, conn, Socket(c), "DISCONNECT", o)
          PROVE  ProtocolOK'
      <3>1. \A e \in Fds : e # Socket(c) => conn'[e] = conn[e]
        BY <2>2 DEF SentShape
      <3>2. Socket(c) \in Fds /\ conn'[Socket(c)].session = "broken" =>
              conn'[Socket(c)].failed
        BY <1>1, <1>2, <2>2 DEF SentShape, NextSession, Harmless
      <3> QED BY <1>1, <3>1, <3>2 DEF ProtocolOK
    <2> QED BY <1>8, <2>1, <2>2 DEF Leaves
  <1>9. ASSUME NEW c \in Clients, ClientConnect(c), phase[c] # "connected"
        PROVE  (fault' = "none" => ReadyToTalk') /\ ProtocolOK'
    <2>1. ~MayTalk(c) /\ Socket(c) = NoFd
      BY <1>1, <1>9 DEF MayTalk
    <2>2. ASSUME UNCHANGED <<client, conn, phase>>,
                 told' = told \/ told' = [told EXCEPT ![c] = "failed"]
          PROVE  ReadyToTalk' /\ ProtocolOK'
      <3>1. \A k \in Clients : MayTalk(k)' => MayTalk(k)
        BY <1>0, <2>2 DEF MayTalk, Expects
      <3> QED BY <1>3, <2>2, <3>1
    <2>3. ASSUME NEW d \in Fds, NEW p \in Peers, Connected(c, d, p)
          PROVE  (fault' = "none" => ReadyToTalk') /\ ProtocolOK'
      <3> DEFINE new == [conn EXCEPT ![d] = New(p)]
      <3>1. /\ Socket(c)' = d /\ fds[d] = NoOwner
            /\ \A k \in Clients : k # c => /\ Socket(k)' = Socket(k)
                                           /\ phase'[k] = phase[k]
        BY <1>0, <2>3, MovedType
        DEF Connected, ConnectionSucceeds, ClientStruct, Socket, Phases
      <3>2. new[d] = New(p) /\ \A e \in Fds : e # d => new[e] = conn[e]
        BY <1>0
      <3>3. ConnectShape(c, new)
        BY <2>3 DEF Connected
      <3> HIDE DEF new
      <3>4. \A k \in Clients : k # c => MayTalk(k)' = MayTalk(k)
        BY <1>0, <3>1, <3>3 DEF ConnectShape, MayTalk, Expects
      <3>5. \A e \in Fds : e # d => conn'[e] = conn[e]
        BY <3>1, <3>2, <3>3 DEF ConnectShape, SentShape, Socket
      <3>6. ASSUME NEW k \in Clients, k # c, MayTalk(k)
            PROVE  conn'[Socket(k)] = conn[Socket(k)]
        BY <1>0, <1>1, <3>1, <3>5, <3>6
      <3>7. ASSUME NEW o, SentShape(fds', new, d, "CONNECT", o)
            PROVE  /\ o.conn[d].session = "broken" => o.conn[d].failed
                   /\ Harmless(o.conn[d])
        <4>1. fds'[d] # NoOwner
          BY <1>0, <2>3 DEF Connected, ConnectionSucceeds, OpenFd
        <4>2. new[d].session = "fresh" /\ ~new[d].failed
          BY <3>2 DEF New
        <4>3. CASE o.res = "ok"
          BY <3>7, <4>1, <4>2, <4>3 DEF SentShape, NextSession, Harmless
        <4>4. CASE o.res # "ok"
          BY <3>7, <4>1, <4>4 DEF SentShape, Harmless
        <4> QED BY <4>3, <4>4
      <3>8. conn'[d].session = "broken" => conn'[d].failed
        BY <3>1, <3>2, <3>3, <3>7 DEF ConnectShape, New, Socket
      <3>9. ASSUME fault' = "none", MayTalk(c)'
            PROVE  Harmless(conn'[d])
        <4>1. CASE \E o : SentShape(fds', new, d, "CONNECT", o) /\ conn' = o.conn
          BY <3>7, <3>9, <4>1
        <4>2. CASE /\ client[c].client_id = "null" \/ "long_name" \in ApiUses
                   /\ told' = [told EXCEPT ![c] = "failed"]
          <5>1. "ignore" \in ApiUses
            BY <1>0, <3>9, <4>2 DEF MayTalk, Expects
          <5>2. "long_name" \notin ApiUses /\ Named
            BY <5>1 DEF NameFits, ProtocolInv
          <5>3. Created(c)
            BY <1>9 DEF ClientConnect, MayConnect, Usable, OwnCalls
          <5> QED BY <4>2, <5>2, <5>3 DEF Named
        <4> QED BY <3>1, <3>3, <3>9, <4>1, <4>2 DEF ConnectShape, Socket
      <3>10. ProtocolOK'
        BY <1>1, <3>5, <3>8 DEF ProtocolOK
      <3>11. fault' = "none" => ReadyToTalk'
        BY <1>1, <3>1, <3>4, <3>6, <3>9 DEF ReadyToTalk, Socket
      <3> QED BY <3>10, <3>11
    <2> QED
      BY <1>0, <1>9, <2>1, <2>2, <2>3, ClientConnectShape, ConnectWithoutDescriptor
      DEF NotConnected
  <1>10. ASSUME NEW d \in Fds, PeerGoes(d) PROVE ReadyToTalk' /\ ProtocolOK'
    <2>1. /\ UNCHANGED <<client, told, phase>>
          /\ conn'[d].peer # "up" /\ conn'[d].session = conn[d].session
          /\ conn'[d].failed = conn[d].failed
          /\ \A e \in Fds : e # d => conn'[e] = conn[e]
      BY <1>0, <1>10 DEF PeerGoes, vars, Connection
    <2>2. ProtocolOK'
      BY <1>1, <2>1 DEF ProtocolOK
    <2>3. ReadyToTalk'
      BY <1>1, <2>1 DEF ReadyToTalk, MayTalk, Expects, Harmless, Socket
    <2> QED BY <2>2, <2>3
  <1> QED
    BY <1>0, <1>4, <1>5, <1>6, <1>7, <1>8, <1>9, <1>10, StepKinds

\* On no connection does a client of this API ever send anything before or
\* after the MQTT session, a second CONNECT, or less than a whole packet,
\* unless a send on it was reported to have failed.
THEOREM ProtocolKept ==
  ASSUME OwnCalls, ~Garbage, NameFits PROVE ApiSpec => []ProtocolOK
  <1>1. ApiInit => ProtocolInv
    BY OwnInit
    DEF ProtocolInv, Named, ReadyToTalk, MayTalk, Expects, ProtocolOK, ApiInit, Init,
        New, Created
  <1>2. ProtocolInv /\ [ApiNext]_apiVars => ProtocolInv'
    <2> SUFFICES ASSUME ProtocolInv, [ApiNext]_apiVars PROVE ProtocolInv'
      OBVIOUS
    <2>1. CASE UNCHANGED apiVars
      BY <2>1, ApiTypeStep
      DEF apiVars, vars, ProtocolInv, Named, ReadyToTalk, MayTalk, ProtocolOK,
          OwnInv, NoFdLeak, ConnectedOwns, Socket, Created, Expects
    <2>2. CASE ApiNext
      <3>1. OwnInv'
        BY <2>2, OwnStep DEF ProtocolInv
      <3>2. "ignore" \in ApiUses => Named'
        BY <2>2, NameStep DEF ProtocolInv, OwnInv, NameFits
      <3> QED BY <2>2, <3>1, <3>2, ProtocolStep DEF ProtocolInv
    <2> QED BY <2>1, <2>2
  <1>3. ProtocolInv => ProtocolOK
    BY DEF ProtocolInv
  <1> QED BY <1>1, <1>2, <1>3, PTL DEF ApiSpec

===============================================================================
