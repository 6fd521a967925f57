----------------------------- MODULE DpubsubProofs -----------------------------
(* Theorems about Dpubsub for any clients, descriptors and use. *)
EXTENDS Dpubsub, TcpApiProofs

-------------------------------------------------------------------------------
(* The facade over TcpApi: a call that it hands on is a call of TcpApi, one  *)
(* that it does not hand on leaves clients and connections alone, and        *)
(* client_disconnect is one call in two steps.                               *)

Aside ==
    /\ UNCHANGED <<vars, conn>>
    /\ told' \in [Clients -> Told]
    /\ last' \in Calls \cup {NoCall}

LEMMA NotForwardedAside ==
  ASSUME ApiTypeOK, NEW c \in Clients, NEW p, NotForwarded(c, p)
  PROVE  Aside
  <1>1. told \in [Clients -> Told]
    BY DEF ApiTypeOK
  <1>2. \A b \in BOOLEAN : [told EXCEPT ![c] = IF b THEN "up" ELSE "failed"]
          \in [Clients -> Told]
    BY <1>1 DEF Told
  <1>3. \A op \in Ops, ret \in {"ok", "err", "none"} :
          [op |-> op, client |-> c, ret |-> ret] \in Calls
    BY DEF Calls
  <1>4. CASE \E up \in BOOLEAN :
               /\ told' = [told EXCEPT ![c] = IF up THEN "up" ELSE "failed"]
               /\ Return("client_connect", c, IF up THEN "ok" ELSE "err")
    BY <1>2, <1>3, <1>4 DEF NotForwarded, Aside, Return, Ops
  <1>5. CASE /\ \E op \in {"client_disconnect", "client_pingreq"}, ret \in {"ok", "err"} :
                    Return(op, c, ret)
             /\ UNCHANGED told
    BY <1>1, <1>3, <1>5 DEF NotForwarded, Aside, Return, Ops
  <1>6. CASE last' = NoCall /\ UNCHANGED told
    BY <1>1, <1>6 DEF NotForwarded, Aside
  <1> QED BY <1>4, <1>5, <1>6 DEF NotForwarded

\* What a call of the facade is to TcpApi.
HandsOn(c) ==
    \/ ApiCall(c)
    \/ Aside
    \/ DisconnectCloses(c)

LEMMA CallHandedOn ==
  ASSUME ApiTypeOK, NEW c \in Clients, DpCall(c)
  PROVE  HandsOn(c)
  <1>1. ASSUME NEW p \in Protocols, NotForwarded(c, p)
        PROVE  Aside
    BY <1>1, NotForwardedAside
  <1>2. ASSUME NoApiCall PROVE Aside
    BY <1>2 DEF NoApiCall, Aside, ApiTypeOK
  <1>3. ASSUME Plain(MayCall(c) /\ DisconnectRefused(c)) PROVE ClientDisconnect(c)
    BY <1>3 DEF Plain, ClientDisconnect
  <1>4. ASSUME NEW p \in Protocols,
               \/ DpubsubConfig(c, p) \/ DpubsubConnect(c, p)
               \/ DpubsubDisconnect(c, p) \/ DpubsubPingreq(c, p)
        PROVE  HandsOn(c)
    BY <1>3, <1>4
    DEF DpubsubConfig, DpubsubConnect, DpubsubDisconnect, DpubsubPingreq,
        Disconnecting, Plain, ApiCall, HandsOn
  <1>5. ASSUME NEW p \in Protocols, Plain(NotForwarded(c, p)) PROVE HandsOn(c)
    BY <1>1, <1>5 DEF Plain, HandsOn
  <1>6. CASE \/ DpubsubSubscribe(c) \/ DpubsubUnsubscribe(c) \/ DpubsubPublish(c)
             \/ Plain(SendMessage(c)) \/ Plain(LeaveBy(DestroyClient(c), c))
             \/ Beside(c)
    BY <1>6
    DEF DpubsubSubscribe, DpubsubUnsubscribe, DpubsubPublish, Plain, Publishing,
        Beside, ApiCall, HandsOn
  <1>7. ASSUME \/ DisconnectFails(c)
               \/ \E to \in Callbacks \ {"wild"} : DefineCallbacks(c, to)
        PROVE  HandsOn(c)
    BY <1>2, <1>7 DEF DisconnectFails, DefineCallbacks, HandsOn
  <1> QED BY <1>4, <1>5, <1>6, <1>7 DEF DpCall

LEMMA HandedOn ==
  ASSUME ApiTypeOK, [DpNext]_dpVars
  PROVE  \/ [ApiNext]_apiVars
         \/ Aside
         \/ \E c \in Clients : DisconnectCloses(c) \/ DisconnectReturns(c)
  <1>1. CASE UNCHANGED dpVars
    BY <1>1 DEF dpVars
  <1>2. ASSUME fault = "none", NEW c \in Clients, DpCall(c)
        PROVE  ApiNext \/ Aside \/ DisconnectCloses(c)
    BY <1>2, CallHandedOn DEF HandsOn, ApiNext
  <1>3. ASSUME fault = "none", NEW d \in Fds, Plain(PeerGoes(d)) PROVE ApiNext
    BY <1>3 DEF Plain, ApiNext
  <1> QED BY <1>1, <1>2, <1>3 DEF DpNext

\* What the calls of TcpApi preserve, whatever the facade adds.
LEMMA AsideLeaves ==
  ASSUME Aside PROVE UNCHANGED <<client, fds, heap, phase, fault, conn>>
  BY DEF Aside, vars

LEMMA AsideType == ApiTypeOK /\ Aside => ApiTypeOK'
  <1> SUFFICES ASSUME ApiTypeOK, Aside PROVE ApiTypeOK'
    OBVIOUS
  <1>1. TypeOK'
    BY AsideLeaves DEF ApiTypeOK, TypeOK
  <1> QED BY <1>1, AsideLeaves DEF Aside, ApiTypeOK

LEMMA ClosesType ==
  ASSUME ApiTypeOK, NEW c \in Clients, DisconnectCloses(c)
  PROVE  ApiTypeOK'
  <1>0. /\ client \in [Clients -> ClientStruct]
        /\ fds \in [Fds -> Clients \cup {NoOwner}]
        /\ heap \in [Clients -> Int]
        /\ phase \in [Clients -> Phases]
        /\ fault \in Faults
        /\ told \in [Clients -> Told]
    BY DEF ApiTypeOK, TypeOK
  <1>1. fds' \in [Fds -> Clients \cup {NoOwner}]
    BY <1>0 DEF DisconnectCloses, CloseFd
  <1>2. phase' \in [Clients -> Phases]
    BY <1>0, MovedType DEF DisconnectCloses, Phases
  <1>3. TypeOK'
    BY <1>0, <1>1, <1>2 DEF DisconnectCloses, TypeOK
  <1>4. conn' \in [Fds -> Connection]
    BY DisconnectSentShape DEF DisconnectCloses
  <1> QED BY <1>0, <1>3, <1>4 DEF DisconnectCloses, ApiTypeOK

LEMMA ReturnsType ==
  ASSUME ApiTypeOK, NEW c \in Clients, DisconnectReturns(c)
  PROVE  ApiTypeOK'
  <1>0. /\ fds \in [Fds -> Clients \cup {NoOwner}]
        /\ conn \in [Fds -> Connection]
        /\ told \in [Clients -> Told]
    BY DEF ApiTypeOK, TypeOK
  <1>1. TypeOK'
    BY <1>0, DestroyType DEF DisconnectReturns, ApiTypeOK
  <1>2. told' \in [Clients -> Told]
    BY <1>0 DEF DisconnectReturns, Told
  <1>3. last' \in Calls
    BY DEF DisconnectReturns, Return, Calls, Ops
  <1> QED BY <1>0, <1>1, <1>2, <1>3 DEF DisconnectReturns, ApiTypeOK

LEMMA ApiTypeKept == ApiTypeOK /\ [DpNext]_dpVars => ApiTypeOK'
  BY HandedOn, ApiTypeStep, AsideType, ClosesType, ReturnsType

LEMMA InvokedType ==
  ASSUME NEW c \in Clients, NEW name \in {"wild", "on_publish", "on_disconnect"}
  PROVE  /\ Invoked(c, name) \in Invocations
         /\ Invoked(c, name).callback = name
         /\ Invoked(c, name).client = c
  BY DEF Invoked, Invocations

LEMMA InvokeType ==
  ASSUME NEW c \in Clients, callbacks[c] \in Callbacks,
         NEW name \in {"on_publish", "on_disconnect"}, Invoke(c, name)
  PROVE  /\ called' \in Invocations
         /\ called'.callback = "wild" =>
              callbacks[c] = "wild" /\ called'.client = c
         /\ called'.callback \in {name, "none", "wild"}
  <1>1. NoInvocation \in Invocations /\ NoInvocation.callback = "none"
    BY DEF Invocations, NoInvocation
  <1>2. /\ Invoked(c, name) \in Invocations
        /\ Invoked(c, name).callback = name
        /\ Invoked(c, "wild") \in Invocations
        /\ Invoked(c, "wild").callback = "wild"
        /\ Invoked(c, "wild").client = c
    BY InvokedType
  <1>3. CASE callbacks[c] \in {"default", "own"}
    BY <1>2, <1>3 DEF Invoke
  <1>4. CASE callbacks[c] = "null"
    BY <1>1, <1>4 DEF Invoke
  <1>5. CASE callbacks[c] = "wild"
    BY <1>1, <1>2, <1>5 DEF Invoke
  <1> QED BY <1>3, <1>4, <1>5 DEF Callbacks

\* The invocations that can follow the call c makes of disconnect_client.
LEMMA InvokedIfClosedType ==
  ASSUME NEW c \in Clients, callbacks[c] \in Callbacks, InvokedIfClosed(c)
  PROVE  /\ called' \in Invocations
         /\ called'.callback = "wild" =>
              callbacks[c] = "wild" /\ called'.client = c
         /\ called'.callback # "on_publish"
         /\ called'.callback = "on_disconnect" =>
              Socket(c) \in Fds /\ fds[Socket(c)] # NoOwner
  <1>1. NoInvocation \in Invocations /\ NoInvocation.callback = "none"
    BY DEF Invocations, NoInvocation
  <1>2. CASE Socket(c) \in Fds /\ fds[Socket(c)] # NoOwner
    BY <1>2, InvokeType DEF InvokedIfClosed
  <1>3. CASE ~(Socket(c) \in Fds /\ fds[Socket(c)] # NoOwner)
    BY <1>1, <1>3 DEF InvokedIfClosed, NothingCalled
  <1> QED BY <1>2, <1>3

LEMMA NothingCalledType ==
  ASSUME NothingCalled
  PROVE  called' \in Invocations /\ called'.callback = "none"
  BY DEF NothingCalled, NoInvocation, Invocations

LEMMA DpTypeStep == DpTypeOK /\ [DpNext]_dpVars => DpTypeOK'
  <1> DEFINE Kept == /\ callbacks' \in [Clients -> Callbacks]
                     /\ called' \in Invocations
                     /\ inside' \in Insides
  <1> SUFFICES ASSUME DpTypeOK, [DpNext]_dpVars PROVE Kept
    BY ApiTypeKept DEF DpTypeOK
  <1>0. /\ callbacks \in [Clients -> Callbacks]
        /\ called \in Invocations
        /\ inside \in Insides
        /\ Outside \in Insides
    BY DEF DpTypeOK, Insides
  <1>1. CASE UNCHANGED dpVars
    BY <1>0, <1>1 DEF dpVars
  <1>2. ASSUME NEW call, Plain(call) PROVE Kept
    BY <1>0, <1>2, NothingCalledType DEF Plain
  <1>3. ASSUME NEW c \in Clients, NEW p, DpubsubConfig(c, p) PROVE Kept
    <2>1. callbacks' \in [Clients -> Callbacks]
      BY <1>0, <1>3 DEF DpubsubConfig, CallbacksCreated, Callbacks
    <2> QED BY <1>0, <1>3, <2>1, NothingCalledType DEF DpubsubConfig
  <1>4. ASSUME NEW c \in Clients, DisconnectCloses(c) PROVE Kept
    <2>1. called' \in Invocations
      BY <1>0, <1>4, InvokedIfClosedType DEF DisconnectCloses
    <2>2. inside' \in Insides
      BY <1>4 DEF DisconnectCloses, Insides
    <2> QED BY <1>0, <1>4, <2>1, <2>2 DEF DisconnectCloses
  <1>5. ASSUME NEW c \in Clients, DisconnectReturns(c) PROVE Kept
    BY <1>0, <1>5, NothingCalledType DEF DisconnectReturns
  <1>6. ASSUME NEW c \in Clients, Publishing(c) PROVE Kept
    <2>1. called' \in Invocations
      BY <1>0, <1>6, InvokeType, NothingCalledType DEF Publishing
    <2> QED BY <1>0, <1>6, <2>1 DEF Publishing
  <1>7. ASSUME NEW c \in Clients, Beside(c) \/ DisconnectFails(c) PROVE Kept
    <2>1. called' \in Invocations
      BY <1>0, <1>7, InvokedIfClosedType, NothingCalledType
      DEF Beside, DisconnectFails
    <2> QED BY <1>0, <1>7, <2>1 DEF Beside, DisconnectFails
  <1>8. ASSUME NEW c \in Clients, NEW to \in Callbacks, DefineCallbacks(c, to)
        PROVE  Kept
    BY <1>0, <1>8, NothingCalledType DEF DefineCallbacks
  <1> HIDE DEF Kept
  <1>9. ASSUME NEW c \in Clients, DpCall(c) PROVE Kept
    BY <1>2, <1>3, <1>4, <1>6, <1>7, <1>8, <1>9
    DEF DpCall, DpubsubConnect, DpubsubDisconnect, DpubsubPingreq,
        DpubsubSubscribe, DpubsubUnsubscribe, DpubsubPublish, Disconnecting
  <1> QED BY <1>1, <1>2, <1>5, <1>9 DEF DpNext

LEMMA DpInitType == DpInit => DpTypeOK
  BY ApiInitType DEF DpInit, DpTypeOK, Invocations, Callbacks, Insides

\* Through the facade too every field, connection, result and callback keeps
\* its type, also when the facade hands nothing on and when the callback of a
\* disconnection makes further calls.
THEOREM DpTypeCorrect == DpSpec => []DpTypeOK
  BY DpInitType, DpTypeStep, PTL DEF DpSpec

-------------------------------------------------------------------------------
(* What TcpApi keeps up is kept up under the facade. *)

LEMMA ClosesEnded ==
  ASSUME EndedInv, NEW c \in Clients, fault = "none", DisconnectCloses(c)
  PROVE  EndedIsClosed'
  <1> SUFFICES ASSUME NEW e \in Fds, conn'[e].session = "ended"
               PROVE  fds'[e] = NoOwner
    BY DEF EndedIsClosed
  <1>0. /\ ApiTypeOK /\ fds \in [Fds -> Clients \cup {NoOwner}]
        /\ fds' = CloseFd(fds, client[c].socket)
    BY DEF EndedInv, ApiTypeOK, TypeOK, DisconnectCloses, Socket
  <1>1. CASE e = client[c].socket
    BY <1>0, <1>1 DEF CloseFd
  <1>2. CASE e # client[c].socket
    <2>1. conn'[e] = conn[e]
      <3>1. PICK o : /\ SentShape(fds, conn, client[c].socket, "DISCONNECT", o)
                     /\ conn' = o.conn
        BY <1>0, DisconnectSentShape DEF DisconnectCloses
      <3> QED BY <1>2, <3>1 DEF SentShape
    <2>2. fds[e] = NoOwner
      BY <2>1 DEF EndedInv, EndedIsClosed
    <2> QED BY <1>0, <1>2, <2>2 DEF CloseFd
  <1> QED BY <1>1, <1>2

LEMMA ReturnsEnded ==
  ASSUME EndedInv, NEW c \in Clients, fault = "none", DisconnectReturns(c)
  PROVE  EndedIsClosed'
  <1> SUFFICES ASSUME NEW e \in Fds, conn'[e].session = "ended"
               PROVE  fds'[e] = NoOwner
    BY DEF EndedIsClosed
  <1>1. TypeOK /\ fds \in [Fds -> Clients \cup {NoOwner}]
    BY DEF EndedInv, ApiTypeOK, TypeOK
  <1>2. fds[e] = NoOwner
    BY DEF EndedInv, EndedIsClosed, DisconnectReturns
  <1>3. fds'[e] = fds[e] \/ fds'[e] = NoOwner
    BY <1>1, DestroyCloses DEF DisconnectReturns
  <1> QED BY <1>2, <1>3

\* client_disconnect does not leave the connection open on which it has sent
\* DISCONNECT, neither after its callback nor while the callback runs, though
\* the number may have been given away again by then.
THEOREM FacadeClosesEnded == DpSpec => []EndedIsClosed
  <1> DEFINE Inv == DpTypeOK /\ EndedInv
  <1>1. DpInit => Inv
    BY DpInitType DEF DpInit, ApiInit, New, EndedInv, EndedIsClosed, DpTypeOK
  <1>2. Inv /\ [DpNext]_dpVars => Inv'
    <2> SUFFICES ASSUME DpTypeOK, EndedInv, [DpNext]_dpVars
                 PROVE  DpTypeOK' /\ EndedInv'
      OBVIOUS
    <2>1. DpTypeOK' /\ ApiTypeOK /\ ApiTypeOK'
      BY DpTypeStep DEF DpTypeOK
    <2>2. CASE [ApiNext]_apiVars
      BY <2>1, <2>2, EndedStep
    <2>3. CASE Aside
      BY <2>1, <2>3, AsideLeaves DEF EndedInv, EndedIsClosed
    <2>4. ASSUME NEW c \in Clients, DisconnectCloses(c) PROVE EndedInv'
      <3>1. CASE fault = "none"
        BY <2>1, <2>4, <3>1, ClosesEnded DEF EndedInv
      <3>2. CASE fault # "none"
        BY <2>1, <2>4, <3>2 DEF EndedInv, EndedIsClosed, DisconnectCloses
      <3> QED BY <3>1, <3>2
    <2>5. ASSUME NEW c \in Clients, DisconnectReturns(c) PROVE EndedInv'
      <3>1. CASE fault = "none"
        BY <2>1, <2>5, <3>1, ReturnsEnded DEF EndedInv
      <3>2. CASE fault # "none"
        BY <2>1, <2>5, <3>2
        DEF EndedInv, EndedIsClosed, DisconnectReturns, Destroy, CrashOfFree, Crash
      <3> QED BY <3>1, <3>2
    <2> QED BY <2>1, <2>2, <2>3, <2>4, <2>5, HandedOn
  <1>3. Inv => EndedIsClosed
    BY DEF EndedInv
  <1> QED BY <1>1, <1>2, <1>3, PTL DEF DpSpec

-------------------------------------------------------------------------------
(* Callbacks.  That no pointer of a created client is wild is not inductive  *)
(* for the pointer that was followed: a client must have had its callbacks   *)
(* set as long as it counts as created.                                      *)

CallbacksSet == \A c \in Clients : Created(c) => callbacks[c] # "wild"

CallbackInv ==
    /\ DpTypeOK
    /\ NoWildCallback
    /\ CallbacksSet

\* What no call but create_client does: make a client that can be used.
MakesNone == \A k \in Clients : Created(k)' => Created(k)

LEMMA DestroyMakesNone ==
  ASSUME TypeOK, NEW c \in Clients, NEW table, Destroy(c, table)
  PROVE  MakesNone
  <1>1. phase' = phase \/ phase' = [phase EXCEPT ![c] = "destroyed"]
    BY DEF Destroy, CrashOfFree, Crash
  <1> QED BY <1>1 DEF MakesNone, Created, TypeOK

LEMMA MovedMakesNone ==
  ASSUME TypeOK, NEW c \in Clients, NEW p \in Phases, phase' = Moved(c, p)
  PROVE  MakesNone
  <1>1. /\ \A k \in Clients : k # c => phase'[k] = phase[k]
        /\ phase'[c] = IF Created(c) THEN p ELSE phase[c]
    BY MovedType DEF TypeOK
  <1> QED BY <1>1 DEF MakesNone, Created

LEMMA CallOnMakesNone ==
  ASSUME TypeOK, NEW c \in Clients, CallOn(c)
  PROVE  MakesNone
  <1>1. CASE UNCHANGED phase
    BY <1>1 DEF MakesNone, Created
  <1>2. CASE DestroyClient(c)
    BY <1>2, DestroyMakesNone DEF DestroyClient
  <1>3. CASE ConnectClient(c)
    BY <1>1, <1>3, MovedMakesNone
    DEF ConnectClient, Crash, ConnectionFails, ConnectionSucceeds, Phases
  <1>4. CASE DisconnectClient(c)
    BY <1>4, MovedMakesNone DEF DisconnectClient, Phases
  <1>5. CASE \/ SetSocketFd(c) \/ SetBrokerIp(c) \/ SetClientId(c) \/ SetConfig(c)
             \/ SetBufferSize(c) \/ SetBuffer(c) \/ ReceiveMessage(c)
    BY <1>1, <1>5
    DEF SetSocketFd, SetBrokerIp, SetClientId, SetString, SetConfig, SetBufferSize,
        SetBuffer, ReceiveMessage, CrashOfFree, Crash
  <1> QED BY <1>2, <1>3, <1>4, <1>5 DEF CallOn

\* A step of DisconnectClient closes the descriptor in the socket field.
LEMMA DisconnectedBy ==
  ASSUME TypeOK, NEW c \in Clients, DisconnectClient(c), Socket(c) \in Fds
  PROVE  fds'[Socket(c)] = NoOwner
  BY DEF TypeOK, DisconnectClient, CloseFd, Socket

LEMMA ApiMakesNone ==
  ASSUME ApiTypeOK, fault = "none", NEW c \in Clients,
         \/ ClientConnect(c) \/ ClientSubscribe(c) \/ ClientUnsubscribe(c)
         \/ ClientPublish(c) \/ ClientPingreq(c) \/ SendMessage(c)
         \/ DisconnectRefused(c) \/ LeaveBy(DestroyClient(c), c)
  PROVE  MakesNone
  <1>0. TypeOK
    BY DEF ApiTypeOK
  <1>1. CASE UNCHANGED phase
    BY <1>1 DEF MakesNone, Created
  <1>2. CASE ClientConnect(c)
    <2>1. phase' = phase \/ phase' = Moved(c, "connected")
      BY <1>2, ClientConnectShape
      DEF Connected, NotConnected, ConnectionSucceeds
    <2> QED BY <1>0, <1>1, <2>1, MovedMakesNone DEF Phases
  <1>3. CASE LeaveBy(DestroyClient(c), c)
    BY <1>0, <1>3, DestroyMakesNone DEF LeaveBy, DestroyClient
  <1>4. CASE \/ ClientSubscribe(c) \/ ClientUnsubscribe(c) \/ ClientPublish(c)
             \/ ClientPingreq(c) \/ SendMessage(c) \/ DisconnectRefused(c)
    BY <1>1, <1>4, PublishShape
    DEF ClientSubscribe, ClientPingreq, ClientUnsubscribe, SendMessage, SendOnly,
        SendShape, DisconnectRefused, vars
  <1> QED BY <1>2, <1>3, <1>4

LEMMA CallbackStep == CallbackInv /\ [DpNext]_dpVars => CallbackInv'
  <1> DEFINE Kept == NoWildCallback' /\ CallbacksSet'
  <1> SUFFICES ASSUME CallbackInv, [DpNext]_dpVars PROVE Kept
    BY DpTypeStep DEF CallbackInv
  <1>0. /\ ApiTypeOK /\ TypeOK
        /\ phase \in [Clients -> Phases]
        /\ callbacks \in [Clients -> Callbacks]
        /\ CallbacksSet
    BY DEF CallbackInv, DpTypeOK, ApiTypeOK, TypeOK
  <1>1. CASE UNCHANGED dpVars
    BY <1>0, <1>1
    DEF dpVars, apiVars, vars, CallbackInv, NoWildCallback, CallbacksSet, Created
  \* A call that creates nothing and invokes at most a callback of its client.
  <1>2. ASSUME NEW c \in Clients, UNCHANGED callbacks, MakesNone,
               called'.callback = "wild" =>
                  callbacks[c] = "wild" /\ called'.client = c
        PROVE  Kept
    <2>1. CallbacksSet'
      BY <1>0, <1>2 DEF CallbacksSet, MakesNone
    <2>2. ASSUME called'.callback = "wild" PROVE ~Created(called.client)'
      BY <1>0, <1>2, <2>2 DEF CallbacksSet, MakesNone
    <2> QED BY <2>1, <2>2 DEF NoWildCallback
  <1>3. ASSUME UNCHANGED <<callbacks, vars>>, NothingCalled PROVE Kept
    BY <1>0, <1>3, NothingCalledType DEF Created, vars, NoWildCallback, CallbacksSet
  <1>4. ASSUME fault = "none", NEW c \in Clients,
               \/ Plain(ClientConnect(c)) \/ Plain(ClientPingreq(c))
               \/ Plain(ClientSubscribe(c)) \/ Plain(ClientUnsubscribe(c))
               \/ Plain(SendMessage(c)) \/ Plain(LeaveBy(DestroyClient(c), c))
               \/ Plain(MayCall(c) /\ DisconnectRefused(c))
        PROVE  Kept
    <2>1. UNCHANGED callbacks /\ NothingCalled
      BY <1>4 DEF Plain
    <2>2. MakesNone
      BY <1>0, <1>4, ApiMakesNone DEF Plain
    <2> QED BY <1>2, <2>1, <2>2, NothingCalledType
  <1>5. ASSUME NEW c \in Clients, DisconnectCloses(c) PROVE Kept
    <2>1. MakesNone
      BY <1>0, <1>5, MovedMakesNone DEF DisconnectCloses, Phases
    <2>2. called'.callback = "wild" => callbacks[c] = "wild" /\ called'.client = c
      BY <1>0, <1>5, InvokedIfClosedType DEF DisconnectCloses
    <2> QED BY <1>2, <1>5, <2>1, <2>2 DEF DisconnectCloses
  <1>6. ASSUME NEW c \in Clients, DisconnectReturns(c) PROVE Kept
    <2>1. MakesNone
      BY <1>0, <1>6, DestroyMakesNone DEF DisconnectReturns
    <2> QED BY <1>2, <1>6, <2>1, NothingCalledType DEF DisconnectReturns
  <1>7. ASSUME fault = "none", NEW c \in Clients, Publishing(c) PROVE Kept
    <2>1. MakesNone
      BY <1>0, <1>7, ApiMakesNone DEF Publishing
    <2>2. called'.callback = "wild" => callbacks[c] = "wild" /\ called'.client = c
      BY <1>0, <1>7, InvokeType, NothingCalledType DEF Publishing
    <2> QED BY <1>2, <1>7, <2>1, <2>2 DEF Publishing
  <1>8. ASSUME NEW c \in Clients, NEW p, DpubsubConfig(c, p) PROVE Kept
    <2>1. /\ phase'[c] \in {"raw", "created"}
          /\ \A k \in Clients : k # c => phase'[k] = phase[k]
      BY <1>0, <1>8 DEF DpubsubConfig, Create, CreateClient
    <2>2. callbacks' = [callbacks EXCEPT
                          ![c] = IF phase'[c] = "created" THEN "default" ELSE @]
      BY <1>8 DEF DpubsubConfig, CallbacksCreated
    <2>3. CallbacksSet'
      BY <1>0, <2>1, <2>2 DEF Created, CallbacksSet
    <2> QED BY <1>8, <2>3, NothingCalledType DEF DpubsubConfig, NoWildCallback
  <1>9. ASSUME NEW c \in Clients, Beside(c) PROVE Kept
    <2>1. MakesNone
      BY <1>0, <1>9, CallOnMakesNone DEF Beside, DirectCall
    <2>2. called'.callback = "wild" => callbacks[c] = "wild" /\ called'.client = c
      BY <1>0, <1>9, InvokedIfClosedType, NothingCalledType DEF Beside
    <2> QED BY <1>2, <1>9, <2>1, <2>2 DEF Beside
  <1>10. ASSUME NEW c \in Clients, DisconnectFails(c) PROVE Kept
    <2>1. MakesNone
      BY <1>10 DEF DisconnectFails, NoApiCall, vars, MakesNone, Created
    <2>2. called'.callback = "wild" => callbacks[c] = "wild" /\ called'.client = c
      BY <1>0, <1>10, InvokedIfClosedType DEF DisconnectFails
    <2> QED BY <1>2, <1>10, <2>1, <2>2 DEF DisconnectFails
  <1>11. ASSUME NEW c \in Clients, NEW to \in Callbacks \ {"wild"},
                DefineCallbacks(c, to)
         PROVE  Kept
    <2>1. CallbacksSet'
      BY <1>0, <1>11 DEF DefineCallbacks, NoApiCall, vars, Created, CallbacksSet
    <2> QED BY <1>11, <2>1, NothingCalledType DEF DefineCallbacks, NoWildCallback
  <1>12. ASSUME NEW c \in Clients, NEW p, Plain(NotForwarded(c, p)) PROVE Kept
    BY <1>3, <1>12 DEF Plain, NotForwarded
  <1>13. ASSUME NEW d \in Fds, Plain(PeerGoes(d)) PROVE Kept
    BY <1>3, <1>13 DEF Plain, PeerGoes
  <1> HIDE DEF Kept
  <1>15. ASSUME fault = "none", NEW c \in Clients, DpCall(c) PROVE Kept
    BY <1>4, <1>5, <1>7, <1>8, <1>9, <1>10, <1>11, <1>12, <1>15
    DEF DpCall, DpubsubConnect, DpubsubDisconnect, DpubsubPingreq,
        DpubsubSubscribe, DpubsubUnsubscribe, DpubsubPublish, Disconnecting
  <1> QED BY <1>1, <1>6, <1>13, <1>15 DEF DpNext

\* A pointer that was never set is followed only for a client_t that no
\* create_client has made, its creation having failed or been left to another
\* protocol, for every order of calls and every failure: a client that was
\* made always has callbacks, also when create_client is called on it again.
THEOREM NoWildPointerIsCalled == DpSpec => []NoWildCallback
  <1>1. DpInit => CallbackInv
    BY DpInitType
    DEF CallbackInv, DpInit, ApiInit, Init, NoWildCallback, CallbacksSet, Created,
        NoInvocation
  <1>2. CallbackInv => NoWildCallback
    BY DEF CallbackInv
  <1> QED BY <1>1, <1>2, CallbackStep, PTL DEF DpSpec

-------------------------------------------------------------------------------
(* What the callbacks tell is true.                                          *)

\* on_disconnect is invoked only by a call that gives a connection up, after
\* close has succeeded; on_publish only by a client_publish that returns 0.
LEMMA CallbacksTrueStep ==
  ASSUME DpTypeOK, DpNext
  PROVE  /\ called'.callback = "on_disconnect" =>
              \E d \in Fds : fds[d] # NoOwner /\ fds'[d] = NoOwner
         /\ called'.callback = "on_publish" =>
              last'.op = "client_publish" /\ last'.ret = "ok"
  <1> DEFINE Given == \E d \in Fds : fds[d] # NoOwner /\ fds'[d] = NoOwner
             Sends == last'.op = "client_publish" /\ last'.ret = "ok"
             True == /\ called'.callback = "on_disconnect" => Given
                     /\ called'.callback = "on_publish" => Sends
  <1>0. /\ TypeOK /\ fds \in [Fds -> Clients \cup {NoOwner}]
        /\ callbacks \in [Clients -> Callbacks]
    BY DEF DpTypeOK, ApiTypeOK, TypeOK
  <1>1. ASSUME NothingCalled PROVE True
    BY <1>1, NothingCalledType
  <1>2. ASSUME NEW c \in Clients, InvokedIfClosed(c),
               Socket(c) \in Fds => fds'[Socket(c)] = NoOwner
        PROVE  True
    <2>1. callbacks[c] \in Callbacks
      BY <1>0
    <2> QED BY <1>2, <2>1, InvokedIfClosedType
  <1>3. ASSUME NEW c \in Clients, DisconnectCloses(c) PROVE True
    <2>1. Socket(c) \in Fds => fds'[Socket(c)] = NoOwner
      BY <1>0, <1>3 DEF DisconnectCloses, CloseFd
    <2> QED BY <1>2, <1>3, <2>1 DEF DisconnectCloses
  <1>4. ASSUME NEW c \in Clients, DisconnectReturns(c) PROVE True
    BY <1>1, <1>4 DEF DisconnectReturns
  <1>5. ASSUME NEW c \in Clients, Publishing(c) PROVE True
    <2>1. CASE ~(fault' = "none" /\ last'.ret = "ok")
      BY <1>1, <1>5, <2>1 DEF Publishing
    <2>2. CASE fault' = "none" /\ last'.ret = "ok"
      <3>1. Invoke(c, "on_publish") /\ callbacks[c] \in Callbacks
        BY <1>0, <1>5, <2>2 DEF Publishing
      <3>2. called'.callback # "on_disconnect"
        BY <3>1, InvokeType
      <3>3. last'.op = "client_publish"
        BY <1>5, <2>2 DEF Publishing, ClientPublish, Crash, SendOnly, Return
      <3> QED BY <2>2, <3>2, <3>3
    <2> QED BY <2>1, <2>2
  <1>6. ASSUME NEW c \in Clients, Beside(c) PROVE True
    BY <1>0, <1>1, <1>2, <1>6, DisconnectedBy DEF Beside
  <1>7. ASSUME NEW c \in Clients, DisconnectFails(c) PROVE True
    BY <1>1, <1>7 DEF DisconnectFails, InvokedIfClosed
  <1>8. ASSUME NEW call, Plain(call) PROVE True
    BY <1>1, <1>8 DEF Plain
  <1>9. ASSUME NEW c \in Clients, NEW p, NEW to,
               DpubsubConfig(c, p) \/ DefineCallbacks(c, to)
        PROVE  True
    BY <1>1, <1>9 DEF DpubsubConfig, DefineCallbacks
  <1> HIDE DEF True
  <1>10. ASSUME NEW c \in Clients, DpCall(c) PROVE True
    BY <1>3, <1>5, <1>6, <1>7, <1>8, <1>9, <1>10
    DEF DpCall, DpubsubConnect, DpubsubDisconnect, DpubsubPingreq,
        DpubsubSubscribe, DpubsubUnsubscribe, DpubsubPublish, Disconnecting
  <1>11. True
    BY <1>4, <1>8, <1>10 DEF DpNext
  <1> QED BY <1>11 DEF True

\* Whatever the application does beside the facade, on_disconnect means that a
\* connection was given up and on_publish that a PUBLISH was sent.
THEOREM CallbacksTellTheTruth == DpSpec => CallbacksTrue
  <1>1. DpTypeOK /\ [DpNext]_dpVars =>
          [/\ called'.callback = "on_disconnect" =>
                \E d \in Fds : fds[d] # NoOwner /\ fds'[d] = NoOwner
           /\ called'.callback = "on_publish" =>
                last'.op = "client_publish" /\ last'.ret = "ok"]_dpVars
    BY CallbacksTrueStep
  <1> QED BY <1>1, DpTypeCorrect, PTL DEF DpSpec, CallbacksTrue

===============================================================================
