----------------------------- MODULE ClientProofs -----------------------------
(* Theorems about Client for any clients, descriptors and buffer sizes.      *)
EXTENDS Client, TLAPS

-------------------------------------------------------------------------------
(* Type correctness. *)

\* Every address that a setter may be given is one the field could hold.
LEMMA PassedType == ASSUME NEW p \in Ptr PROVE Passed(p) \subseteq Ptr
  BY DEF Passed, Freed, Ptr

\* The structures that create_client and destroy_client leave have the type.
LEMMA BuiltType ==
  ASSUME NEW s \in ClientStruct, NEW n \in Nat, NEW o \in DOMAIN BuiltBlocks
  PROVE  Built(s, n, o) \in ClientStruct
  BY DEF Built, BuiltBlocks, ClientStruct, Ptr, NoFd

LEMMA ReleasedType ==
  ASSUME NEW s \in ClientStruct PROVE Released(s) \in ClientStruct
  BY DEF Released, Freed, ClientStruct, Ptr, NoFd

LEMMA EffectiveSizeType ==
  ASSUME NEW n \in Nat PROVE EffectiveSize(n) \in Nat
  BY ClientAssumption DEF EffectiveSize

LEMMA LiveType ==
  ASSUME NEW p PROVE Live(p) \in {0, 1}
  BY DEF Live

LEMMA LiveBlocksType ==
  ASSUME NEW s PROVE LiveBlocks(s) \in Nat
  BY DEF Live, LiveBlocks

LEMMA BuiltBlocksType ==
  ASSUME NEW o \in DOMAIN BuiltBlocks PROVE BuiltBlocks[o] \in Nat
  BY DEF BuiltBlocks

\* free of anything but NULL and a block ends in a crash with a fault.
LEMMA CrashOfFreeIsCrash ==
  ASSUME NEW p, CrashOfFree(p) PROVE \E kind \in Faults : Crash(kind)
  BY DEF CrashOfFree, Faults

LEMMA MovedType ==
  ASSUME phase \in [Clients -> Phases], NEW c \in Clients, NEW p \in Phases
  PROVE  /\ Moved(c, p) \in [Clients -> Phases]
         /\ \A k \in Clients : k # c => Moved(c, p)[k] = phase[k]
         /\ Moved(c, p)[c] = IF Created(c) THEN p ELSE phase[c]
  BY DEF Moved

LEMMA TypeStep == TypeOK /\ [Next]_vars => TypeOK'
  <1> SUFFICES ASSUME TypeOK, [Next]_vars PROVE TypeOK'
    OBVIOUS
  <1> USE ClientAssumption DEF TypeOK, Crash, Faults
  <1>1. CASE UNCHANGED vars
    BY <1>1 DEF vars
  <1>2. ASSUME NEW c \in Clients, CreateClient(c) PROVE TypeOK'
    <2>1. PICK n \in Sizes, o \in DOMAIN BuiltBlocks :
            /\ client' = [client EXCEPT ![c] = Built(@, EffectiveSize(n), o)]
            /\ heap' = [heap EXCEPT ![c] = @ + BuiltBlocks[o]]
            /\ phase' = [phase EXCEPT
                            ![c] = IF o = "ok" THEN "created" ELSE "raw"]
      BY <1>2 DEF CreateClient
    <2>2. Built(client[c], EffectiveSize(n), o) \in ClientStruct
      BY BuiltType, EffectiveSizeType
    <2>3. heap[c] + BuiltBlocks[o] \in Int
      BY BuiltBlocksType
    <2>4. client' \in [Clients -> ClientStruct]
      BY <2>1, <2>2
    <2>5. heap' \in [Clients -> Int]
      BY <2>1, <2>3
    <2>6. phase' \in [Clients -> Phases]
      BY <2>1 DEF Phases
    <2> QED BY <1>2, <2>4, <2>5, <2>6 DEF CreateClient
  <1>3. ASSUME NEW c \in Clients, DestroyClient(c) PROVE TypeOK'
    <2>1. CASE \E p : CrashOfFree(p)
      BY <2>1, CrashOfFreeIsCrash
    <2>2. CASE /\ fds' = FdsAfterDestroy(fds, client[c])
               /\ heap' = [heap EXCEPT ![c] = @ - LiveBlocks(client[c])]
               /\ client' = [client EXCEPT ![c] = Released(@)]
               /\ phase' = [phase EXCEPT ![c] = "destroyed"]
               /\ UNCHANGED fault
      <3>1. heap[c] - LiveBlocks(client[c]) \in Int
        BY LiveBlocksType
      <3>2. FdsAfterDestroy(fds, client[c]) \in [Fds -> Clients \cup {NoOwner}]
        BY DEF FdsAfterDestroy, CloseFd
      <3> QED BY <2>2, <3>1, <3>2, ReleasedType DEF Phases
    <2> QED BY <1>3, <2>1, <2>2 DEF DestroyClient, Destroy
  <1>4. ASSUME NEW c \in Clients, ConnectClient(c) PROVE TypeOK'
    <2>1. PICK d \in Fds :
            \/ \E kind \in Faults : Crash(kind)
            \/ /\ ConnectionFails(c, d) \/ ConnectionSucceeds(c, d)
               /\ UNCHANGED <<heap, fault>>
      BY <1>4 DEF ConnectClient, Faults
    <2>2. CASE ConnectionFails(c, d) /\ UNCHANGED <<heap, fault>>
      BY <2>2 DEF ConnectionFails, CloseFd, OpenFd
    <2>3. CASE ConnectionSucceeds(c, d) /\ UNCHANGED <<heap, fault>>
      <3>1. phase' \in [Clients -> Phases]
        BY <2>3, MovedType DEF ConnectionSucceeds, Phases
      <3> QED BY <2>3, <3>1 DEF ConnectionSucceeds, OpenFd, ClientStruct
    <2> QED BY <2>1, <2>2, <2>3
  <1>5. ASSUME NEW c \in Clients, DisconnectClient(c) PROVE TypeOK'
    BY <1>5, MovedType DEF DisconnectClient, CloseFd, Phases
  <1>6. ASSUME NEW c \in Clients, SetSocketFd(c) PROVE TypeOK'
    BY <1>6 DEF SetSocketFd, ClientStruct
  <1>7. ASSUME NEW c \in Clients, NEW field \in {"client_id", "ip_broker"},
               NEW site, SetString(c, field, site)
        PROVE TypeOK'
    <2>1. CASE \E kind \in Faults : Crash(kind)
      BY <2>1
    <2>2. ASSUME NEW ok,
            client' = [client EXCEPT ![c][field] = Alloc(ok)],
            heap' = [heap EXCEPT
                        ![c] = @ - Live(client[c][field]) + Live(Alloc(ok))],
            UNCHANGED <<fds, phase, fault>>
          PROVE TypeOK'
      <3>1. Alloc(ok) \in Ptr
        BY DEF Alloc, Ptr
      <3>2. client' \in [Clients -> ClientStruct]
        BY <2>2, <3>1 DEF ClientStruct
      <3>3. heap[c] - Live(client[c][field]) + Live(Alloc(ok)) \in Int
        BY LiveType
      <3> QED BY <2>2, <3>2, <3>3
    <2> QED BY <1>7, <2>1, <2>2, CrashOfFreeIsCrash DEF SetString
  <1>8. ASSUME NEW c \in Clients, SetConfig(c) PROVE TypeOK'
    <2>1. CASE \E kind \in Faults : Crash(kind)
      BY <2>1
    <2>2. ASSUME NEW id \in Ptr, NEW ip \in Ptr, NEW h \in Int,
                 SetConfigStrings(c, id, ip),
                 heap' = [heap EXCEPT ![c] = h],
                 UNCHANGED <<fds, phase, fault>>
          PROVE TypeOK'
      <3> DEFINE s == [client[c] EXCEPT !.client_id = id, !.ip_broker = ip]
      <3>1. s \in ClientStruct
        BY DEF ClientStruct
      <3>2. client' = [client EXCEPT ![c] = s]
        BY <2>2 DEF SetConfigStrings
      <3> HIDE DEF s
      <3>3. client' \in [Clients -> ClientStruct]
        BY <3>1, <3>2
      <3>4. heap' \in [Clients -> Int]
        BY <2>2
      <3> QED BY <2>2, <3>3, <3>4
    <2>3. ASSUME NEW p \in Ptr, NEW q \in Ptr
          PROVE /\ heap[c] - (Live(client[c].client_id) + Live(client[c].ip_broker))
                     + Live(p) + Live(q) \in Int
                /\ heap[c] - (Live(client[c].client_id) + Live(client[c].ip_broker))
                     \in Int
                /\ Freed(p) \in Ptr
                /\ {"null", "live"} \subseteq Ptr
      BY LiveType DEF Freed, Ptr
    <2>4. client[c].ip_broker \in Ptr
      BY DEF ClientStruct
    <2> QED BY <1>8, <2>1, <2>2, <2>3, <2>4, CrashOfFreeIsCrash DEF SetConfig
  <1>9. ASSUME NEW c \in Clients, SetBufferSize(c) PROVE TypeOK'
    BY <1>9 DEF SetBufferSize, ClientStruct
  <1>10. ASSUME NEW c \in Clients, SetBuffer(c) PROVE TypeOK'
    <2>1. CASE \E p : CrashOfFree(p)
      BY <2>1, CrashOfFreeIsCrash
    <2>2. ASSUME NEW p \in Ptr, NEW n \in Nat, NEW h \in Int,
                 client' = [client EXCEPT ![c].buffer = p, ![c].capacity = n],
                 heap' = [heap EXCEPT ![c] = h],
                 UNCHANGED <<fds, phase, fault>>
          PROVE TypeOK'
      <3> DEFINE s == [client[c] EXCEPT !.buffer = p, !.capacity = n]
      <3>1. s \in ClientStruct
        BY DEF ClientStruct
      <3>2. client' = [client EXCEPT ![c] = s]
        BY <2>2
      <3> HIDE DEF s
      <3>3. client' \in [Clients -> ClientStruct]
        BY <3>1, <3>2
      <3>4. heap' \in [Clients -> Int]
        BY <2>2
      <3> QED BY <2>2, <3>3, <3>4
    <2>3. ASSUME NEW p \in Ptr, NEW h \in Int,
                 client' = [client EXCEPT ![c].buffer = p],
                 heap' = [heap EXCEPT ![c] = h],
                 UNCHANGED <<fds, phase, fault>>
          PROVE TypeOK'
      BY <2>3 DEF ClientStruct
    <2>4. /\ client[c].buffer \in Ptr
          /\ heap[c] - Live(client[c].buffer) + 1 \in Int
          /\ heap[c] - Live(client[c].buffer) \in Int
      BY LiveType DEF ClientStruct
    <2>5. {"null", "live"} \cup Passed(client[c].buffer) \subseteq Ptr
      BY <2>4, PassedType DEF Ptr
    <2> QED BY <1>10, <2>1, <2>2, <2>3, <2>4, <2>5 DEF SetBuffer
  <1>11. ASSUME NEW c \in Clients, ReceiveMessage(c) PROVE TypeOK'
    <2> DEFINE n == EffectiveSize(client[c].buffer_size)
    <2>1. n \in Nat
      BY EffectiveSizeType DEF ClientStruct
    <2> HIDE DEF n
    <2>2. CASE \E kind \in Faults : Crash(kind)
      BY <2>2
    <2>3. ASSUME NEW ok,
            client' = [client EXCEPT ![c].buffer_size = n,
                                     ![c].buffer = Alloc(ok),
                                     ![c].capacity = IF ok THEN n ELSE @],
            heap' = [heap EXCEPT ![c] = @ + Live(Alloc(ok))],
            UNCHANGED <<fds, phase, fault>>
          PROVE TypeOK'
      <3>1. Alloc(ok) \in Ptr
        BY DEF Alloc, Ptr
      <3> DEFINE v == IF ok THEN n ELSE client[c].capacity
                 a == Alloc(ok)
                 s == [client[c] EXCEPT
                          !.buffer_size = n, !.buffer = a, !.capacity = v]
      <3>2. v \in Nat /\ a \in Ptr
        BY <2>1, <3>1 DEF ClientStruct
      <3>4. client' = [client EXCEPT ![c] = s]
        BY <2>3
      <3> HIDE DEF v, a
      <3>3. s \in ClientStruct
        BY <2>1, <3>2 DEF ClientStruct
      <3> HIDE DEF s
      <3>5. client' \in [Clients -> ClientStruct]
        BY <3>3, <3>4
      <3>6. heap[c] + Live(Alloc(ok)) \in Int
        BY LiveType
      <3> QED BY <2>3, <3>5, <3>6
    <2>4. CASE /\ client' = [client EXCEPT ![c].buffer_size = n]
               /\ UNCHANGED <<fds, heap, phase, fault>>
      BY <2>1, <2>4 DEF ClientStruct
    <2> QED BY <1>11, <2>2, <2>3, <2>4 DEF ReceiveMessage, n
  <1> QED
    BY <1>1, <1>2, <1>3, <1>4, <1>5, <1>6, <1>7, <1>8, <1>9, <1>10, <1>11
    DEF Next, ClientCall, CallOn, SetBrokerIp, SetClientId

LEMMA UnwrittenType ==
  ASSUME NEW s \in Unwritten
  PROVE  s \in ClientStruct /\ LiveBlocks(s) = 0
  BY DEF Unwritten, ClientStruct, Ptr, NoFd, LiveBlocks, Live

LEMMA TypeInit == Init => TypeOK
  <1> SUFFICES ASSUME Init PROVE TypeOK
    OBVIOUS
  <1>1. client \in [Clients -> ClientStruct]
    BY UnwrittenType DEF Init
  <1> QED BY <1>1, ClientAssumption DEF Init, TypeOK, Phases, Faults

\* Every field keeps its type through every call: in particular no call
\* leaves a field of a client_t at an address that is none of the four.
THEOREM TypeCorrect == Spec => []TypeOK
  <1> QED BY TypeInit, TypeStep, PTL DEF Spec

-------------------------------------------------------------------------------
(* No block is lost.  create_client writes over the pointers, so a client it *)
(* is called on must own nothing; EmptyWhenNotCreated is what that gives the *)
(* application that uses no client it has not created.                       *)

EmptyWhenNotCreated ==
    "uncreated" \notin Uses =>
        \A c \in Clients : ~Created(c) => LiveBlocks(client[c]) = 0

HeapInv == TypeOK /\ HeapExact /\ EmptyWhenNotCreated

\* The application calls create_client only on clients that hold nothing.
NothingIsRecreated == "recreate" \notin Uses

LEMMA HeapStep ==
  ASSUME NothingIsRecreated
  PROVE  HeapInv /\ [Next]_vars => HeapInv'
  <1> SUFFICES ASSUME HeapInv, [Next]_vars
               PROVE  HeapExact' /\ EmptyWhenNotCreated'
    BY TypeStep DEF HeapInv
  <1> USE DEF HeapInv, HeapExact, EmptyWhenNotCreated, Created, Usable
  <1>0. /\ client \in [Clients -> ClientStruct]
        /\ heap \in [Clients -> Int]
        /\ phase \in [Clients -> Phases]
    BY DEF TypeOK
  <1>1. ASSUME UNCHANGED <<client, heap, phase>>
        PROVE  HeapExact' /\ EmptyWhenNotCreated'
    BY <1>1 DEF LiveBlocks
  \* A step that gives one created client as many blocks as its structure
  \* then points to.
  <1>2. ASSUME NEW c \in Clients, NEW s \in ClientStruct, NEW h \in Int,
               Usable(c), UNCHANGED phase,
               client' = [client EXCEPT ![c] = s],
               heap' = [heap EXCEPT ![c] = h],
               h = LiveBlocks(s)
        PROVE  HeapExact' /\ EmptyWhenNotCreated'
    <2>1. \A k \in Clients : k # c => client'[k] = client[k] /\ heap'[k] = heap[k]
      BY <1>0, <1>2
    <2>2. client'[c] = s /\ heap'[c] = h
      BY <1>0, <1>2
    <2> QED BY <1>2, <2>1, <2>2
  <1>3. ASSUME NEW c \in Clients, CreateClient(c)
        PROVE  HeapExact' /\ EmptyWhenNotCreated'
    <2>1. PICK n \in Sizes, o \in DOMAIN BuiltBlocks :
            /\ client' = [client EXCEPT ![c] = Built(@, EffectiveSize(n), o)]
            /\ heap' = [heap EXCEPT ![c] = @ + BuiltBlocks[o]]
            /\ phase' = [phase EXCEPT
                            ![c] = IF o = "ok" THEN "created" ELSE "raw"]
      BY <1>3 DEF CreateClient
    <2>2. /\ Live(client[c].client_id) = 0
          /\ Live(client[c].ip_broker) = 0
          /\ Live(client[c].buffer) = 0
          /\ heap[c] = 0
      <3>1. ~(LiveBlocks(client[c]) > 0)
        BY <1>3 DEF CreateClient, NothingIsRecreated
      <3> QED BY <3>1, LiveType DEF LiveBlocks
    <2>3. LiveBlocks(Built(client[c], EffectiveSize(n), o)) = BuiltBlocks[o]
      BY <1>0, <2>2 DEF Built, BuiltBlocks, LiveBlocks, Live, ClientStruct
    <2>4. \A k \in Clients : k # c =>
            client'[k] = client[k] /\ heap'[k] = heap[k] /\ phase'[k] = phase[k]
      BY <1>0, <2>1
    <2>5. /\ client'[c] = Built(client[c], EffectiveSize(n), o)
          /\ heap'[c] = BuiltBlocks[o]
          /\ phase'[c] = IF o = "ok" THEN "created" ELSE "raw"
      BY <1>0, <2>1, <2>2 DEF BuiltBlocks
    <2>6. o # "ok" => BuiltBlocks[o] = 0
      BY DEF BuiltBlocks
    <2> QED BY <2>3, <2>4, <2>5, <2>6
  <1>4. ASSUME NEW c \in Clients, DestroyClient(c)
        PROVE  HeapExact' /\ EmptyWhenNotCreated'
    <2>1. CASE \E p : CrashOfFree(p)
      BY <1>1, <2>1, CrashOfFreeIsCrash DEF Crash
    <2>2. CASE ~\E p : CrashOfFree(p)
      <3>1. LiveBlocks(Released(client[c])) = 0
        BY <1>0 DEF LiveBlocks, Live, Released, Freed, ClientStruct
      <3>2. /\ heap' = [heap EXCEPT ![c] = @ - LiveBlocks(client[c])]
            /\ client' = [client EXCEPT ![c] = Released(@)]
            /\ phase' = [phase EXCEPT ![c] = "destroyed"]
        BY <1>4, <2>2 DEF DestroyClient, Destroy
      <3>3. heap'[c] = 0
        BY <1>0, <3>2, LiveBlocksType
      <3>4. \A k \in Clients : k # c =>
              /\ client'[k] = client[k]
              /\ heap'[k] = heap[k]
              /\ phase'[k] = phase[k]
        BY <1>0, <3>2
      <3>5. client'[c] = Released(client[c])
        BY <1>0, <3>2
      <3> QED BY <3>1, <3>3, <3>4, <3>5
    <2> QED BY <2>1, <2>2
  <1>5. ASSUME NEW c \in Clients, NEW s \in ClientStruct, Usable(c),
               client' = [client EXCEPT ![c] = s], UNCHANGED heap,
               phase'[c] \in {"raw", "destroyed"} => ~Created(c),
               \A k \in Clients \ {c} : phase'[k] = phase[k],
               LiveBlocks(s) = LiveBlocks(client[c])
        PROVE  HeapExact' /\ EmptyWhenNotCreated'
    <2>1. \A k \in Clients : k # c =>
            client'[k] = client[k] /\ heap'[k] = heap[k] /\ phase'[k] = phase[k]
      BY <1>0, <1>5
    <2>2. client'[c] = s /\ heap'[c] = heap[c]
      BY <1>0, <1>5
    <2> QED BY <1>5, <2>1, <2>2
  <1>6. ASSUME NEW c \in Clients, ConnectClient(c)
        PROVE  HeapExact' /\ EmptyWhenNotCreated'
    <2>1. PICK d \in Fds :
            \/ \E kind \in Faults : Crash(kind)
            \/ /\ ConnectionFails(c, d) \/ ConnectionSucceeds(c, d)
               /\ UNCHANGED <<heap, fault>>
      BY <1>6 DEF ConnectClient, Faults
    <2>2. CASE ConnectionSucceeds(c, d) /\ UNCHANGED heap
      <3> DEFINE s == [client[c] EXCEPT !.socket = d]
      <3>1. s \in ClientStruct /\ LiveBlocks(s) = LiveBlocks(client[c])
        BY <1>0 DEF ClientStruct, LiveBlocks
      <3>2. /\ client' = [client EXCEPT ![c] = s]
            /\ phase' = Moved(c, "connected")
        BY <2>2 DEF ConnectionSucceeds
      <3>3. /\ phase'[c] \in {"raw", "destroyed"} => ~Created(c)
            /\ \A k \in Clients \ {c} : phase'[k] = phase[k]
        BY <1>0, <3>2, MovedType DEF Phases
      <3>4. Usable(c)
        BY <1>6 DEF ConnectClient
      <3> HIDE DEF s
      <3> QED BY <1>5, <2>2, <3>1, <3>2, <3>3, <3>4
    <2> QED BY <1>1, <2>1, <2>2 DEF Crash, ConnectionFails
  <1>7. ASSUME NEW c \in Clients, DisconnectClient(c)
        PROVE  HeapExact' /\ EmptyWhenNotCreated'
    <2>1. UNCHANGED <<client, heap>> /\ phase' = Moved(c, "disconnected")
      BY <1>7 DEF DisconnectClient
    <2>2. /\ phase'[c] \in {"raw", "destroyed"} => ~Created(c)
          /\ \A k \in Clients \ {c} : phase'[k] = phase[k]
      BY <1>0, <2>1, MovedType DEF Phases
    <2> QED BY <2>1, <2>2 DEF LiveBlocks
  <1>8. ASSUME NEW c \in Clients, SetSocketFd(c)
        PROVE  HeapExact' /\ EmptyWhenNotCreated'
    <2>1. PICK d \in Fds \cup {NoFd} :
            client' = [client EXCEPT ![c].socket = d]
      BY <1>8 DEF SetSocketFd
    <2> DEFINE s == [client[c] EXCEPT !.socket = d]
    <2>2. s \in ClientStruct /\ LiveBlocks(s) = LiveBlocks(client[c])
      BY <1>0 DEF ClientStruct, LiveBlocks
    <2>3. client' = [client EXCEPT ![c] = s] /\ UNCHANGED <<heap, phase>>
      BY <1>8, <2>1 DEF SetSocketFd
    <2>4. Usable(c)
      BY <1>8 DEF SetSocketFd
    <2> HIDE DEF s
    <2> QED BY <1>5, <2>2, <2>3, <2>4
  <1>10. ASSUME NEW p, NEW q
         PROVE  Live(p) \in Int /\ Live(q) \in Int
    BY LiveType
  <1>11. ASSUME NEW c \in Clients
         PROVE  /\ heap[c] = LiveBlocks(client[c])
                /\ heap[c] \in Int
                /\ client[c] \in ClientStruct
                /\ client[c].client_id \in Ptr
                /\ client[c].ip_broker \in Ptr
                /\ client[c].buffer \in Ptr
    BY <1>0 DEF ClientStruct
  <1>12. ASSUME NEW c \in Clients, NEW id \in Ptr, NEW ip \in Ptr, Usable(c),
                SetConfigStrings(c, id, ip), UNCHANGED phase,
                heap' = [heap EXCEPT
                            ![c] = @ - (Live(client[c].client_id)
                                          + Live(client[c].ip_broker))
                                     + Live(id) + Live(ip)]
         PROVE  HeapExact' /\ EmptyWhenNotCreated'
    <2> DEFINE s == [client[c] EXCEPT !.client_id = id, !.ip_broker = ip]
    <2> DEFINE h == heap[c] - (Live(client[c].client_id)
                                 + Live(client[c].ip_broker))
                            + Live(id) + Live(ip)
    <2>1. /\ Live(client[c].client_id) \in Int
          /\ Live(client[c].ip_broker) \in Int
          /\ Live(client[c].buffer) \in Int
          /\ Live(id) \in Int
          /\ Live(ip) \in Int
      BY LiveType
    <2>2. /\ s \in ClientStruct
          /\ s.client_id = id
          /\ s.ip_broker = ip
          /\ s.buffer = client[c].buffer
      BY <1>11 DEF ClientStruct
    <2>3. h = LiveBlocks(s) /\ h \in Int
      BY <1>11, <2>1, <2>2 DEF LiveBlocks
    <2>4. /\ client' = [client EXCEPT ![c] = s]
          /\ heap' = [heap EXCEPT ![c] = h]
      BY <1>12 DEF SetConfigStrings
    <2> HIDE DEF s, h
    <2> QED BY <1>2, <1>12, <2>2, <2>3, <2>4
  <1>13. ASSUME NEW c \in Clients, SetBrokerIp(c)
         PROVE  HeapExact' /\ EmptyWhenNotCreated'
    <2> HIDE DEF HeapInv, HeapExact, EmptyWhenNotCreated
    <2>1. CASE \E kind \in Faults : Crash(kind)
      BY <1>1, <2>1 DEF Crash
    <2>2. ASSUME NEW ok,
            client' = [client EXCEPT ![c]["ip_broker"] = Alloc(ok)],
            heap' = [heap EXCEPT
                        ![c] = @ - Live(client[c]["ip_broker"]) + Live(Alloc(ok))],
            UNCHANGED phase
          PROVE HeapExact' /\ EmptyWhenNotCreated'
      <3>1. /\ Alloc(ok) \in Ptr
            /\ client[c]["ip_broker"] = client[c].ip_broker
        BY DEF Alloc, Ptr
      <3>2. SetConfigStrings(c, client[c].client_id, Alloc(ok))
        BY <1>0, <1>11, <2>2 DEF SetConfigStrings, ClientStruct
      <3>3. /\ Live(client[c].client_id) \in Int
            /\ Live(client[c].ip_broker) \in Int
            /\ Live(Alloc(ok)) \in Int
        BY LiveType
      <3>4. heap[c] - Live(client[c]["ip_broker"]) + Live(Alloc(ok))
             = heap[c] - (Live(client[c].client_id) + Live(client[c].ip_broker))
                 + Live(client[c].client_id) + Live(Alloc(ok))
        BY <1>11, <3>1, <3>3
      <3>5. Usable(c)
        BY <1>13 DEF SetBrokerIp, SetString
      <3>6. heap' = [heap EXCEPT
                        ![c] = @ - (Live(client[c].client_id)
                                      + Live(client[c].ip_broker))
                                 + Live(client[c].client_id) + Live(Alloc(ok))]
        BY <2>2, <3>4
      <3>7. client[c].client_id \in Ptr /\ UNCHANGED phase
        BY <1>11, <2>2
      <3> QED BY <1>12, <3>1, <3>2, <3>5, <3>6, <3>7
    <2> QED BY <1>13, <2>1, <2>2 DEF SetBrokerIp, SetString, Faults, CrashOfFree
  <1>14. ASSUME NEW c \in Clients, SetClientId(c)
         PROVE  HeapExact' /\ EmptyWhenNotCreated'
    <2> HIDE DEF HeapInv, HeapExact, EmptyWhenNotCreated
    <2>1. CASE \E kind \in Faults : Crash(kind)
      BY <1>1, <2>1 DEF Crash
    <2>2. ASSUME NEW ok,
            client' = [client EXCEPT ![c]["client_id"] = Alloc(ok)],
            heap' = [heap EXCEPT
                        ![c] = @ - Live(client[c]["client_id"]) + Live(Alloc(ok))],
            UNCHANGED phase
          PROVE HeapExact' /\ EmptyWhenNotCreated'
      <3>1. /\ Alloc(ok) \in Ptr
            /\ client[c]["client_id"] = client[c].client_id
        BY DEF Alloc, Ptr
      <3>2. SetConfigStrings(c, Alloc(ok), client[c].ip_broker)
        BY <1>0, <1>11, <2>2 DEF SetConfigStrings, ClientStruct
      <3>3. /\ Live(client[c].client_id) \in Int
            /\ Live(client[c].ip_broker) \in Int
            /\ Live(Alloc(ok)) \in Int
        BY LiveType
      <3>4. heap[c] - Live(client[c]["client_id"]) + Live(Alloc(ok))
             = heap[c] - (Live(client[c].client_id) + Live(client[c].ip_broker))
                 + Live(Alloc(ok)) + Live(client[c].ip_broker)
        BY <1>11, <3>1, <3>3
      <3>5. Usable(c)
        BY <1>14 DEF SetClientId, SetString
      <3>6. heap' = [heap EXCEPT
                        ![c] = @ - (Live(client[c].client_id)
                                      + Live(client[c].ip_broker))
                                 + Live(Alloc(ok)) + Live(client[c].ip_broker)]
        BY <2>2, <3>4
      <3>7. client[c].ip_broker \in Ptr /\ UNCHANGED phase
        BY <1>11, <2>2
      <3> QED BY <1>12, <3>1, <3>2, <3>5, <3>6, <3>7
    <2> QED BY <1>14, <2>1, <2>2 DEF SetClientId, SetString, Faults, CrashOfFree
  <1>15. ASSUME NEW c \in Clients, SetConfig(c)
         PROVE  HeapExact' /\ EmptyWhenNotCreated'
    <2> HIDE DEF HeapInv, HeapExact, EmptyWhenNotCreated
    <2> DEFINE freed == Live(client[c].client_id) + Live(client[c].ip_broker)
    <2>1. CASE \E kind \in Faults : Crash(kind)
      BY <1>1, <2>1 DEF Crash
    <2>2. \/ \E kind \in Faults : Crash(kind)
          \/ /\ SetConfigStrings(c, "null", Freed(client[c].ip_broker))
             /\ heap' = [heap EXCEPT ![c] = @ - freed]
             /\ UNCHANGED phase
          \/ \E id \in {"null", "live"} :
             /\ SetConfigStrings(c, Freed(id), "null")
             /\ heap' = [heap EXCEPT ![c] = @ - freed]
             /\ UNCHANGED phase
          \/ \E id, ip \in {"null", "live"} :
             /\ SetConfigStrings(c, id, ip)
             /\ heap' = [heap EXCEPT ![c] = @ - freed + Live(id) + Live(ip)]
             /\ UNCHANGED phase
      BY <1>15, CrashOfFreeIsCrash DEF SetConfig, Faults
    <2>3. Usable(c)
      BY <1>15 DEF SetConfig
    <2>4. freed \in Int
      BY LiveType
    <2>5. ASSUME NEW id \in Ptr, NEW ip \in Ptr,
                 SetConfigStrings(c, id, ip),
                 Live(id) = 0, Live(ip) = 0,
                 heap' = [heap EXCEPT ![c] = @ - freed],
                 UNCHANGED phase
          PROVE  HeapExact' /\ EmptyWhenNotCreated'
      <3>1. heap[c] - freed = heap[c] - freed + Live(id) + Live(ip)
        BY <1>11, <2>4, <2>5
      <3> HIDE DEF freed
      <3>2. heap' = [heap EXCEPT ![c] = @ - freed + Live(id) + Live(ip)]
        BY <2>5, <3>1
      <3> QED BY <1>12, <2>3, <2>5, <3>2 DEF freed
    <2>6. ASSUME NEW p
          PROVE  Freed(p) \in Ptr /\ Live(Freed(p)) = 0
      BY DEF Freed, Ptr, Live
    <2>7. Live("null") = 0 /\ {"null", "live"} \subseteq Ptr
      BY DEF Live, Ptr
    <2> QED BY <1>12, <2>1, <2>2, <2>3, <2>5, <2>6, <2>7
  <1>16. ASSUME NEW c \in Clients, SetBufferSize(c)
         PROVE  HeapExact' /\ EmptyWhenNotCreated'
    <2>1. PICK n \in Sizes : client' = [client EXCEPT ![c].buffer_size = n]
      BY <1>16 DEF SetBufferSize
    <2> DEFINE s == [client[c] EXCEPT !.buffer_size = n]
    <2>2. s \in ClientStruct /\ LiveBlocks(s) = LiveBlocks(client[c])
      BY <1>11, ClientAssumption DEF ClientStruct, LiveBlocks
    <2>3. client' = [client EXCEPT ![c] = s] /\ UNCHANGED <<heap, phase>>
      BY <1>16, <2>1 DEF SetBufferSize
    <2>4. Usable(c)
      BY <1>16 DEF SetBufferSize
    <2> HIDE DEF s
    <2> QED BY <1>5, <2>2, <2>3, <2>4
  \* The buffer of one created client is replaced.
  <1>17. ASSUME NEW c \in Clients, NEW p \in Ptr, NEW m \in Nat, NEW n \in Nat,
                Usable(c), UNCHANGED phase,
                client' = [client EXCEPT ![c] = [@ EXCEPT !.buffer = p,
                                                          !.buffer_size = n,
                                                          !.capacity = m]],
                heap' = [heap EXCEPT
                            ![c] = @ - Live(client[c].buffer) + Live(p)]
         PROVE  HeapExact' /\ EmptyWhenNotCreated'
    <2> DEFINE s == [client[c] EXCEPT !.buffer = p, !.buffer_size = n,
                                      !.capacity = m]
    <2> DEFINE h == heap[c] - Live(client[c].buffer) + Live(p)
    <2>1. /\ Live(client[c].client_id) \in Int
          /\ Live(client[c].ip_broker) \in Int
          /\ Live(client[c].buffer) \in Int
          /\ Live(p) \in Int
      BY LiveType
    <2>2. /\ s \in ClientStruct
          /\ s.client_id = client[c].client_id
          /\ s.ip_broker = client[c].ip_broker
          /\ s.buffer = p
      BY <1>11 DEF ClientStruct
    <2>3. h = LiveBlocks(s) /\ h \in Int
      BY <1>11, <2>1, <2>2 DEF LiveBlocks
    <2>4. /\ client' = [client EXCEPT ![c] = s]
          /\ heap' = [heap EXCEPT ![c] = h]
      BY <1>17
    <2>5. Usable(c) /\ UNCHANGED phase
      BY <1>17
    <2> HIDE DEF s, h
    <2> QED BY <1>2, <2>2, <2>3, <2>4, <2>5
  <1>18. ASSUME NEW c \in Clients, SetBuffer(c)
         PROVE  HeapExact' /\ EmptyWhenNotCreated'
    <2> HIDE DEF HeapInv, HeapExact, EmptyWhenNotCreated
    <2> DEFINE old == client[c].buffer
    <2>1. CASE \E kind \in Faults : Crash(kind)
      BY <1>1, <2>1 DEF Crash
    <2>2. ASSUME NEW n \in Sizes,
                 client' = [client EXCEPT ![c].buffer = "live", ![c].capacity = n],
                 heap' = [heap EXCEPT ![c] = @ - Live(old) + 1],
                 UNCHANGED phase
          PROVE  HeapExact' /\ EmptyWhenNotCreated'
      <3>1. Live("live") = 1 /\ "live" \in Ptr
        BY DEF Live, Ptr
      <3>2. client' = [client EXCEPT
                        ![c] = [@ EXCEPT !.buffer = "live",
                                         !.buffer_size = client[c].buffer_size,
                                         !.capacity = n]]
        BY <1>0, <1>11, <2>2 DEF ClientStruct
      <3>3. client[c].buffer_size \in Nat /\ n \in Nat /\ Usable(c)
        BY <1>11, <1>18, ClientAssumption DEF ClientStruct, SetBuffer
      <3> DEFINE q == "live"
                 size == client[c].buffer_size
      <3>4. /\ client' = [client EXCEPT ![c] = [@ EXCEPT !.buffer = q,
                                                        !.buffer_size = size,
                                                        !.capacity = n]]
            /\ heap' = [heap EXCEPT ![c] = @ - Live(client[c].buffer) + Live(q)]
            /\ q \in Ptr /\ size \in Nat
        BY <2>2, <3>1, <3>2, <3>3
      <3>5. UNCHANGED phase
        BY <2>2
      <3> HIDE DEF q, size
      <3> QED BY <1>17, <3>3, <3>4, <3>5
    <2>3. ASSUME NEW p \in Ptr, Live(p) = 0,
                 client' = [client EXCEPT ![c].buffer = p],
                 heap' = [heap EXCEPT ![c] = @ - Live(old)],
                 UNCHANGED phase
          PROVE  HeapExact' /\ EmptyWhenNotCreated'
      <3>1. client' = [client EXCEPT
                        ![c] = [@ EXCEPT !.buffer = p,
                                         !.buffer_size = client[c].buffer_size,
                                         !.capacity = client[c].capacity]]
        BY <1>0, <1>11, <2>3 DEF ClientStruct
      <3>2. /\ client[c].buffer_size \in Nat
            /\ client[c].capacity \in Nat
            /\ Usable(c)
        BY <1>11, <1>18 DEF ClientStruct, SetBuffer
      <3>3. heap[c] - Live(old) = heap[c] - Live(old) + Live(p)
        BY <1>11, <2>3, LiveType
      <3> QED BY <1>17, <2>3, <3>1, <3>2, <3>3
    <2>4. \A p \in {"null"} \cup (Passed(old) \ {"live"}) : p \in Ptr /\ Live(p) = 0
      BY DEF Passed, Freed, Live, Ptr
    <2> QED BY <1>18, <2>1, <2>2, <2>3, <2>4, CrashOfFreeIsCrash DEF SetBuffer, Faults
  <1>19. ASSUME NEW c \in Clients, ReceiveMessage(c)
         PROVE  HeapExact' /\ EmptyWhenNotCreated'
    <2> DEFINE n == EffectiveSize(client[c].buffer_size)
    <2>1. n \in Nat
      BY <1>11, EffectiveSizeType DEF ClientStruct
    <2>2. Usable(c) /\ client[c].capacity \in Nat
      BY <1>11, <1>19 DEF ClientStruct, ReceiveMessage
    <2> HIDE DEF n
    <2>3. CASE \E kind \in Faults : Crash(kind)
      BY <1>1, <2>3 DEF Crash
    <2>4. ASSUME NEW ok, client[c].buffer = "null",
            client' = [client EXCEPT ![c].buffer_size = n,
                                     ![c].buffer = Alloc(ok),
                                     ![c].capacity = IF ok THEN n ELSE @],
            heap' = [heap EXCEPT ![c] = @ + Live(Alloc(ok))],
            UNCHANGED phase
          PROVE HeapExact' /\ EmptyWhenNotCreated'
      <3> DEFINE m == IF ok THEN n ELSE client[c].capacity
      <3>1. Alloc(ok) \in Ptr /\ m \in Nat
        BY <2>1, <2>2 DEF Alloc, Ptr
      <3>2. client' = [client EXCEPT ![c].buffer_size = n,
                                     ![c].buffer = Alloc(ok),
                                     ![c].capacity = m]
        BY <2>4
      <3> HIDE DEF m
      <3>3. client' = [client EXCEPT
                        ![c] = [@ EXCEPT !.buffer = Alloc(ok),
                                         !.buffer_size = n, !.capacity = m]]
        BY <1>0, <1>11, <3>2 DEF ClientStruct
      <3>4. heap[c] + Live(Alloc(ok))
              = heap[c] - Live(client[c].buffer) + Live(Alloc(ok))
        BY <1>11, <2>4, LiveType DEF Live
      <3>5. heap' = [heap EXCEPT
                        ![c] = @ - Live(client[c].buffer) + Live(Alloc(ok))]
        BY <2>4, <3>4
      <3>6. UNCHANGED phase
        BY <2>4
      <3> DEFINE q == Alloc(ok)
      <3> HIDE DEF q, HeapInv, HeapExact, EmptyWhenNotCreated, Created, Usable
      <3> QED BY <1>17, <2>1, <2>2, <3>1, <3>3, <3>5, <3>6 DEF q
    <2>5. CASE /\ client' = [client EXCEPT ![c].buffer_size = n]
               /\ UNCHANGED <<heap, phase>>
      <3> DEFINE s == [client[c] EXCEPT !.buffer_size = n]
      <3>1. s \in ClientStruct /\ LiveBlocks(s) = LiveBlocks(client[c])
        BY <1>11, <2>1 DEF ClientStruct, LiveBlocks
      <3>2. client' = [client EXCEPT ![c] = s]
        BY <2>5
      <3> HIDE DEF s
      <3> QED BY <1>5, <2>2, <2>5, <3>1, <3>2
    <2> QED BY <1>19, <2>3, <2>4, <2>5 DEF ReceiveMessage, Faults, n
  <1> QED
    BY <1>1, <1>3, <1>4, <1>6, <1>7, <1>8, <1>13, <1>14, <1>15, <1>16, <1>18,
       <1>19
    DEF Next, ClientCall, CallOn, vars

LEMMA HeapInit == Init => HeapInv
  BY TypeInit, UnwrittenType
  DEF Init, HeapInv, HeapExact, EmptyWhenNotCreated

\* As long as create_client is not called on a client that holds a block, the
\* blocks allocated for a client and not yet freed are the ones its fields
\* point to: whatever other calls the application makes, on clients it has
\* created or not, and whichever allocation fails.
THEOREM NoBlockIsLost == ASSUME NothingIsRecreated PROVE Spec => []HeapExact
  <1>1. HeapInv => HeapExact
    BY DEF HeapInv
  <1> QED BY <1>1, HeapInit, HeapStep, PTL DEF Spec

-------------------------------------------------------------------------------
(* Descriptors.  What destroy_client closes is the socket field, so a client *)
(* must not be connected twice, nor its field be written, without a close;   *)
(* a client that is not created is in no phase that would say so.            *)

OneConnectionAtATime ==
    Uses \cap {"reconnect", "set_socket", "recreate", "uncreated"} = {}

FdInv == TypeOK /\ NoFdLeak

LEMMA FdStep ==
  ASSUME OneConnectionAtATime
  PROVE  FdInv /\ [Next]_vars => FdInv'
  <1> SUFFICES ASSUME FdInv, [Next]_vars PROVE NoFdLeak'
    BY TypeStep DEF FdInv
  <1> USE DEF FdInv, NoFdLeak
  <1>1. /\ client \in [Clients -> ClientStruct]
        /\ fds \in [Fds -> Clients \cup {NoOwner}]
        /\ phase \in [Clients -> Phases]
        /\ NoOwner \notin Clients
    BY ClientAssumption DEF TypeOK
  <1>2. ASSUME \A c \in Clients : client'[c].socket = client[c].socket,
               UNCHANGED <<fds, phase>>
        PROVE  NoFdLeak'
    BY <1>2
  <1>3. ASSUME NEW kind, Crash(kind) PROVE NoFdLeak'
    BY <1>3 DEF Crash
  <1>4. ASSUME NEW c \in Clients, CreateClient(c) PROVE NoFdLeak'
    <2>1. PICK s \in ClientStruct, p \in Phases :
            /\ client' = [client EXCEPT ![c] = s]
            /\ phase' = [phase EXCEPT ![c] = p]
            /\ UNCHANGED fds
      BY <1>1, <1>4, BuiltType, EffectiveSizeType, ClientAssumption
      DEF CreateClient, Phases
    <2>2. \A d \in Fds : fds[d] # c
      BY <1>4 DEF CreateClient, Created, OneConnectionAtATime
    <2> QED BY <1>1, <2>1, <2>2
  <1>5. ASSUME NEW c \in Clients, DestroyClient(c) PROVE NoFdLeak'
    <2>1. CASE \E p : CrashOfFree(p)
      BY <1>3, <2>1, CrashOfFreeIsCrash
    <2>2. CASE ~\E p : CrashOfFree(p)
      <3>1. /\ fds' = FdsAfterDestroy(fds, client[c])
            /\ client' = [client EXCEPT ![c] = Released(@)]
            /\ phase' = [phase EXCEPT ![c] = "destroyed"]
        BY <1>5, <2>2 DEF DestroyClient, Destroy
      <3>2. \A d \in Fds : fds'[d] # c /\ fds'[d] \in {fds[d], NoOwner}
        BY <1>1, <3>1, ClientAssumption DEF FdsAfterDestroy, CloseFd, NoFd
      <3> QED BY <1>1, <3>1, <3>2
    <2> QED BY <2>1, <2>2
  <1>6. ASSUME NEW c \in Clients, ConnectClient(c) PROVE NoFdLeak'
    <2>1. PICK d \in Fds :
            /\ IsNextFd(d)
            /\ \/ \E kind \in Faults : Crash(kind)
               \/ ConnectionFails(c, d)
               \/ ConnectionSucceeds(c, d)
      BY <1>6 DEF ConnectClient, Faults
    <2>2. phase[c] # "connected" /\ Created(c)
      BY <1>6 DEF ConnectClient, Usable, OneConnectionAtATime
    <2>3. CASE ConnectionFails(c, d)
      BY <1>1, <2>1, <2>3 DEF ConnectionFails, CloseFd, OpenFd, IsNextFd
    <2>4. CASE ConnectionSucceeds(c, d)
      <3>1. \A e \in Fds : fds[e] # c
        BY <2>2
      <3>2. /\ fds' = [fds EXCEPT ![d] = c]
            /\ client' = [client EXCEPT ![c].socket = d]
            /\ phase' = [phase EXCEPT ![c] = "connected"]
        BY <2>2, <2>4 DEF ConnectionSucceeds, OpenFd, Moved
      <3>3. client'[c].socket = d /\ phase'[c] = "connected"
        BY <1>1, <3>2 DEF ClientStruct
      <3> QED BY <1>1, <3>1, <3>2, <3>3
    <2> QED BY <1>3, <2>1, <2>3, <2>4
  <1>7. ASSUME NEW c \in Clients, DisconnectClient(c) PROVE NoFdLeak'
    <2>1. \A d \in Fds : fds'[d] # c /\ fds'[d] \in {fds[d], NoOwner}
      BY <1>1, <1>7 DEF DisconnectClient, CloseFd
    <2>2. /\ UNCHANGED client
          /\ \A k \in Clients : k # c => phase'[k] = phase[k]
      BY <1>1, <1>7, MovedType DEF DisconnectClient, Phases
    <2> QED BY <1>1, <2>1, <2>2
  <1>8. ASSUME NEW c \in Clients, SetSocketFd(c) PROVE NoFdLeak'
    BY <1>8 DEF SetSocketFd, OneConnectionAtATime
  <1>9. ASSUME NEW c \in Clients, SetBrokerIp(c) \/ SetClientId(c)
        PROVE  NoFdLeak'
    <2>1. CASE \E kind \in Faults : Crash(kind)
      BY <1>3, <2>1
    <2>2. ASSUME NEW ok, UNCHANGED <<fds, phase>>,
                 \/ client' = [client EXCEPT ![c]["ip_broker"] = Alloc(ok)]
                 \/ client' = [client EXCEPT ![c]["client_id"] = Alloc(ok)]
          PROVE  NoFdLeak'
      BY <1>1, <1>2, <2>2 DEF ClientStruct
    <2> QED
      BY <1>9, <2>1, <2>2, CrashOfFreeIsCrash
      DEF SetBrokerIp, SetClientId, SetString, Faults
  <1>10. ASSUME NEW c \in Clients, SetConfig(c) PROVE NoFdLeak'
    <2>1. CASE \E kind \in Faults : Crash(kind)
      BY <1>3, <2>1
    <2>2. ASSUME NEW id, NEW ip, SetConfigStrings(c, id, ip),
                 UNCHANGED <<fds, phase>>
          PROVE  NoFdLeak'
      <3> DEFINE s == [client[c] EXCEPT !.client_id = id, !.ip_broker = ip]
      <3>1. client' = [client EXCEPT ![c] = s]
        BY <2>2 DEF SetConfigStrings
      <3>2. s.socket = client[c].socket
        BY <1>1 DEF ClientStruct
      <3> HIDE DEF s
      <3>3. \A k \in Clients : client'[k].socket = client[k].socket
        BY <1>1, <3>1, <3>2
      <3> QED BY <1>2, <2>2, <3>3
    <2>3. \/ \E kind \in Faults : Crash(kind)
          \/ \E id, ip : SetConfigStrings(c, id, ip) /\ UNCHANGED <<fds, phase>>
      BY <1>10, CrashOfFreeIsCrash DEF SetConfig, Faults
    <2> HIDE DEF NoFdLeak
    <2> QED BY <2>1, <2>2, <2>3
  <1>11. ASSUME NEW c \in Clients, SetBufferSize(c) PROVE NoFdLeak'
    BY <1>1, <1>2, <1>11 DEF SetBufferSize, ClientStruct
  <1>12. ASSUME NEW c \in Clients, SetBuffer(c) PROVE NoFdLeak'
    <2>1. CASE \E p : CrashOfFree(p)
      BY <1>3, <2>1, CrashOfFreeIsCrash
    <2>2. ASSUME NEW p, NEW n, UNCHANGED <<fds, phase>>,
                 \/ client' = [client EXCEPT ![c].buffer = p, ![c].capacity = n]
                 \/ client' = [client EXCEPT ![c].buffer = p]
          PROVE  NoFdLeak'
      BY <1>1, <1>2, <2>2 DEF ClientStruct
    <2> QED BY <1>12, <2>1, <2>2 DEF SetBuffer
  <1>13. ASSUME NEW c \in Clients, ReceiveMessage(c) PROVE NoFdLeak'
    <2>1. CASE \E kind \in Faults : Crash(kind)
      BY <1>3, <2>1
    <2> DEFINE n == EffectiveSize(client[c].buffer_size)
    <2> HIDE DEF n
    <2>2. ASSUME NEW ok, UNCHANGED <<fds, phase>>,
                 client' = [client EXCEPT ![c].buffer_size = n,
                                          ![c].buffer = Alloc(ok),
                                          ![c].capacity = IF ok THEN n ELSE @]
          PROVE  NoFdLeak'
      BY <1>1, <1>2, <2>2 DEF ClientStruct
    <2>3. CASE /\ client' = [client EXCEPT ![c].buffer_size = n]
               /\ UNCHANGED <<fds, phase>>
      BY <1>1, <1>2, <2>3 DEF ClientStruct
    <2>4. \/ \E kind \in Faults : Crash(kind)
          \/ \E ok \in Succeeds("receive_message") :
                /\ client' = [client EXCEPT ![c].buffer_size = n,
                                            ![c].buffer = Alloc(ok),
                                            ![c].capacity = IF ok THEN n ELSE @]
                /\ UNCHANGED <<fds, phase>>
          \/ /\ client' = [client EXCEPT ![c].buffer_size = n]
             /\ UNCHANGED <<fds, phase>>
      BY <1>13 DEF ReceiveMessage, Faults, n
    <2> HIDE DEF NoFdLeak
    <2> QED BY <2>1, <2>2, <2>3, <2>4
  <1>14. CASE UNCHANGED vars
    BY <1>14 DEF vars
  <1> QED
    BY <1>4, <1>5, <1>6, <1>7, <1>8, <1>9, <1>10, <1>11, <1>12, <1>13, <1>14
    DEF Next, ClientCall, CallOn

LEMMA FdInit == Init => FdInv
  <1>1. Init => NoFdLeak
    BY ClientAssumption DEF Init, NoFdLeak
  <1> QED BY <1>1, TypeInit DEF FdInv

\* An open descriptor is always the one in the socket field of the connected
\* client that opened it, for any number of clients and descriptors.
THEOREM NoDescriptorLeaks ==
  ASSUME OneConnectionAtATime PROVE Spec => []NoFdLeak
  <1>1. FdInv => NoFdLeak
    BY DEF FdInv
  <1> QED BY <1>1, FdInit, FdStep, PTL DEF Spec

\* Once destroy_client has run, or create_client has failed, the client has no
\* block and no open descriptor left.
THEOREM DestroyedLeavesNothing ==
  ASSUME OneConnectionAtATime PROVE Spec => []NothingLeftBehind
  <1>1. HeapInv /\ FdInv => NothingLeftBehind
    BY DEF HeapInv, FdInv, HeapExact, EmptyWhenNotCreated, NoFdLeak,
           NothingLeftBehind, Created, OneConnectionAtATime
  <1>2. NothingIsRecreated
    BY DEF NothingIsRecreated, OneConnectionAtATime
  <1> QED BY <1>1, <1>2, HeapInit, HeapStep, FdInit, FdStep, PTL DEF Spec

-------------------------------------------------------------------------------
(* Memory safety under careful use.  NoFault alone is not inductive: no field *)
(* of a client that may be used holds the address of a freed block or was     *)
(* never written, and the size passed to recv is never above the size of the  *)
(* block.  A second connect, a second creation and foreign descriptor numbers *)
(* do no harm to memory.                                                      *)

Careful ==
    /\ Uses \cap {"redestroy", "alias", "null_ip", "resize", "uncreated"} = {}
    /\ "set_config" \notin MayFail

Sound(s) ==
    /\ \A p \in Pointers(s) : Freeable(p)
    /\ s.buffer = "live" => EffectiveSize(s.buffer_size) <= s.capacity

CarefulInv ==
    /\ TypeOK
    /\ NoFault
    /\ \A c \in Clients : Created(c) => Sound(client[c])

LEMMA EffectiveSizeIdempotent ==
  ASSUME NEW n \in Nat PROVE EffectiveSize(EffectiveSize(n)) = EffectiveSize(n)
  BY ClientAssumption DEF EffectiveSize

LEMMA CarefulStep ==
  ASSUME Careful
  PROVE  CarefulInv /\ [Next]_vars => CarefulInv'
  <1> DEFINE SoundInv == \A c \in Clients : Created(c) => Sound(client[c])
  <1> SUFFICES ASSUME CarefulInv, [Next]_vars PROVE NoFault' /\ SoundInv'
    BY TypeStep DEF CarefulInv
  <1>1. /\ client \in [Clients -> ClientStruct]
        /\ phase \in [Clients -> Phases]
        /\ fault = "none"
        /\ "redestroy" \notin Uses /\ "alias" \notin Uses
        /\ "null_ip" \notin Uses /\ "resize" \notin Uses
        /\ "set_config" \notin MayFail
        /\ \A c \in Clients : Usable(c) => Created(c)
    BY DEF CarefulInv, TypeOK, NoFault, Careful, Usable
  <1>2. \A c \in Clients : Created(c) => Sound(client[c])
    BY DEF CarefulInv
  \* A step on one client that leaves its structure sound.
  <1>3. ASSUME NEW c \in Clients, NEW s,
               client' = [client EXCEPT ![c] = s], UNCHANGED fault,
               phase'[c] \in {"raw", "destroyed"} \/ Sound(s),
               \A k \in Clients : k # c => phase'[k] = phase[k]
        PROVE  NoFault' /\ SoundInv'
    <2>1. \A k \in Clients : k # c => client'[k] = client[k]
      BY <1>1, <1>3
    <2>2. client'[c] = s
      BY <1>1, <1>3
    <2>3. ASSUME NEW k \in Clients, Created(k)' PROVE Sound(client'[k])
      <3>1. CASE k = c
        BY <1>3, <2>2, <2>3, <3>1 DEF Created
      <3>2. CASE k # c
        BY <1>2, <1>3, <2>1, <2>3, <3>2 DEF Created
      <3> QED BY <3>1, <3>2
    <2> QED BY <1>1, <1>3, <2>3 DEF NoFault
  <1>4. ASSUME UNCHANGED <<client, fault>>, UNCHANGED phase
        PROVE  NoFault' /\ SoundInv'
    BY <1>1, <1>2, <1>4 DEF NoFault, Created
  <1>5. ASSUME NEW c \in Clients, Created(c)
        PROVE  /\ client[c].client_id \in {"null", "live"}
               /\ client[c].ip_broker \in {"null", "live"}
               /\ client[c].buffer \in {"null", "live"}
               /\ client[c].buffer = "live" =>
                    EffectiveSize(client[c].buffer_size) <= client[c].capacity
    BY <1>2, <1>5 DEF Sound, Pointers, Freeable
  <1>6. ASSUME NEW c \in Clients, CreateClient(c) PROVE NoFault' /\ SoundInv'
    <2>1. PICK n \in Sizes, o \in DOMAIN BuiltBlocks :
            /\ client' = [client EXCEPT ![c] = Built(@, EffectiveSize(n), o)]
            /\ phase' = [phase EXCEPT
                            ![c] = IF o = "ok" THEN "created" ELSE "raw"]
      BY <1>6 DEF CreateClient
    <2>2. EffectiveSize(EffectiveSize(n)) <= EffectiveSize(n)
      BY EffectiveSizeIdempotent, EffectiveSizeType, ClientAssumption
    <2>3. o = "ok" => Sound(Built(client[c], EffectiveSize(n), o))
      BY <2>2 DEF Built, Sound, Pointers, Freeable
    <2>4. /\ phase'[c] = IF o = "ok" THEN "created" ELSE "raw"
          /\ \A k \in Clients : k # c => phase'[k] = phase[k]
      BY <1>1, <2>1
    <2>5. UNCHANGED fault
      BY <1>6 DEF CreateClient
    <2> DEFINE s == Built(client[c], EffectiveSize(n), o)
    <2>6. client' = [client EXCEPT ![c] = s]
      BY <2>1
    <2>7. phase'[c] \in {"raw", "destroyed"} \/ Sound(s)
      BY <2>3, <2>4
    <2> HIDE DEF s, SoundInv
    <2> QED BY <1>3, <2>4, <2>5, <2>6, <2>7
  <1>7. ASSUME NEW c \in Clients, DestroyClient(c) PROVE NoFault' /\ SoundInv'
    <2>1. Created(c)
      BY <1>1, <1>7 DEF DestroyClient
    <2>2. /\ client' = [client EXCEPT ![c] = Released(@)]
          /\ phase' = [phase EXCEPT ![c] = "destroyed"]
          /\ UNCHANGED fault
      <3>1. \A p \in Pointers(client[c]) : Freeable(p)
        BY <1>5, <2>1 DEF Pointers, Freeable
      <3>2. ~\E p \in Pointers(client[c]) : CrashOfFree(p)
        BY <3>1 DEF Freeable, CrashOfFree
      <3> QED BY <1>7, <3>2 DEF DestroyClient, Destroy
    <2> DEFINE s == Released(client[c])
    <2>3. client' = [client EXCEPT ![c] = s]
      BY <2>2
    <2>4. /\ phase'[c] = "destroyed"
          /\ \A k \in Clients : k # c => phase'[k] = phase[k]
      BY <1>1, <2>2
    <2> HIDE DEF s, SoundInv
    <2> QED BY <1>3, <2>2, <2>3, <2>4
  <1>8. ASSUME NEW c \in Clients, ConnectClient(c) PROVE NoFault' /\ SoundInv'
    <2>1. Created(c) /\ client[c].ip_broker # "null"
      BY <1>1, <1>8 DEF ConnectClient
    <2>2. PICK d \in Fds :
            /\ ConnectionFails(c, d) \/ ConnectionSucceeds(c, d)
            /\ UNCHANGED fault
      BY <1>5, <1>8, <2>1 DEF ConnectClient
    <2>3. CASE ConnectionSucceeds(c, d)
      <3> DEFINE s == [client[c] EXCEPT !.socket = d]
      <3>1. Sound(s)
        BY <1>1, <1>5, <2>1 DEF Sound, Pointers, Freeable, ClientStruct
      <3>2. /\ client' = [client EXCEPT ![c] = s]
            /\ \A k \in Clients : k # c => phase'[k] = phase[k]
        BY <1>1, <2>3, MovedType DEF ConnectionSucceeds, Phases
      <3> HIDE DEF s, SoundInv
      <3> QED BY <1>3, <2>2, <3>1, <3>2
    <2> HIDE DEF SoundInv
    <2> QED BY <1>4, <2>2, <2>3 DEF ConnectionFails
  <1>9. ASSUME NEW c \in Clients, DisconnectClient(c) PROVE NoFault' /\ SoundInv'
    <2>1. /\ Created(c)
          /\ phase' = [phase EXCEPT ![c] = "disconnected"]
          /\ UNCHANGED <<client, fault>>
      BY <1>1, <1>9 DEF DisconnectClient, Moved
    <2>2. ASSUME NEW k \in Clients, Created(k)' PROVE Created(k)
      BY <1>1, <2>1, <2>2 DEF Created
    <2> QED BY <1>1, <1>2, <2>1, <2>2 DEF NoFault
  <1>10. ASSUME NEW c \in Clients, SetSocketFd(c) PROVE NoFault' /\ SoundInv'
    <2>1. PICK d \in Fds \cup {NoFd} :
            /\ Created(c)
            /\ client' = [client EXCEPT ![c].socket = d]
            /\ UNCHANGED <<phase, fault>>
      BY <1>1, <1>10 DEF SetSocketFd
    <2> DEFINE s == [client[c] EXCEPT !.socket = d]
    <2>2. Sound(s)
      BY <1>1, <1>5, <2>1 DEF Sound, Pointers, Freeable, ClientStruct
    <2>3. client' = [client EXCEPT ![c] = s]
      BY <2>1
    <2> HIDE DEF s, SoundInv
    <2> QED BY <1>3, <2>1, <2>2, <2>3
  \* The strings of one created client are replaced by ones that are NULL or
  \* allocated.
  <1>11. ASSUME NEW c \in Clients, Created(c),
                NEW id \in {"null", "live", client[c].client_id},
                NEW ip \in {"null", "live", client[c].ip_broker},
                SetConfigStrings(c, id, ip), UNCHANGED <<phase, fault>>
         PROVE  NoFault' /\ SoundInv'
    <2> DEFINE s == [client[c] EXCEPT !.client_id = id, !.ip_broker = ip]
    <2>1. Sound(s)
      BY <1>1, <1>5, <1>11 DEF Sound, Pointers, Freeable, ClientStruct
    <2>2. client' = [client EXCEPT ![c] = s]
      BY <1>11 DEF SetConfigStrings
    <2> HIDE DEF s, SoundInv
    <2> QED BY <1>3, <1>11, <2>1, <2>2
  <1>12. \A p : Passed(p) = {"live"}
    BY <1>1 DEF Passed
  <1>13. ASSUME NEW c \in Clients, SetBrokerIp(c) PROVE NoFault' /\ SoundInv'
    <2>1. Created(c)
      BY <1>1, <1>13 DEF SetBrokerIp, SetString
    <2>2. PICK ok \in BOOLEAN :
            /\ client' = [client EXCEPT ![c]["ip_broker"] = Alloc(ok)]
            /\ UNCHANGED <<phase, fault>>
      <3>1. /\ client[c]["ip_broker"] \in {"null", "live"}
            /\ Passed(client[c]["ip_broker"]) = {"live"}
        BY <1>1, <1>5, <1>12, <2>1
      <3> QED BY <1>13, <3>1 DEF SetBrokerIp, SetString, Succeeds, CrashOfFree
    <2>3. SetConfigStrings(c, client[c].client_id, Alloc(ok))
      BY <1>1, <2>2 DEF SetConfigStrings, ClientStruct
    <2>4. Alloc(ok) \in {"null", "live"}
      BY DEF Alloc
    <2> HIDE DEF SoundInv
    <2> QED BY <1>11, <2>1, <2>2, <2>3, <2>4
  <1>14. ASSUME NEW c \in Clients, SetClientId(c) PROVE NoFault' /\ SoundInv'
    <2>1. Created(c)
      BY <1>1, <1>14 DEF SetClientId, SetString
    <2>2. PICK ok \in BOOLEAN :
            /\ client' = [client EXCEPT ![c]["client_id"] = Alloc(ok)]
            /\ UNCHANGED <<phase, fault>>
      <3>1. /\ client[c]["client_id"] \in {"null", "live"}
            /\ Passed(client[c]["client_id"]) = {"live"}
        BY <1>1, <1>5, <1>12, <2>1
      <3> QED BY <1>14, <3>1 DEF SetClientId, SetString, Succeeds, CrashOfFree
    <2>3. SetConfigStrings(c, Alloc(ok), client[c].ip_broker)
      BY <1>1, <2>2 DEF SetConfigStrings, ClientStruct
    <2>4. Alloc(ok) \in {"null", "live"}
      BY DEF Alloc
    <2> HIDE DEF SoundInv
    <2> QED BY <1>11, <2>1, <2>2, <2>3, <2>4
  <1>15. ASSUME NEW c \in Clients, SetConfig(c) PROVE NoFault' /\ SoundInv'
    <2>1. Created(c)
      BY <1>1, <1>15 DEF SetConfig
    <2>2. FALSE \notin Succeeds("set_config")
      BY <1>1 DEF Succeeds
    <2>3. PICK id \in {"null", "live"}, ip \in {"null", "live"} :
            SetConfigStrings(c, id, ip) /\ UNCHANGED <<phase, fault>>
      <3>1. /\ client[c].client_id \in {"null", "live"}
            /\ client[c].ip_broker \in {"null", "live"}
            /\ Passed(client[c].client_id) = {"live"}
            /\ Passed(client[c].ip_broker) = {"live"}
        BY <1>1, <1>5, <1>12, <2>1
      <3> QED BY <1>15, <2>2, <3>1 DEF SetConfig, CrashOfFree
    <2> HIDE DEF SoundInv
    <2> QED BY <1>11, <2>1, <2>3
  <1>16. ASSUME NEW c \in Clients, SetBufferSize(c) PROVE NoFault' /\ SoundInv'
    <2>1. PICK n \in Sizes :
            /\ client[c].buffer = "null" \/ EffectiveSize(n) <= client[c].capacity
            /\ client' = [client EXCEPT ![c].buffer_size = n]
            /\ Created(c)
            /\ UNCHANGED <<phase, fault>>
      BY <1>1, <1>16 DEF SetBufferSize
    <2> DEFINE s == [client[c] EXCEPT !.buffer_size = n]
    <2>2. Sound(s)
      BY <1>1, <1>5, <2>1 DEF Sound, Pointers, Freeable, ClientStruct
    <2>3. client' = [client EXCEPT ![c] = s]
      BY <2>1
    <2> HIDE DEF s, SoundInv
    <2> QED BY <1>3, <2>1, <2>2, <2>3
  <1>17. ASSUME NEW c \in Clients, SetBuffer(c) PROVE NoFault' /\ SoundInv'
    <2>1. Created(c)
      BY <1>1, <1>17 DEF SetBuffer
    <2>2. \/ \E n \in Sizes :
               /\ EffectiveSize(client[c].buffer_size) <= n
               /\ client' = [client EXCEPT ![c].buffer = "live",
                                           ![c].capacity = n]
               /\ UNCHANGED <<phase, fault>>
          \/ /\ client' = [client EXCEPT ![c].buffer = "null"]
             /\ UNCHANGED <<phase, fault>>
      BY <1>1, <1>5, <1>12, <1>17, <2>1 DEF SetBuffer, CrashOfFree
    <2>3. ASSUME NEW n \in Sizes,
                 EffectiveSize(client[c].buffer_size) <= n,
                 client' = [client EXCEPT ![c].buffer = "live",
                                          ![c].capacity = n],
                 UNCHANGED <<phase, fault>>
          PROVE  NoFault' /\ SoundInv'
      <3> DEFINE s == [client[c] EXCEPT !.buffer = "live", !.capacity = n]
      <3>1. Sound(s)
        BY <1>1, <1>5, <2>1, <2>3 DEF Sound, Pointers, Freeable, ClientStruct
      <3>2. client' = [client EXCEPT ![c] = s]
        BY <2>3
      <3> HIDE DEF s, SoundInv
      <3> QED BY <1>3, <2>3, <3>1, <3>2
    <2>4. CASE /\ client' = [client EXCEPT ![c].buffer = "null"]
               /\ UNCHANGED <<phase, fault>>
      <3> DEFINE s == [client[c] EXCEPT !.buffer = "null"]
      <3>1. Sound(s)
        BY <1>1, <1>5, <2>1 DEF Sound, Pointers, Freeable, ClientStruct
      <3>2. client' = [client EXCEPT ![c] = s]
        BY <2>4
      <3> HIDE DEF s, SoundInv
      <3> QED BY <1>3, <2>4, <3>1, <3>2
    <2> HIDE DEF SoundInv
    <2> QED BY <2>2, <2>3, <2>4
  <1>18. ASSUME NEW c \in Clients, ReceiveMessage(c) PROVE NoFault' /\ SoundInv'
    <2> DEFINE n == EffectiveSize(client[c].buffer_size)
    <2>1. Created(c)
      BY <1>1, <1>18 DEF ReceiveMessage
    <2>2. client[c].buffer_size \in Nat /\ client[c].capacity \in Nat
      BY <1>1 DEF ClientStruct
    <2>3. n \in Nat /\ EffectiveSize(n) = n
      BY <2>2, EffectiveSizeType, EffectiveSizeIdempotent
    <2>4. client[c].buffer = "live" => n <= client[c].capacity
      BY <1>5, <2>1
    <2> HIDE DEF n
    <2>5. \/ \E ok \in BOOLEAN :
               /\ client' = [client EXCEPT ![c].buffer_size = n,
                                           ![c].buffer = Alloc(ok),
                                           ![c].capacity = IF ok THEN n ELSE @]
               /\ UNCHANGED <<phase, fault>>
          \/ /\ client' = [client EXCEPT ![c].buffer_size = n]
             /\ UNCHANGED <<phase, fault>>
      <3>1. ~(client[c].buffer = "live" /\ n > client[c].capacity)
        BY <2>2, <2>3, <2>4
      <3> QED BY <1>5, <1>18, <2>1, <3>1 DEF ReceiveMessage, n, Succeeds
    <2>6. ASSUME NEW ok \in BOOLEAN,
                 client' = [client EXCEPT ![c].buffer_size = n,
                                          ![c].buffer = Alloc(ok),
                                          ![c].capacity = IF ok THEN n ELSE @],
                 UNCHANGED <<phase, fault>>
          PROVE  NoFault' /\ SoundInv'
      <3> DEFINE m == IF ok THEN n ELSE client[c].capacity
      <3> DEFINE s == [client[c] EXCEPT !.buffer_size = n, !.buffer = Alloc(ok),
                                        !.capacity = m]
      <3>1. Alloc(ok) \in {"null", "live"}
        BY DEF Alloc
      <3>2. Alloc(ok) = "live" => n <= m
        BY <2>3 DEF Alloc
      <3>3. client' = [client EXCEPT ![c] = s]
        BY <2>6
      <3> HIDE DEF m
      <3>4. Sound(s)
        BY <1>1, <1>5, <2>1, <2>3, <3>1, <3>2
        DEF Sound, Pointers, Freeable, ClientStruct
      <3> HIDE DEF s, SoundInv
      <3> QED BY <1>3, <2>6, <3>3, <3>4
    <2>7. CASE /\ client' = [client EXCEPT ![c].buffer_size = n]
               /\ UNCHANGED <<phase, fault>>
      <3> DEFINE s == [client[c] EXCEPT !.buffer_size = n]
      <3>1. Sound(s)
        BY <1>1, <1>5, <2>1, <2>3, <2>4 DEF Sound, Pointers, Freeable, ClientStruct
      <3>2. client' = [client EXCEPT ![c] = s]
        BY <2>7
      <3> HIDE DEF s, SoundInv
      <3> QED BY <1>3, <2>7, <3>1, <3>2
    <2> HIDE DEF SoundInv
    <2> QED BY <2>5, <2>6, <2>7
  <1> HIDE DEF SoundInv
  <1> QED
    BY <1>4, <1>6, <1>7, <1>8, <1>9, <1>10, <1>13, <1>14, <1>15, <1>16, <1>17,
       <1>18
    DEF Next, ClientCall, CallOn, vars

LEMMA CarefulInit == Init => CarefulInv
  BY TypeInit DEF CarefulInv, Init, NoFault, Created

\* A careful application never makes the library free a block twice, read a
\* freed block, follow NULL or write past the receive buffer, as long as the
\* copies of set_config succeed, whatever other allocation fails.
THEOREM CarefulUseIsSafe == ASSUME Careful PROVE Spec => []NoFault
  <1>1. CarefulInv => NoFault
    BY DEF CarefulInv
  <1> QED BY <1>1, CarefulInit, CarefulStep, PTL DEF Spec

\* Under the same conditions recv is never offered more room than the receive
\* buffer has.
THEOREM CarefulBufferSize == ASSUME Careful PROVE Spec => []BufferSizeHonest
  <1>1. CarefulInv => BufferSizeHonest
    BY DEF CarefulInv, BufferSizeHonest, Sound
  <1> QED BY <1>1, CarefulInit, CarefulStep, PTL DEF Spec

===============================================================================
