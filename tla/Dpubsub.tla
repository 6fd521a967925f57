-------------------------------- MODULE Dpubsub --------------------------------
(***************************************************************************)
(* lib/src/include/dpubsub.c, the facade of the library, over TcpApi, with *)
(* the callbacks of client.c.                                              *)
(*                                                                         *)
(* Each dpubsub_* call hands on to the call of TcpApi it is named after.   *)
(* Four of them do so only for the protocol DPUBSUB_TCP and return an int  *)
(* without a value for any other.  Of the six callbacks of a client        *)
(* on_publish and on_disconnect are the ones that some call invokes.       *)
(*                                                                         *)
(* client_disconnect invokes on_disconnect between its two closes, and a   *)
(* function of the application's may call the library there: the call is   *)
(* two steps here.  Bound: it is not begun once more inside.  A callback   *)
(* that any other call invokes is the last thing of it, so that what it    *)
(* calls is as if called next.                                             *)
(***************************************************************************)
EXTENDS TcpApi

CONSTANT Protocols  \* the protocols the application passes

ASSUME DpubsubAssumption == Protocols \subseteq {"tcp", "other"}

VARIABLES
    callbacks,  \* the function pointers of each client, which change together
    called,     \* the pointer that the last step followed, and whose it is
    inside      \* the client_disconnect whose on_disconnect is running

dpVars == <<apiVars, callbacks, called, inside>>

\* Never set; those of the library; NULL; functions of the application's.
Callbacks == {"wild", "default", "null", "own"}

NoInvocation == [callback |-> "none"]

\* "wild": what was followed is a pointer that was never set.
Invocations ==
    [callback : {"wild", "on_publish", "on_disconnect"}, client : Clients]
      \cup {NoInvocation}

Outside == [own |-> TRUE]

\* own: the callback that runs is the application's.
Insides == [client : Clients, own : BOOLEAN] \cup {Outside}

DpTypeOK ==
    /\ ApiTypeOK
    /\ callbacks \in [Clients -> Callbacks]
    /\ called \in Invocations
    /\ inside \in Insides

DpInit ==
    /\ ApiInit
    /\ callbacks = [c \in Clients |-> "wild"]
    /\ called = NoInvocation
    /\ inside = Outside

-------------------------------------------------------------------------------
(* The callbacks.                                                            *)

\* Mutant: create_client leaves the callbacks as it finds them.
CallbacksKept(c) == UNCHANGED callbacks

\* create_client defines the default callbacks when it has the memory.
CallbacksCreated(c) ==
    callbacks' = [callbacks EXCEPT
                    ![c] = IF phase'[c] = "created" THEN "default" ELSE @]

Invoked(c, name) == [callback |-> name, client |-> c]

\* A pointer that was never set may happen to be NULL.
Invoke(c, name) ==
    CASE callbacks[c] \in {"default", "own"} -> called' = Invoked(c, name)
      [] callbacks[c] = "null" -> called' = NoInvocation
      [] callbacks[c] = "wild" -> called' \in {NoInvocation, Invoked(c, "wild")}

NothingCalled == called' = NoInvocation

NoApiCall ==
    /\ last' = NoCall
    /\ UNCHANGED <<vars, conn, told>>

\* define_default_callback, define_null_cb, or the application's assignment
\* to the fields themselves: set_callback is declared and defined nowhere.
DefineCallbacks(c, to) ==
    /\ callbacks' = [callbacks EXCEPT ![c] = to]
    /\ NoApiCall
    /\ NothingCalled
    /\ UNCHANGED inside

\* A call that neither sets nor invokes a callback.
Plain(call) ==
    /\ call
    /\ NothingCalled
    /\ UNCHANGED <<callbacks, inside>>

\* Mutant: on_disconnect is invoked before close is known to have succeeded.
InvokedAnyway(c) == Invoke(c, "on_disconnect")

\* disconnect_client invokes on_disconnect when close has succeeded.
InvokedIfClosed(c) ==
    IF Socket(c) \in Fds /\ fds[Socket(c)] # NoOwner
    THEN Invoke(c, "on_disconnect") ELSE NothingCalled

\* client_disconnect as far as disconnect_client's callback, when DISCONNECT
\* was sent.
DisconnectCloses(c) ==
    /\ MayCall(c)
    /\ inside = Outside
    /\ DisconnectSent(c)
    /\ fds' = CloseFd(fds, Socket(c))
    /\ phase' = Moved(c, "disconnected")
    /\ InvokedIfClosed(c)
    /\ inside' = [client |-> c, own |-> callbacks[c] = "own"]
    /\ last' = NoCall
    /\ UNCHANGED <<client, heap, fault, told, callbacks>>

\* The callback has returned: destroy_client, on what it has left.
DisconnectReturns(c) ==
    /\ inside # Outside
    /\ inside.client = c
    /\ Destroy(c, fds)
    /\ told' = [told EXCEPT ![c] = "nothing"]
    /\ Return("client_disconnect", c, "none")
    /\ inside' = Outside
    /\ NothingCalled
    /\ UNCHANGED <<conn, callbacks>>

\* Mutant: DISCONNECT is sent and nothing else is done.
OnlySends(c) == Plain(DisconnectOnlySends(c))

Disconnecting(c) ==
    \/ Plain(MayCall(c) /\ DisconnectRefused(c))
    \/ DisconnectCloses(c)

\* publish invokes on_publish when the packet was sent.
Publishing(c) ==
    /\ ClientPublish(c)
    /\ IF fault' = "none" /\ last'.ret = "ok"
       THEN Invoke(c, "on_publish") ELSE NothingCalled
    /\ UNCHANGED <<callbacks, inside>>

\* The calls of client.h that an application makes beside the facade.
Beside(c) ==
    /\ "mixed" \in ApiUses
    /\ DirectCall(c)
    /\ IF DisconnectClient(c) THEN InvokedIfClosed(c) ELSE NothingCalled
    /\ UNCHANGED <<callbacks, inside>>

\* disconnect_client on a descriptor that is closed already: close fails.
DisconnectFails(c) ==
    /\ "mixed" \in ApiUses /\ Usable(c)
    /\ Socket(c) \in Fds /\ fds[Socket(c)] = NoOwner
    /\ NoApiCall
    /\ InvokedIfClosed(c)
    /\ UNCHANGED <<callbacks, inside>>

-------------------------------------------------------------------------------
(* The facade.                                                               *)

DpubsubConfig(c, p) ==
    /\ p = "tcp"
    /\ Create(c)
    /\ CallbacksCreated(c)
    /\ NothingCalled
    /\ UNCHANGED inside

DpubsubConnect(c, p) == p = "tcp" /\ Plain(ClientConnect(c))

DpubsubDisconnect(c, p) == p = "tcp" /\ Disconnecting(c)

DpubsubPingreq(c, p) == p = "tcp" /\ Plain(ClientPingreq(c))

\* The other three do not look at the protocol.
DpubsubSubscribe(c) == Plain(ClientSubscribe(c))
DpubsubUnsubscribe(c) == Plain(ClientUnsubscribe(c))
DpubsubPublish(c) == Publishing(c)

\* For another protocol nothing is called, and the int that is returned may
\* well say 0: the application takes the client for connected, or for created
\* (what it may do then is the pattern "uncreated").
NotForwarded(c, p) ==
    /\ p # "tcp"
    /\ UNCHANGED <<vars, conn>>
    /\ \/ /\ last' = NoCall  \* dpubsub_config
          /\ UNCHANGED told
       \/ /\ MayConnect(c)
          /\ \E up \in BOOLEAN :
              /\ told' = [told EXCEPT ![c] = IF up THEN "up" ELSE "failed"]
              /\ Return("client_connect", c, IF up THEN "ok" ELSE "err")
       \/ /\ MayCall(c)
          /\ \E op \in {"client_disconnect", "client_pingreq"}, ret \in {"ok", "err"} :
                 Return(op, c, ret)
          /\ UNCHANGED told

DpCall(c) ==
    \/ \E p \in Protocols :
        \/ DpubsubConfig(c, p)
        \/ DpubsubConnect(c, p)
        \/ DpubsubDisconnect(c, p)
        \/ DpubsubPingreq(c, p)
        \/ Plain(NotForwarded(c, p))
    \/ DpubsubSubscribe(c)
    \/ DpubsubUnsubscribe(c)
    \/ DpubsubPublish(c)
    \/ Plain(SendMessage(c))
    \/ Plain(LeaveBy(DestroyClient(c), c))
    \/ Beside(c)
    \/ DisconnectFails(c)
    \/ \E to \in Callbacks \ {"wild"} : DefineCallbacks(c, to)

\* The application's own on_disconnect may make any call.  A pointer that was
\* never set ends the process when it is followed.
DpNext ==
    /\ fault = "none"
    /\ called.callback # "wild"
    /\ \/ \E c \in Clients : inside.own /\ DpCall(c)
       \/ \E c \in Clients : DisconnectReturns(c)
       \/ \E d \in Fds : Plain(PeerGoes(d))

DpSpec == DpInit /\ [][DpNext]_dpVars

-------------------------------------------------------------------------------
(* Properties.                                                               *)

\* A function pointer that was never set is followed only for a client_t that
\* create_client has not made, because it failed, was called for another
\* protocol or not at all, and its result was not looked at.  A client that
\* was made has callbacks whatever was done to it before.
NoWildCallback == called.callback = "wild" => ~Created(called.client)

\* The application hears of a disconnection only when a connection was given
\* up in that very call, before its callback runs, and of a publication only
\* when its packet was sent.
CallbacksTrue ==
    [][/\ called'.callback = "on_disconnect" =>
             \E d \in Fds : fds[d] # NoOwner /\ fds'[d] = NoOwner
       /\ called'.callback = "on_publish" =>
             last'.op = "client_publish" /\ last'.ret = "ok"]_dpVars

===============================================================================
