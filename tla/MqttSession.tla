------------------------------ MODULE MqttSession ------------------------------
(***************************************************************************)
(* What an application may expect of the MQTT sessions of its clients:     *)
(* each is opened and closed by a call on its own client, a call on one    *)
(* client leaves the others' sessions alone, and a session that was lost,  *)
(* with its peer or by a send that was reported to have failed, does not   *)
(* come back: it has to be closed and opened anew.                         *)
(***************************************************************************)
CONSTANT Clients

VARIABLE
    session  \* what has become of the session the application was told of

SessionTypeOK == session \in [Clients -> {"closed", "open", "lost"}]

Init == session = [c \in Clients |-> "closed"]

\* The peer may go before CONNECT arrives: the session is then lost unseen.
Open(c) ==
    /\ session[c] = "closed"
    /\ \E s \in {"open", "lost"} : session' = [session EXCEPT ![c] = s]

Lose(c) ==
    /\ session[c] = "open"
    /\ session' = [session EXCEPT ![c] = "lost"]

Close(c) ==
    /\ session[c] # "closed"
    /\ session' = [session EXCEPT ![c] = "closed"]

Next == \E c \in Clients : Open(c) \/ Lose(c) \/ Close(c)

Spec == Init /\ [][Next]_session

===============================================================================
