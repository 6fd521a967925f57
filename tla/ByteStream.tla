------------------------------ MODULE ByteStream ------------------------------
(***************************************************************************)
(* What sending a block of bytes over a connection promises: the receiver  *)
(* gets them in order, none twice, none that was not sent, and the sender  *)
(* is told "ok" only when all of them have been accepted.  It may be told  *)
(* "error" at any time, whatever has arrived by then.                      *)
(***************************************************************************)
EXTENDS Integers, Sequences

CONSTANT Data  \* the bytes to send

VARIABLES
    accepted,  \* how many of them the transport has taken over
    got,       \* what the receiver has
    outcome    \* what the sender was told

vars == <<accepted, got, outcome>>

Prefix(n) == SubSeq(Data, 1, n)

Init ==
    /\ accepted = 0
    /\ got = <<>>
    /\ outcome = "none"

Accept ==
    /\ outcome = "none"
    /\ accepted' \in accepted + 1 .. Len(Data)
    /\ UNCHANGED <<got, outcome>>

Deliver ==
    /\ \E n \in Len(got) + 1 .. accepted : got' = Prefix(n)
    /\ UNCHANGED <<accepted, outcome>>

Return ==
    /\ outcome = "none"
    /\ \/ outcome' = "error"
       \/ outcome' = "ok" /\ accepted = Len(Data)
    /\ UNCHANGED <<accepted, got>>

Next == Accept \/ Deliver \/ Return

Spec == Init /\ [][Next]_vars

===============================================================================
