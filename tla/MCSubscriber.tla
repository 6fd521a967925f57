----------------------------- MODULE MCSubscriber -----------------------------
(* Instances of Subscriber for TLC. *)
EXTENDS Subscriber

Empty == [qos |-> 0, topic |-> 1, payload |-> 0]

\* The largest remaining length of one byte, 127, with a long topic and with a
\* long payload; and the smallest of two.
LongTopic == [qos |-> 0, topic |-> 124, payload |-> 1]
LongPayload == [qos |-> 1, topic |-> 1, payload |-> 122]
Large == [qos |-> 1, topic |-> 1, payload |-> 123]

AllKinds == {LongTopic, LongPayload, Large}
SmallKinds == {LongTopic, LongPayload}
OneKind == {Empty}

===============================================================================
