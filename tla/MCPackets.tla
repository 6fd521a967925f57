------------------------------- MODULE MCPackets -------------------------------
(* Instances of Packets for TLC. *)
EXTENDS Packets

\* 122 is the longest topic of a SUBSCRIBE whose remaining length is below 128;
\* with it, a message of 129 fills the 256 bytes of a PUBLISH.
FittingNames == 0..122
FittingMessages == {0, 1, 2, 63, 64, 125, 126, 127, 128, 129}

AnyNames == {0, 1} \cup 110..130 \cup 240..260
===============================================================================
