------------------------------- MODULE MCTcpApi -------------------------------
(* Instances of TcpApi for TLC. *)
EXTENDS TcpApi, TLC

\* The clients are interchangeable: no action and no property names one.
Symmetry == Permutations(Clients)
===============================================================================
