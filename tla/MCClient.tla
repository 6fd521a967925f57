------------------------------- MODULE MCClient -------------------------------
(* Instances of Client for TLC. *)
EXTENDS Client, TLC

\* The clients are interchangeable: no action and no property names one.
Symmetry == Permutations(Clients)
===============================================================================
