------------------------------- MODULE MCDpubsub -------------------------------
(* Instances of Dpubsub for TLC. *)
EXTENDS Dpubsub

\* Where create_client may be repeated on a live client the blocks it forgets
\* have no bound: the states are told apart without heap, and without the
\* record of the last step as far as no next step depends on it.  No property
\* of the runs reads heap, and CallbacksTrue, on every step, reads the record
\* that the step has just written.
WithoutRecord ==
    <<client, fds, phase, fault, conn, told, callbacks, inside,
      IF called.callback = "wild" THEN called ELSE NoInvocation>>

===============================================================================
