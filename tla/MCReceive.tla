----------------------------- MODULE MCReceive -----------------------------
(* Model checking of Receive. *)
EXTENDS Receive
=============================================================================
