------------------------------- MODULE MCSend -------------------------------
(* Model checking of Send. *)
EXTENDS Send
=============================================================================
