---------------------------- MODULE MCApplication ---------------------------
(* Model checking of Application. *)
EXTENDS Application
=============================================================================
