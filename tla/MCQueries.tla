----------------------------- MODULE MCQueries -----------------------------
(* Model checking of Queries. *)
EXTENDS Queries
=============================================================================
