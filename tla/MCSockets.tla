----------------------------- MODULE MCSockets -----------------------------
(* Model checking of Sockets; the handles, and the addresses, are alike. *)
EXTENDS Sockets, TLC

Symmetry == Permutations(Handles) \cup Permutations(Addrs)
=============================================================================
