---------------------------- MODULE MCPacketList ----------------------------
(* Model checking of PacketList; the blocks are alike, and so are the sockets. *)
EXTENDS PacketList

Symmetry == Permutations(Blocks) \cup Permutations(Ids)
=============================================================================
