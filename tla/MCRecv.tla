------------------------------- MODULE MCRecv -------------------------------
EXTENDS Recv, TLC

\* Sockets are interchangeable; used in runs of safety properties only.
Symmetry == Permutations(Ids)
=============================================================================
