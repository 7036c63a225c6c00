----------------------------- MODULE MCTxSerial -----------------------------
(* Model checking of TxSerial; the instances are in the cfg files. *)
EXTENDS TxSerial
=============================================================================
